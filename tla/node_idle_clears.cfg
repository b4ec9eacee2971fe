SPECIFICATION Spec
CONSTANTS
  Modes = {}
  AxisStates = {"idle"}
  MaxMsgs = 0
  MaxRequests = 1
  MaxLimits = 0
  MaxClears = 0
  axis_idle_on_shutdown_ = FALSE
  Faults = FALSE
  Spurious = FALSE
  Prompt = TRUE
INVARIANTS
  IdleKeepsErrors
