SPECIFICATION Spec
CONSTANTS
  Modes = {"velocity","mit"}
  AxisStates = {}
  MaxMsgs = 2
  MaxRequests = 0
  MaxLimits = 0
  MaxClears = 0
  axis_idle_on_shutdown_ = FALSE
  Faults = FALSE
  Spurious = FALSE
  Prompt = TRUE
INVARIANTS
  MITSkipsModeFrame
