SPECIFICATION Spec
CONSTANTS
  Modes = {"velocity", "mit", "voltage"}
  AxisStates = {"idle"}
  MaxMsgs = 2
  MaxRequests = 1
  MaxLimits = 0
  MaxClears = 1
  axis_idle_on_shutdown_ = FALSE
  Faults = TRUE
  Spurious = TRUE
  Prompt = FALSE
INVARIANTS
  TypeOK
  ControlSettled
  ServicesSettled
  CrashOnlyInTeardown
