SPECIFICATION FairSpec
CONSTANTS
  Modes = {"velocity"}
  AxisStates = {"idle", "closed_loop"}
  MaxMsgs = 2
  MaxRequests = 2
  MaxLimits = 1
  MaxClears = 0
  axis_idle_on_shutdown_ = TRUE
  Faults = FALSE
  Spurious = FALSE
  Prompt = TRUE
INVARIANTS
  IdleLast
  FreshResponse
PROPERTIES
  ControlDelivered
  ServiceAnswers
  RequestsCarriedOut
  ImplementsRequests
