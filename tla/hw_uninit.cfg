SPECIFICATION Spec
CONSTANTS
  Axis = {a1}
  QueueLength = 3
  Lossy = FALSE
  Memory = {TRUE, FALSE}
  Claimable = {"position", "velocity", "effort"}
  Feedback = {}
INVARIANTS InactiveIsIdle
