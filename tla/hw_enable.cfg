SPECIFICATION FairSpec
CONSTANTS
  Axis = {a1}
  QueueLength = 3
  Lossy = FALSE
  Memory = {FALSE}
  Claimable = {"position"}
  Feedback = {}
PROPERTIES EnabledOnlyBySwitch
