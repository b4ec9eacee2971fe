SPECIFICATION FairSpec
CONSTANTS
  Axis = {a1}
  QueueLength = 3
  Lossy = TRUE
  Memory = {TRUE, FALSE}
  Claimable = {"position", "effort"}
  Feedback = {"Get_Torques"}
INVARIANTS TypeOK FollowsInterfaces SetpointFitsMode OnlyClaimedInputs DeactivatedIsIdle
PROPERTIES DeactivationTakesEffect ImplementsOrders
