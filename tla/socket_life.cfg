SPECIFICATION Spec
CONSTANTS
  Program = {"plugin", "node"}
  MaxFd = 2
  MaxSessions = 3
INVARIANTS
  TypeOK
  ForeignOnlyAfterDeinit
  OneSocket
  ContextFollowsSocket
PROPERTIES
  VanishedIsDeregistered
  ImplementsLoop
