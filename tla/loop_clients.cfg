SPECIFICATION FairSpec
CONSTANTS
  sub = sub
  srv = srv
  lim = lim
  can = can
  Event <- MCEvent
  EventFd <- MCEventFd
  NoEvent = NoEvent
  kMaxEventsPerIteration = 16
  Discipline <- MCDiscipline
INVARIANTS
  TypeOK
  SafeDispatch
  ReadNeverBlocks
PROPERTIES
  NoLostWakeup
  ImplementsWakeups
