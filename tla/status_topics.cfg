SPECIFICATION Spec
CONSTANTS
  node_id_ = 3
  Node = {3, 4}
  Configurations = {
    {"heartbeat", "encoder", "iq", "torques", "mit"},
    {"heartbeat", "error", "temp", "bus_vc"}}
  MaxFrames = 9
INVARIANTS
  TypeOK
  PublishedOnTime
PROPERTIES
  FieldsFresh
