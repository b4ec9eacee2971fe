SPECIFICATION FramesSpec
CONSTANTS
  Messages <- AllMessages
  Values <- TwoPatterns
  Junk <- NoneOrAll
  WordBits = 64
  Position <- Positions
  Velocity <- Velocities
  Gain <- Gains
  Damping <- Dampings
  Torque <- Torques
  Feedforward <- Feedforwards
  Raw <- Codes
  NaN = NaN
INVARIANTS
  TypeOK
  DecodesWhatWasEncoded
  MITCommandArrives
  FeedbackArrives
  ScaledFeedforwardArrives
  CommandFieldsArrive
  StatusFieldsArrive
