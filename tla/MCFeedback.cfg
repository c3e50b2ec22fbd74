SPECIFICATION HSpec
CONSTANTS
  Component <- FeedbackComponent
  Kind <- FeedbackKind
  Width <- FeedbackWidth
  Drivers <- FeedbackDrivers
  Outputs <- FeedbackOutputs
  SliceLo <- FeedbackSliceLo
  AddrWidth <- FeedbackAddrWidth
  HostPin <- FeedbackHostPin
  HostValue <- FeedbackHostValue
  HostWord <- FeedbackHostWord
  HostImage <- FeedbackHostImage
  MaxSettleWork = 120
  GenLimit = 6
INVARIANTS
  SettlesWithinBudget
  SetAndReset
PROPERTIES
  HandoffHolds
