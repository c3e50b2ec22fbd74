SPECIFICATION Spec
CONSTANTS
  Component <- MCComponent
  Kind <- MCKind
  Width <- MCWidth
  Drivers <- MCDrivers
  Outputs <- MCOutputs
  SliceLo <- MCSliceLo
  AddrWidth <- MCAddrWidth
  HostPin <- MCHostPin
  HostValue <- MCHostValue
  HostWord <- MCHostWord
  HostImage <- MCHostImage
  MaxSettleWork = 80
  GenLimit = 9
INVARIANTS
  TypeOK
  SettledConsistent
  QueueTracksTargets
  NothingIsLost
PROPERTIES
  FailedIsFinal
  ImplementsSettledNet
CHECK_DEADLOCK FALSE
