SPECIFICATION HSpec
CONSTANTS
  Component <- SkewComponent
  Kind <- SkewKind
  Width <- SkewWidth
  Drivers <- SkewDrivers
  Outputs <- SkewOutputs
  SliceLo <- SkewSliceLo
  AddrWidth <- SkewAddrWidth
  HostPin <- SkewHostPin
  HostValue <- SkewHostValue
  HostWord <- SkewHostWord
  HostImage <- SkewHostImage
  MaxSettleWork = 60
  GenLimit = 6
INVARIANTS
  OneLiveEvent
  DelayIsExact
  WiredPinFollowsDriver
PROPERTIES
  InertialFilter
