SPECIFICATION HSpec
CONSTANTS
  Component <- RamComponent
  Kind <- RamKind
  Width <- RamWidth
  Drivers <- RamDrivers
  Outputs <- RamOutputs
  SliceLo <- RamSliceLo
  AddrWidth <- RamAddrWidth
  HostPin <- RamHostPin
  HostValue <- RamHostValue
  HostWord <- RamHostWord
  HostImage <- RamHostImage
  MaxSettleWork = 40
  GenLimit = 3
INVARIANTS
  MemoryPresentsWord
  EdgeDetectorInStep
PROPERTIES
  OneStorePerEdge
