SPECIFICATION HSpec
CONSTANTS
  Component <- RomComponent
  Kind <- RomKind
  Width <- RomWidth
  Drivers <- RomDrivers
  Outputs <- RomOutputs
  SliceLo <- RomSliceLo
  AddrWidth <- RomAddrWidth
  HostPin <- RomHostPin
  HostValue <- RomHostValue
  HostWord <- RomHostWord
  HostImage <- RomHostImage
  MaxSettleWork = 40
  GenLimit = 3
INVARIANTS
  MemoryPresentsWord
