SPECIFICATION Spec
CONSTANTS
  FarmObjects <- FarmOf
  StoreObjects <- StoreOf
  ResolutionRoot <- Store
  BindTarget <- Farm
  MaxOpenFiles = 2
  MaxIno = 3
  MaxFh = 3
INVARIANTS
  TypeOK
  InodesNamed
  OneBackingPerInode
  ScanComplete
PROPERTIES
  FreshAfterClose
  RealizedAsDocumented
  IsFileService
