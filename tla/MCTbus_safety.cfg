SPECIFICATION Spec
CONSTANTS
  HeaderSize = 2
  PacketSize = 4
  Number = 3
  IovNum = 2
  Requests <- AllRequests
  MayRefuse = TRUE
  MaxSent = 5
  MaxCrashes = 1
INVARIANTS
  TypeOK
  GrantedSpaceIsFree
  PacketsIntact
  NeverDiscards
  BatchInOrder
  EqualIsEmpty
  IInv
PROPERTIES
  IsChannel
