SPECIFICATION FairSpec
CONSTANTS
  HeaderSize = 2
  PacketSize = 4
  Number = 2
  IovNum = 1
  Requests <- LogRequests
  MayRefuse = FALSE
  MaxSent = 5
  MaxCrashes = 0
PROPERTIES
  AllReleased
