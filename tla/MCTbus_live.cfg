SPECIFICATION FairSpec
CONSTANTS
  HeaderSize = 2
  PacketSize = 4
  Number = 1
  IovNum = 1
  Requests <- FitRequests
  MayRefuse = FALSE
  MaxSent = 5
  MaxCrashes = 2
PROPERTIES
  AllReleased
