SPECIFICATION FairSpec
CONSTANTS
  SOCKETAPI_RECVBUF_SIZE = 6
  Sizes = {0, 2}
  MaxOpens = 2
  MaxPackets = 2
  MaxSends = 3
INVARIANTS
  TypeOK
  Delivery
  Framed
PROPERTIES
  Received
