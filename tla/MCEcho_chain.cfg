SPECIFICATION EchoFairSpec
CONSTANTS
  Clients <- MCClients
  OutputLimit = 1
  InputLimit = 2
  MaxRequests = 2
  MaxTroubles = 1
INVARIANTS
  RepliesMatch
  NothingThrown
PROPERTIES
  Answered
  Ends
