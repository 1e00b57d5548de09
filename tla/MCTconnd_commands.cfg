SPECIFICATION Spec
CONSTANTS
  Connections = 2
  PackageConnections = 1
  AcceptTicksLimit = 1
  PackageTicksLimit = 1
  OpListMax = 1
  OutputLimit = 1
  CommandKinds = {"accept", "send", "close", "bad"}
  BroadcastMax = 2
  ClientFaults = {"close"}
  MaxClients = 2
  MaxHalves = 0
  MaxCommands = 2
  MaxRestarts = 1
INVARIANTS
  TypeOK
  ListsAgree
  NoDanglingIov
  CidsUntilRestart
