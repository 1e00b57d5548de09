SPECIFICATION FairSpec
CONSTANTS
  Connections = 3
  PackageConnections = 3
  AcceptTicksLimit = 1
  PackageTicksLimit = 1
  OpListMax = 1
  OutputLimit = 1
  CommandKinds = {"accept"}
  BroadcastMax = 2
  ClientFaults = {"close"}
  MaxClients = 2
  MaxHalves = 2
  MaxCommands = 1
  MaxRestarts = 0
PROPERTIES
  Deadlines
  PackagesForwarded
INVARIANTS
  StreamCut
