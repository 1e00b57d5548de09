SPECIFICATION FairSpec
CONSTANTS
  Connections = 1
  PackageConnections = 2
  AcceptTicksLimit = 1
  PackageTicksLimit = 1
  OpListMax = 1
  OutputLimit = 1
  CommandKinds = {"accept"}
  BroadcastMax = 1
  ClientFaults = {}
  MaxClients = 1
  MaxHalves = 0
  MaxCommands = 1
  MaxRestarts = 0
PROPERTIES
  Deadlines
