SPECIFICATION Spec
CONSTANTS
  Connections = 3
  PackageConnections = 1
  AcceptTicksLimit = 1
  PackageTicksLimit = 1
  OpListMax = 1
  OutputLimit = 1
  CommandKinds = {"accept"}
  BroadcastMax = 1
  ClientFaults = {"huge", "close"}
  MaxClients = 2
  MaxHalves = 2
  MaxCommands = 2
  MaxRestarts = 0
INVARIANTS
  ListsAgree
  PoolsAgree
  DeadlinesInOrder
  NoLostEvent
PROPERTIES
  IsSessions
