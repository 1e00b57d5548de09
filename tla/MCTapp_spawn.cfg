SPECIFICATION FairSpec
CONSTANTS
  TAPP_THREADS = 4
  MaxThreads = 4
  Funcs = 2
  IdleLimit = 2
  Plain = {0}
INVARIANTS
  AllJoined
  Verdict
PROPERTIES
  Stops
  EveryFunctionCalled
