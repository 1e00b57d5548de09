SPECIFICATION Spec
CONSTANTS
  Timers = {t1, t2}
  TVR_SIZE = 4
  TVN_SIZE = 2
  Delays <- Boundaries
  CallbackDelays <- SafeDelays
  MaxJiffies = 70
INVARIANTS
  DrainsWhatIsDue
PROPERTIES
  IsTimerQueue
