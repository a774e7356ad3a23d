CONSTANTS
  Fibers = {f1, f2, f3}
  NoFiber = NoFiber
  MaxFrames = 1
  Transfers = TRUE
  MixedEntry = FALSE
  BusyCalls = TRUE
  MaxRequests = 1
  Watched = {f1}
SPECIFICATION FairSchedulerSpec
INVARIANTS
  SchedulerTypeOK
  HandlesAccounted
PROPERTIES
  ParkedIsResumed
  UncaughtErrorExits
