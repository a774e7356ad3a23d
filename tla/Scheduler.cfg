CONSTANTS
  Fibers = {f1, f2, f3, f4, f5}
  NoFiber = NoFiber
  MaxFrames = 1
  Transfers = TRUE
  MixedEntry = FALSE
  BusyCalls = FALSE
  MaxRequests = 1
  Watched = {}
SPECIFICATION SchedulerSpec
SYMMETRY Symmetry
INVARIANTS
  ParkedWaitsForItsRequest
  QueuedHasNotStarted
  ScheduledWaitersAreLive
  ScheduledNeverUndefined
