CONSTANTS
  Fibers = {f1, f2, f3}
  NoFiber = NoFiber
  MaxFrames = 2
  Transfers = FALSE
  MixedEntry = FALSE
SPECIFICATION Spec
SYMMETRY Symmetry
INVARIANTS
  WaitersAreLive
  CallersFormChain
  ApiStackInPlace
  NeverUndefined
  AbortedNeverRuns
PROPERTIES
  ImplementsFiberStack
