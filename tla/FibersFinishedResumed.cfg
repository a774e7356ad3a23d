CONSTANTS
  Fibers = {f1, f2, f3}
  NoFiber = NoFiber
  MaxFrames = 2
  Transfers = TRUE
  MixedEntry = FALSE
SPECIFICATION Spec
INVARIANTS
  NeverUndefined
