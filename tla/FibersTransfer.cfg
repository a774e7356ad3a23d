CONSTANTS
  Fibers = {f1, f2, f3}
  NoFiber = NoFiber
  MaxFrames = 2
  Transfers = TRUE
  MixedEntry = TRUE
SPECIFICATION Spec
SYMMETRY Symmetry
INVARIANTS
  TypeOK
  TryHasCaller
  RootHasNoCaller
  AbortedIsUnhooked
