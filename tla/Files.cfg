CONSTANTS
  Fibers = {g1, g2}
  Files = {x1, x2}
  Paths = {p1, p2}
  None = None
  MaxDescriptor = 2
  MaxLength = 1
  Shared = TRUE
SPECIFICATION Spec
SYMMETRY Symmetry
INVARIANTS
  TypeOK
  DescriptorsOwned
  OperationsHitTheirFile
