CONSTANTS
  Objects = {o1, o2, o3, o4}
  None = None
  MaxTempRoots = 5
  MaxElements = 2
  MaxHandles = 1
  KeepsClasses = TRUE
  ModulesGrow = FALSE
SPECIFICATION Spec
SYMMETRY Symmetry
INVARIANTS
  TypeOK
  NothingInUseIsFreed
  FinalizerFindsClass
  TempRootsBalanced
