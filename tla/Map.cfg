CONSTANTS
  Keys = {k1, k2, k3, k4, k5}
  Values = {v1, v2}
  Undefined = Undefined
  Hashes = {0, 3, 7}
  MinCapacity = 4
  GrowFactor = 2
  LoadPercent = 75
SPECIFICATION Spec
SYMMETRY Symmetry
INVARIANTS
  TypeOK
  TableIsSound
PROPERTIES
  ImplementsDictionary
