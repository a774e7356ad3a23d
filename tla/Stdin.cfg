CONSTANTS
  Readers = {r1, r2}
  NoReader = NoReader
  MaxInput = 5
  MaxChunk = 2
  MultiByte = FALSE
SPECIFICATION FairSpec
INVARIANTS
  TypeOK
  InputInOrder
  ReadingForTheWaiter
  ResultsFit
PROPERTIES
  WaiterGoesOn
