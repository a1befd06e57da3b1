\* Two turns of two iterations, two calls of two pieces, every fault but a
\* chunk that ends inside a character.
SPECIFICATION Spec
CONSTANTS
  A = A
  B = B
  Models = {A, B}
  Extends <- NoNames
  MaxIterations = 2
  MaxCalls = 2
  Pieces = 2
  Faults = {"lost", "end", "error", "disk", "kill"}
  Streams = {FALSE, TRUE}
  MaxTurns = 2
INVARIANTS
  TypeOK
  RequestsWellFormed
  StoredThreadsFinished
  ExecutedAsSent
PROPERTIES
  StoreSpec
SYMMETRY ModelSymmetry
CHECK_DEADLOCK FALSE
