\* Two models' runs over one directory, forced pushes, lost and damaged files.
SPECIFICATION Spec
CONSTANTS
  A = A
  B = B
  P = P
  PRs = {P}
  Models = {A, B}
  Shas <- HistoryShas
  Files <- TwoFiles
  Versions = {0, 1, 2}
  Slug <- Slugs
  Ancestors <- HistoryAncestors
  Version <- Trees
  PRFiles <- TreePRFiles
  Spaced = {"g"}
  Quoted = {}
  NoSha = NoSha
  NoRecord = NoRecord
  Jobs = {j1, j2}
  MaxRuns = 3
  MaxDamage = 1
INVARIANTS
  TypeOK
  NoForeignFindings
  FullyReviewed
PROPERTIES
  OnlyOwnRecordWritten
CHECK_DEADLOCK FALSE
