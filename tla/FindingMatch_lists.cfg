\* Every pair of lists of up to two findings, entries in every order.
SPECIFICATION Spec
CONSTANTS
  P = P
  Q = Q
  NoPath = NoPath
  NoSeverity = NoSeverity
  Raws <- SomeRaws
  Entries <- SomeEntries
  Tolerance = 3
  MaxFindings = 2
INVARIANTS
  TypeOK
  OneToOne
  Stable
  StrongestEntry
CHECK_DEADLOCK FALSE
