\* Any three commands over two pull requests, after any captures.
SPECIFICATION Spec
CONSTANTS
  P1 = P1
  P2 = P2
  S1 = S1
  S2 = S2
  PRs = {P1, P2}
  Shas = {S1, S2}
  NoSha = NoSha
  NoSeverity = NoSeverity
  Findings <- SomeFindings
  Bodies <- SomeBodies
  Starts <- SomeStarts
  Pending = {"pending"}
  Need = 8000
  Scripts = {"capture", "copy", "compare", "overlap", "report", "score", "bake", "build", "repin", "relabel", "label"}
  MaxCommands = 3
SYMMETRY Symmetry
INVARIANTS
  TypeOK
  FreshAfterRun
  GateHolds
CHECK_DEADLOCK FALSE
