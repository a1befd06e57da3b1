\* One model, any push (forced ones too), both ways of starting it, dry runs.
SPECIFICATION Spec
CONSTANTS
  None = None
  NoModel = NoModel
  A = A
  B = B
  C1 = C1
  C2 = C2
  C3 = C3
  Commits <- ForkCommits
  Ancestors <- ForkAncestors
  Root = C1
  Legacy = {}
  HeadMoves <- AnyMoves
  Models <- OnlyA
  Rosters <- Single
  DryRuns = {FALSE, TRUE}
  Kinds = {"action", "local"}
  Jobs = {j1}
  Faults <- SingleFaults
  MaxRuns = 3
SYMMETRY Siblings
INVARIANTS
  NoCommitSkipped
  OneSummaryPerModel
CHECK_DEADLOCK FALSE
