\* A roster that loses and regains its second model.
SPECIFICATION Spec
CONSTANTS
  None = None
  NoModel = NoModel
  A = A
  B = B
  C1 = C1
  C2 = C2
  C3 = C3
  Commits <- ChainCommits
  Ancestors <- ChainAncestors
  Root = 1
  Legacy = {1}
  HeadMoves <- FastForwards
  Models <- BothModels
  Rosters <- PairOrSingle
  DryRuns = {FALSE}
  Kinds = {"action"}
  Jobs = {j1}
  Faults <- EveryFault
  MaxRuns = 3
INVARIANTS
  ResumeBaseCovered
CHECK_DEADLOCK FALSE
