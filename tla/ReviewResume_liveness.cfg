\* No failure but cancellation: the head ends up reviewed.
SPECIFICATION FairSpec
CONSTANTS
  None = None
  NoModel = NoModel
  A = A
  B = B
  C1 = C1
  C2 = C2
  C3 = C3
  Commits <- ChainCommits
  Ancestors <- ChainAncestors
  Root = 1
  Legacy = {1}
  HeadMoves <- FastForwards
  Models <- BothModels
  Rosters <- Pair
  DryRuns = {FALSE}
  Kinds = {"action"}
  Jobs = {j1}
  Faults <- NoFaults
  MaxRuns = 3
PROPERTIES
  HeadGetsReviewed
CHECK_DEADLOCK FALSE
