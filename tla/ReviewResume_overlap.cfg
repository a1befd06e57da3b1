\* Two models and the workflow of the README, which has no concurrency group:
\* two jobs at once, fast-forward pushes, every failure but that
\* of a thread file.
SPECIFICATION Spec
CONSTANTS
  None = None
  NoModel = NoModel
  A = A
  B = B
  C1 = C1
  C2 = C2
  C3 = C3
  Commits <- ShortCommits
  Ancestors <- ShortAncestors
  Root = 1
  Legacy = {1}
  HeadMoves <- ShortMoves
  Models <- BothModels
  Rosters <- Pair
  DryRuns = {FALSE}
  Kinds = {"action"}
  Jobs = {j1, j2}
  Faults <- OverlapFaults
  MaxRuns = 3
SYMMETRY AnyJob
INVARIANTS
  TypeOK
  NoCommitSkipped
  ResumeBaseCovered
  ThreadKnowsBase
PROPERTIES
  CoverageSpec
CHECK_DEADLOCK FALSE
