\* Two issues, two models, two jobs, every failure.
SPECIFICATION Spec
CONSTANTS
  A = A
  B = B
  Leak = Leak
  Race = Race
  Issues <- TwoIssues
  Models <- BothModels
  Roster <- Pair
  DryRuns = {FALSE, TRUE}
  PromptLimit = 2
  MaxCarried = 2
  MaxJobs = 2
INVARIANTS
  TypeOK
  Accounting
  LaterModelsSeeEarlier
PROPERTIES
  NoRepeat
SYMMETRY IssueSymmetry
CHECK_DEADLOCK FALSE
