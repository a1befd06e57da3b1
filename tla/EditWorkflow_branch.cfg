\* Commands on a pull request whose branch is at origin, or by hand in a dirty
\* checkout with nothing staged: every tool, every failure, and pushes, forced
\* ones too, from the preflight on.
SPECIFICATION Spec
CONSTANTS
  NoBranch = NoBranch
  p = p
  q = q
  Paths <- TwoPaths
  Base <- Opened
  Remotes <- OwnBranch
  DevCommits <- TwoCommits
  Triggers = {"issue_comment", "local"}
  DryRuns = {FALSE, TRUE}
  AgentTools <- EveryTool
  MaxTools = 4
  Staged = FALSE
  QuietCheckout = TRUE
  Faults <- EveryFault
INVARIANTS
  TypeOK
  NoChangesMeansNone
  PushedMeansLanded
  CommitsOnlyTouched
  UserChangesStay
PROPERTIES
  BranchSpec
  OnlyKnownCommitsLand
CHECK_DEADLOCK FALSE
