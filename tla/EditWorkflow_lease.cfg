\* A developer may push between the checkout and the preflight.
SPECIFICATION Spec
CONSTANTS
  NoBranch = NoBranch
  p = p
  q = q
  Paths <- TwoPaths
  Base <- Opened
  Remotes <- OwnBranch
  DevCommits <- TwoCommits
  Triggers = {"issue_comment"}
  DryRuns = {FALSE}
  AgentTools <- EveryTool
  MaxTools = 3
  Staged = FALSE
  QuietCheckout = FALSE
  Faults <- NoFaults
PROPERTIES
  UnseenCommitKept
CHECK_DEADLOCK FALSE
