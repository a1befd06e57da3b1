--------------------------- MODULE MCEditWorkflow ---------------------------
(* Small branches for EditWorkflow: two paths, a branch of two commits, and*)
(* two commits developers may push, one to each path.                      *)
EXTENDS EditWorkflow

CONSTANTS p, q

TwoPaths == {p, q}
Dev(path, content) == [by |-> "dev", writes |-> [x \in {path} |-> content]]
Opened == <<Dev(p, "dev"), Dev(q, "dev")>>
TwoCommits == {Dev(p, "base"), Dev(q, "absent")}

WithoutQ == <<Dev(p, "dev"), Dev(q, "absent")>>
OwnBranch == {Opened}
BranchWithoutQ == {WithoutQ}
ForkOnly == {NoBranch}
EitherBranch == {Opened, NoBranch}
EveryTool == ToolKinds
EditTools == {"write", "remove", "git commit", "git commit --amend"}
NoFaults == {}
EveryFault == FaultKinds
=============================================================================
