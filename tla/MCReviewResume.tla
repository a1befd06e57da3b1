--------------------------- MODULE MCReviewResume ---------------------------
(* Small pull requests for ReviewResume.  In the chain every push is a     *)
(* fast-forward; in the fork commits 2 and 3 are siblings on top of 1 and a*)
(* push may move the head anywhere.                                        *)
EXTENDS ReviewResume, TLC

CONSTANTS A, B, C1, C2, C3

ChainCommits == 1..3
ChainAncestors == [c \in ChainCommits |-> 1..c]
FastForwards == {<<c, d>> \in ChainCommits \X ChainCommits : c < d}

ShortCommits == 1..2
ShortAncestors == [c \in ShortCommits |-> 1..c]
ShortMoves == {<<1, 2>>}

ForkCommits == {C1, C2, C3}
ForkAncestors == [c \in ForkCommits |-> {C1, c}]
AnyMoves == {<<c, d>> \in ForkCommits \X ForkCommits : c # d}

BothModels == {A, B}
OnlyA == {A}
Pair == {<<A, B>>}
Single == {<<A>>}
PairOrSingle == {<<A, B>>, <<A>>}

EveryFault == FaultKinds
NoFaults == {}
OverlapFaults == FaultKinds \ {"thread", "silent"}
Siblings == Permutations({C2, C3})
AnyJob == Permutations(Jobs)

SingleFaults == {"abort", "thread", "silent"}
=============================================================================
