---------------------------- MODULE MCReviewState ----------------------------
(* A small pull request for ReviewState: commits 1 and 2 in line, 3 beside *)
(* 2 after a forced push, and 4, another name of commit 2.  2 changes both *)
(* files, 3 merges the base's change of file "g".                          *)
EXTENDS ReviewState

CONSTANTS A, B, P

HistoryShas == 1..4
HistoryAncestors == <<{1}, {1, 2, 4}, {1, 3}, {1, 2, 4}>>

TwoFiles == {"f", "g"}
Trees ==
  LET tree(f, g) == [x \in TwoFiles |-> IF x = "f" THEN f ELSE g]
  IN  <<tree(1, 0), tree(2, 1), tree(1, 1), tree(2, 1)>>
TreePRFiles == <<{"f"}, {"f", "g"}, {"f"}, {"f", "g"}>>

Slugs == [m \in {A, B} |-> m]
=============================================================================
