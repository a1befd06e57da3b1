--------------------------- MODULE MCReviewPosting ---------------------------
(* Small pull requests for ReviewPosting: two issues, two models.          *)
EXTENDS ReviewPosting, TLC

CONSTANTS A, B, Leak, Race

TwoIssues == {Leak, Race}
BothModels == {A, B}
Pair == <<A, B>>
IssueSymmetry == Permutations(TwoIssues)
=============================================================================
