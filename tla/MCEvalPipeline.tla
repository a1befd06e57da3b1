--------------------------- MODULE MCEvalPipeline ---------------------------
(* Two pull requests, two heads, two bugs.  A review finds both bugs, or   *)
(* one of them with another severity.  At the start nothing was captured,  *)
(* or both sides were, and found both bugs.                                *)
EXTENDS EvalPipeline, TLC

CONSTANTS P1, P2, S1, S2

Both == {<<1, "P1">>, <<2, "P2">>}
Half == {<<1, NoSeverity>>}

SomeFindings == Both \cup Half
SomeBodies == {Both, Half}

Start(c, o) == [s \in Sides |-> [p \in PRs |-> IF s = "codex" THEN c ELSE o]]
SomeStarts == {Start(Pending, Pending), Start(Both, Both)}

Symmetry == Permutations({P1, P2}) \cup Permutations({S1, S2})
=============================================================================
