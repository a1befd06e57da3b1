---------------------------- MODULE MCDiffAnchors ----------------------------
(* Lines with and without text, one followed by a line that belongs to no  *)
(* file; a file that was renamed, and another.                             *)
EXTENDS DiffAnchors

CONSTANTS New, Old, Other

Line(tag, blank, tail) == [tag |-> tag, blank |-> blank, tail |-> tail]

SomeItems ==
  {Line(tag, FALSE, "none") : tag \in {" ", "+", "-"}}
  \cup {Line(" ", TRUE, "none"), Line("+", TRUE, "text")}

OldName == [n \in {Old} |-> New]
=============================================================================
