--------------------------- MODULE MCFindingMatch ---------------------------
(* Findings around two lines of one path, one with a priority out of range,*)
(* one whose range is written backwards, one elsewhere, one without lines; *)
(* entries with and without lines.                                         *)
EXTENDS FindingMatch

CONSTANTS P, Q

Raw(path, start, end, priority, tag, words) ==
  [path |-> path, start |-> start, end |-> end, priority |-> priority,
   tag |-> tag, words |-> words]

SomeRaws ==
  {Raw(P, 4, 0, 1, NoSeverity, {"null"}),
   Raw(P, 6, 7, 7, 2, {"lock", "null"}),
   Raw(P, 9, 8, NoSeverity, NoSeverity, {}),
   Raw(Q, 6, 6, 3, 1, {"lock"}),
   Raw(P, 0, 5, 0, NoSeverity, {"lock"})}

Entry(id, path, start, end, words) ==
  [id |-> id, path |-> path, start |-> start, end |-> end, words |-> words]

SomeEntries ==
  {Entry(1, P, 5, 5, {"null"}), Entry(2, P, 6, 9, {"lock"}),
   Entry(3, NoPath, 0, 0, {"lock", "null"}), Entry(4, P, 9, 9, {"null"}),
   Entry(5, NoPath, 0, 0, {"lock"})}
=============================================================================
