----------------------------- MODULE DiffAnchors -----------------------------
(***************************************************************************)
(* Where a finding goes: onto lines of the diff, into a general comment, or*)
(* nowhere.                                                                *)
(*                                                                         *)
(* GitHub gives a changed file as a patch: hunks of changed lines and the  *)
(* unchanged ones around them, each with a header that names its first     *)
(* line.  parse_patch reads it line by line and counts the lines of the    *)
(* head.  A finding's range is then moved to the nearest lines that the    *)
(* patch has, and becomes an inline comment there; with a suggestion it may*)
(* span several lines.                                                     *)
(*                                                                         *)
(* A file is the script that turns its base into its head, a line an item  *)
(* of it; the patch is what the script shows.  What a comment may be       *)
(* attached to is defined on the script, and the program sees the patch.   *)
(*                                                                         *)
(* Code: cli/review/patch_parser.py, anchor_engine.py, comment_validator.py*)
(* and posting.py (_build_payload_from_validated).                         *)
(***************************************************************************)
EXTENDS Integers, Sequences, FiniteSets

CONSTANTS
  Items,      \* lines a script may have, a subset of Item
  MaxItems,   \* bound: lines of a script
  Context,    \* unchanged lines around a change (GitHub: 3)
  Span,       \* lines a suggestion may span (5)
  Names,      \* file names a finding may give
  Path,       \* the name of the changed file at the head
  Renames,    \* [old names -> names at the head]
  MaxLine     \* bound: line numbers a finding may give

(* tail: what the patch has after the line, by its first character: git's  *)
(* "\ No newline at end of file", or the rest of a line with a character   *)
(* inside that splitlines takes for the end of a line (left out: one that  *)
(* begins with "@@" and would be read as a header).                        *)
Tails == {"none", "\\", "text", " ", "+", "-"}

Item == [tag : {" ", "+", "-"}, blank : BOOLEAN, tail : Tails]

ASSUME AnchorAssumption ==
  /\ Items \subseteq Item
  /\ MaxItems \in Nat /\ Context \in Nat /\ Span \in Nat /\ MaxLine \in Nat
  /\ Path \in Names
  /\ DOMAIN Renames \subseteq Names

VARIABLES
  script,   \* the file's script
  unread,   \* lines of the patch still to be read
  inHunk,   \* in_hunk
  headLine, \* i_new
  bounds,   \* hunk_min and hunk_max, or NoBounds
  parsed,   \* ParsedPatch
  finding,  \* the finding that is placed
  outcome   \* where it goes

vars == <<script, unread, inHunk, headLine, bounds, parsed, finding, outcome>>

-----------------------------------------------------------------------------
(* The script and its patch.                                               *)

Changed(k) == script[k].tag # " "

(* A line is in the patch when a change is near.                           *)
Shown(k) == \E j \in DOMAIN script : Changed(j) /\ k - Context <= j /\ j <= k + Context

OnHead(k) == script[k].tag # "-"

(* Lines of the head up to the k-th line of the script: its number there.  *)
Number(k) == Cardinality({j \in 1..k : OnHead(j)})

(* Both are in one hunk: the patch has all that lies between.              *)
OneHunk(k, l) == \A m \in (k..l) \cup (l..k) : Shown(m)

Opens(k) == Shown(k) /\ (k = 1 \/ ~ Shown(k - 1))

(* A line of the patch: <<k, 0>> is the header of the hunk that opens with *)
(* k, <<k, 1>> the line itself, <<k, 2>> its tail.                         *)
Patch ==
  {<<k, 0>> : k \in {k \in DOMAIN script : Opens(k)}}
  \cup {<<k, 1>> : k \in {k \in DOMAIN script : Shown(k)}}
  \cup {<<k, 2>> : k \in {k \in DOMAIN script : Shown(k) /\ script[k].tail # "none"}}

Precedes(l, m) == l[1] < m[1] \/ (l[1] = m[1] /\ l[2] < m[2])

(* The line that the header of the hunk that opens with k names: its first *)
(* one at the head, or the one before when it has none.                    *)
HeadStart(k) ==
  IF \E l \in k..Len(script) : OneHunk(k, l) /\ OnHead(l) THEN Number(k - 1) + 1
  ELSE Number(k - 1)

-----------------------------------------------------------------------------
Blank == [valid |-> {}, added |-> {}, nonblank |-> {}, hunks |-> {}]
NoBounds == <<0, 0>>

(* start and end as the schema leaves them: positive, in any order.        *)
Finding == [file : Names, start : 1..MaxLine, end : 1..MaxLine,
            suggestion : BOOLEAN, words : BOOLEAN]
NoFinding == [file |-> Path]

Nowhere(place) == [place |-> place, from |-> 0, to |-> 0, fence |-> FALSE]

TypeOK ==
  /\ script \in Seq(Items)
  /\ unread \subseteq Patch
  /\ inHunk \in BOOLEAN
  /\ headLine \in Nat
  /\ bounds \in Nat \X Nat
  /\ parsed \in [valid : SUBSET Nat, added : SUBSET Nat, nonblank : SUBSET Nat,
                 hunks : SUBSET (Nat \X Nat)]
  /\ finding \in Finding \cup {NoFinding}
  /\ outcome \in [place : {"reading", "ready", "inline", "general", "dropped"},
                  from : Nat, to : Nat, fence : BOOLEAN]

(* A change shows its removed lines before the added ones.                 *)
Scripts ==
  {s \in UNION {[1..n -> Items] : n \in 1..MaxItems} :
     /\ \E k \in DOMAIN s : s[k].tag # " "
     /\ \A k \in 2..Len(s) : ~ (s[k - 1].tag = "+" /\ s[k].tag = "-")}

Init ==
  /\ script \in Scripts
  /\ unread = Patch
  /\ inHunk = FALSE /\ headLine = 0 /\ bounds = NoBounds
  /\ parsed = Blank
  /\ finding = NoFinding
  /\ outcome = Nowhere("reading")

-----------------------------------------------------------------------------
(* parse_patch.                                                            *)

Reads(l) ==
  /\ l \in unread
  /\ \A m \in unread : l = m \/ Precedes(l, m)
  /\ unread' = unread \ {l}
  /\ UNCHANGED <<script, finding, outcome>>

(* A hunk without lines at the head is none.                               *)
Closed ==
  IF inHunk /\ bounds # NoBounds THEN [parsed EXCEPT !.hunks = @ \cup {bounds}]
  ELSE parsed

\* For the mutation of ReadHeader: the last hunk's bounds are kept.
ReadHeaderOnly(k) ==
  /\ Reads(<<k, 0>>)
  /\ parsed' = Closed
  /\ inHunk' = TRUE
  /\ bounds' = bounds
  /\ headLine' = IF HeadStart(k) > 0 THEN HeadStart(k) - 1 ELSE 0

\* For the mutation of ReadHeader: a hunk that starts at line 0 is no exception.
ReadHeaderBefore(k) ==
  /\ Reads(<<k, 0>>)
  /\ parsed' = Closed
  /\ inHunk' = TRUE
  /\ bounds' = NoBounds
  /\ headLine' = HeadStart(k) - 1

ReadHeader(k) ==
  /\ Reads(<<k, 0>>)
  /\ parsed' = Closed
  /\ inHunk' = TRUE
  /\ bounds' = NoBounds
  /\ headLine' = IF HeadStart(k) > 0 THEN HeadStart(k) - 1 ELSE 0

Expanded(line) ==
  <<IF bounds = NoBounds \/ line < bounds[1] THEN line ELSE bounds[1],
    IF bounds = NoBounds \/ line > bounds[2] THEN line ELSE bounds[2]>>

(* A line that begins with tag: only those of the head are counted.        *)
Count(tag, blank) ==
  IF inHunk /\ tag \in {" ", "+"}
  THEN LET line == headLine + 1
       IN  /\ headLine' = line
           /\ parsed' = [parsed EXCEPT
                !.valid = @ \cup {line},
                !.added = IF tag = "+" THEN @ \cup {line} ELSE @,
                !.nonblank = IF blank THEN @ \ {line} ELSE @ \cup {line}]
           /\ bounds' = Expanded(line)
           /\ UNCHANGED inHunk
  ELSE UNCHANGED <<inHunk, headLine, bounds, parsed>>

ReadLine(k) == Reads(<<k, 1>>) /\ Count(script[k].tag, script[k].blank)

ReadTail(k) == Reads(<<k, 2>>) /\ Count(script[k].tail, FALSE)

EndPatch ==
  /\ outcome.place = "reading" /\ unread = {}
  /\ parsed' = Closed
  /\ outcome' = Nowhere("ready")
  /\ UNCHANGED <<script, unread, inHunk, headLine, bounds, finding>>

-----------------------------------------------------------------------------
(* resolve_range.                                                          *)

Gap(x, y) == IF x < y THEN y - x ELSE x - y

(* The smaller of two that are equally near.                               *)
NearestOf(target, lines) ==
  CHOOSE x \in lines : \A y \in lines :
    Gap(x, target) < Gap(y, target) \/ (Gap(x, target) = Gap(y, target) /\ x <= y)

AddedNonblank == parsed.added \cap parsed.nonblank

(* Added lines are preferred, however far away.                            *)
Nearest(target) ==
  NearestOf(target, IF AddedNonblank # {} THEN AddedNonblank ELSE parsed.nonblank)

Lower(x, y) == IF x <= y THEN x ELSE y
Upper(x, y) == IF x <= y THEN y ELSE x

\* For the mutation of Contiguous: all lines are in the patch, in some hunk.
ContiguousAnywhere(from, to) == to - from + 1 <= Span

(* _is_contiguous_valid_range *)
Contiguous(from, to) ==
  /\ \E h \in parsed.hunks : h[1] <= from /\ to <= h[2]
  /\ from..to \subseteq parsed.valid
  /\ to - from + 1 <= Span

Anchor(f) ==
  LET s == Nearest(Lower(f.start, f.end))
      e == Nearest(Upper(f.start, f.end))
      from == Lower(s, e)
      to == Upper(s, e)
  IN  IF f.suggestion /\ from # to /\ Contiguous(from, to)
      THEN [place |-> "inline", from |-> from, to |-> to, fence |-> TRUE]
      ELSE [place |-> "inline", from |-> from, to |-> from, fence |-> FALSE]

-----------------------------------------------------------------------------
(* validate_finding_against_diff.                                          *)

AtHead(name) == IF name \in DOMAIN Renames THEN Renames[name] ELSE name

(* Without a line to go to the finding becomes a general comment, unless it*)
(* says nothing.                                                           *)
Validated(f) ==
  IF AtHead(f.file) = Path /\ parsed.nonblank # {} THEN Anchor(f)
  ELSE Nowhere(IF f.words THEN "general" ELSE "dropped")

Validate ==
  /\ outcome.place = "ready"
  /\ finding' \in Finding
  /\ outcome' = Validated(finding')
  /\ UNCHANGED <<script, unread, inHunk, headLine, bounds, parsed>>

Next ==
  \/ \E k \in DOMAIN script : ReadHeader(k) \/ ReadLine(k) \/ ReadTail(k)
  \/ EndPatch \/ Validate

Spec == Init /\ [][Next]_vars

-----------------------------------------------------------------------------
(* Properties.                                                             *)

(* The lines of the head that the patch shows, as items of the script.     *)
HeadItems == {k \in DOMAIN script : Shown(k) /\ OnHead(k)}

NumbersOf(S) == {Number(k) : k \in S}

(* What the parser has made of the patch is what the script has: the same  *)
(* line numbers, the same added lines and the same lines with text, and two*)
(* lines are in one hunk if and only if nothing is left out between them.  *)
ParsedAsWritten ==
  outcome.place # "reading" =>
    /\ parsed.valid = NumbersOf(HeadItems)
    /\ parsed.added = NumbersOf({k \in HeadItems : Changed(k)})
    /\ parsed.nonblank = NumbersOf({k \in HeadItems : ~ script[k].blank})
    /\ \A k, l \in HeadItems :
         OneHunk(k, l) <=> \E h \in parsed.hunks :
                             /\ h[1] <= Number(k) /\ Number(k) <= h[2]
                             /\ h[1] <= Number(l) /\ Number(l) <= h[2]

(* GitHub accepts the comment: its lines are lines of the head in one hunk.*)
(* It starts and ends at a line with text, and only a comment on several   *)
(* lines, no more than Span, has a suggestion to apply.                    *)
Accepted ==
  \E k, l \in HeadItems :
    /\ Number(k) = outcome.from /\ Number(l) = outcome.to
    /\ k <= l /\ OneHunk(k, l)
    /\ ~ script[k].blank /\ ~ script[l].blank
    /\ outcome.fence <=> k < l
    /\ outcome.fence => outcome.to - outcome.from < Span

(* A finding on added lines stays where it is.                             *)
Kept ==
  LET lo == Lower(finding.start, finding.end)
      hi == Upper(finding.start, finding.end)
      text == {k \in HeadItems : Changed(k) /\ ~ script[k].blank}
  IN  {lo, hi} \subseteq NumbersOf(text) =>
        /\ outcome.from = lo
        /\ outcome.to = hi <=>
             \/ lo = hi
             \/ /\ finding.suggestion /\ hi - lo < Span
                /\ \E k, l \in text : Number(k) = lo /\ Number(l) = hi /\ OneHunk(k, l)

(* No comment is refused for its place, none is moved from the added lines *)
(* it is about, and none is put elsewhere while the diff has a place.      *)
WellPlaced ==
  outcome.place \in {"inline", "general", "dropped"} =>
    /\ outcome.place = "inline" => Accepted /\ Kept
    /\ outcome.place # "inline" =>
         \/ AtHead(finding.file) # Path
         \/ \A k \in HeadItems : script[k].blank
=============================================================================
