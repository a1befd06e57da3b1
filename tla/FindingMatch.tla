----------------------------- MODULE FindingMatch -----------------------------
(***************************************************************************)
(* How the evaluation pairs findings.                                      *)
(*                                                                         *)
(* For one pull request the findings of the Codex baseline are paired with *)
(* those of the OpenRouter candidate: every pair on one path whose ranges  *)
(* are close enough, the closest first, each finding at most once.  Then   *)
(* each Codex finding is given the strongest entry of the labelled dataset,*)
(* whatever the order the entries are listed in.                           *)
(*                                                                         *)
(* Code: eval/overlap_score.py (match_findings), eval/compare_findings.py  *)
(* (_normalize_finding), eval/score_codex_baseline.py (match_finding).     *)
(***************************************************************************)
EXTENDS Integers, Sequences, FiniteSets

CONSTANTS
  Raws,         \* findings as a model may report them
  NoPath, NoSeverity,
  Tolerance,    \* lines between two findings of a pair
  MaxFindings,  \* bound: findings of one side
  Entries       \* the labelled entries of the pull request

Severities == 0..3

(* A line that is absent or not positive is 0; words stands for the text;  *)
(* tag is the severity that the title names, if it names one.              *)
(* The entries' ids are unique (validate_dataset).                         *)
ASSUME MatchAssumption ==
  /\ \A r \in Raws : /\ r.start \in Nat /\ r.end \in Nat
                     /\ r.tag \in Severities \cup {NoSeverity}
  /\ \A e \in Entries : e.id \in Nat /\ e.start \in Nat /\ e.end \in Nat
  /\ \A e \in Entries : IsFiniteSet(e.words)
  /\ \A d, e \in Entries : d.id = e.id => d = e
  /\ Tolerance \in Nat /\ MaxFindings \in Nat

VARIABLES
  codex, openrouter,  \* the two lists
  rest,               \* pairs not yet walked over
  matches,            \* pairs claimed
  asked,              \* the Codex finding being scored
  left,               \* entries it was not yet compared with
  best                \* [indices of scored findings -> the entry, or none]

vars == <<codex, openrouter, rest, matches, asked, left, best>>

-----------------------------------------------------------------------------
(* Normalisation.                                                          *)

\* For the mutation of Severity: any number counts.
SeverityRaw(raw) == IF raw.priority # NoSeverity THEN raw.priority ELSE raw.tag

Severity(raw) == IF raw.priority \in Severities THEN raw.priority ELSE raw.tag

(* A finding without an end ends where it starts; its id is its place. *)
Normalize(raw) ==
  [path |-> raw.path, start |-> raw.start,
   end |-> IF raw.end = 0 THEN raw.start ELSE raw.end,
   severity |-> Severity(raw), words |-> raw.words]

Findings(raws) == [i \in DOMAIN raws |-> Normalize(raws[i])]

HasLines(f) == f.start # 0 /\ f.end # 0

Lo(f) == IF f.end < f.start THEN f.end ELSE f.start
Hi(f) == IF f.end < f.start THEN f.start ELSE f.end

(* The gap between two ranges, whichever way round they are written. *)
LineDistance(a, b) ==
  IF Hi(a) < Lo(b) THEN Lo(b) - Hi(a)
  ELSE IF Hi(b) < Lo(a) THEN Lo(a) - Hi(b)
  ELSE 0

-----------------------------------------------------------------------------
(* The pairs, as <<index in codex, index in openrouter>>.  No caller gives *)
(* a finding a category, so every category matches.                        *)

Distance(p) == LineDistance(codex[p[1]], openrouter[p[2]])

Candidates(cs, os) ==
  {p \in (DOMAIN cs) \X (DOMAIN os) :
     LET c == cs[p[1]]  o == os[p[2]]
     IN  /\ c.path # NoPath /\ c.path = o.path
         /\ HasLines(c) /\ HasLines(o)
         /\ LineDistance(c, o) <= Tolerance}

(* Closest first, then in the order of the ids. *)
Before(p, q) ==
  \/ Distance(p) < Distance(q)
  \/ Distance(p) = Distance(q) /\ p[1] < q[1]
  \/ Distance(p) = Distance(q) /\ p[1] = q[1] /\ p[2] < q[2]

Shares(p, q) == p[1] = q[1] \/ p[2] = q[2]

\* For the mutation of Claim: only the Codex side is remembered as used.
ClaimCodexOnly(p, claimed) ==
  IF \E q \in claimed : q[1] = p[1] THEN claimed ELSE claimed \cup {p}

\* For the mutation of Claim: a pair is passed over when anything is claimed
\* on an earlier line of the list.
ClaimFirst(p, claimed) ==
  IF \E q \in claimed : Shares(p, q) \/ q[1] > p[1] THEN claimed ELSE claimed \cup {p}

Claim(p, claimed) ==
  IF \E q \in claimed : Shares(p, q) THEN claimed ELSE claimed \cup {p}

-----------------------------------------------------------------------------
(* Scoring a finding against the labelled entries.                         *)

NoEntry == [id |-> -1]
NoDistance == -1

PathMatches(f, e) == e.path = NoPath \/ f.path = e.path

KeywordHits(f, e) == Cardinality(f.words \cap e.words)

Verified(e) == e.start # 0

MatchDistance(f, e) == IF Verified(e) THEN LineDistance(f, e) ELSE NoDistance

(* An entry with lines needs lines that are close, one without needs a word*)
(* in common.                                                              *)
Applies(f, e) ==
  /\ PathMatches(f, e)
  /\ IF Verified(e) THEN HasLines(f) /\ MatchDistance(f, e) <= Tolerance
     ELSE KeywordHits(f, e) > 0

QualityRank(f, e) ==
  IF e = NoEntry THEN 3
  ELSE IF ~ Verified(e) THEN 2
  ELSE IF MatchDistance(f, e) = 0 THEN 0 ELSE 1

\* For the mutation of IsStronger: words decide before lines do.
StrongerByWords(f, e, d) ==
  IF d = NoEntry THEN TRUE
  ELSE IF KeywordHits(f, e) # KeywordHits(f, d)
       THEN KeywordHits(f, e) > KeywordHits(f, d)
  ELSE e.id < d.id

(* e against the best so far. *)
IsStronger(f, e, d) ==
  IF QualityRank(f, e) # QualityRank(f, d) THEN QualityRank(f, e) < QualityRank(f, d)
  ELSE LET de == MatchDistance(f, e)  dd == MatchDistance(f, d)
       IN  IF de # NoDistance /\ dd # NoDistance /\ de # dd THEN de < dd
           ELSE IF KeywordHits(f, e) # KeywordHits(f, d)
                THEN KeywordHits(f, e) > KeywordHits(f, d)
           ELSE e.id < d.id

-----------------------------------------------------------------------------
Lists == UNION {[1..n -> Raws] : n \in 0..MaxFindings}

Init ==
  /\ \E cs, os \in Lists : codex = Findings(cs) /\ openrouter = Findings(os)
  /\ rest = Candidates(codex, openrouter)
  /\ matches = {}
  /\ asked = 0
  /\ left = {}
  /\ best = <<>>

(* One candidate of the sorted walk. *)
Walk ==
  /\ \E p \in rest :
       /\ \A q \in rest : p = q \/ Before(p, q)
       /\ rest' = rest \ {p}
       /\ matches' = Claim(p, matches)
  /\ UNCHANGED <<codex, openrouter, asked, left, best>>

(* The next Codex finding is scored, from no entry. *)
Ask ==
  /\ rest = {} /\ left = {}
  /\ asked < Len(codex)
  /\ asked' = asked + 1
  /\ left' = Entries
  /\ best' = Append(best, NoEntry)
  /\ UNCHANGED <<codex, openrouter, rest, matches>>

(* One entry, in whatever order the dataset lists them. *)
Compare ==
  /\ \E e \in left :
       /\ left' = left \ {e}
       /\ best' = IF Applies(codex[asked], e) /\ IsStronger(codex[asked], e, best[asked])
                  THEN [best EXCEPT ![asked] = e] ELSE best
  /\ UNCHANGED <<codex, openrouter, rest, matches, asked>>

Next == Walk \/ Ask \/ Compare

Spec == Init /\ [][Next]_vars

-----------------------------------------------------------------------------
(* Properties.                                                             *)

TypeOK ==
  /\ matches \subseteq Candidates(codex, openrouter)
  /\ rest \subseteq Candidates(codex, openrouter)
  /\ asked \in 0..Len(codex)
  /\ Len(best) = asked
  /\ left \subseteq Entries
  /\ \A side \in {codex, openrouter} : \A i \in DOMAIN side :
       /\ side[i].severity \in Severities \cup {NoSeverity}
       /\ side[i].start # 0 => HasLines(side[i])

(* "No finding is in two output buckets" (overlap_spec.md:338): no finding *)
(* is paired twice, so pairs and leftovers of a side add up to the side and*)
(* precision and recall are shares.                                        *)
OneToOne == \A p, q \in matches : Shares(p, q) => p = q

(* The pairing is stable: a candidate that was passed over shares a finding*)
(* with a pair that comes before it, so no two findings left apart are     *)
(* closer to each other than to their partners.                            *)
Stable ==
  \A p \in Candidates(codex, openrouter) \ (rest \cup matches) :
    \E q \in matches : Shares(p, q) /\ Before(q, p)

(* Which entry a finding gets is a matter of the entries, not of the order *)
(* they are listed in: ranges before words, then the closest, then most    *)
(* words, then the first id.                                               *)
Key(f, e) ==
  IF Verified(e) THEN <<0, LineDistance(f, e), -KeywordHits(f, e), e.id>>
  ELSE <<1, 0, -KeywordHits(f, e), e.id>>

Less(k, l) ==
  \E n \in 1..4 : k[n] < l[n] /\ \A m \in 1..(n - 1) : k[m] = l[m]

StrongestEntry ==
  \A i \in 1..Len(best) :
    LET f == codex[i]
        seen == {e \in Entries \ (IF i = asked THEN left ELSE {}) : Applies(f, e)}
    IN  IF seen = {} THEN best[i] = NoEntry
        ELSE best[i] \in seen
             /\ \A e \in seen \ {best[i]} : Less(Key(f, best[i]), Key(f, e))
=============================================================================
