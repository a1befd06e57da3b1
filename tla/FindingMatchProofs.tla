-------------------------- MODULE FindingMatchProofs --------------------------
(***************************************************************************)
(* The pairing and the scoring of findings, for every list of findings and *)
(* every dataset.                                                          *)
(*                                                                         *)
(* OneToOne is inductive as it stands: a pair is claimed when it shares no *)
(* finding with those claimed before.  Stability rests on the order of the *)
(* walk: what has been walked over comes before what has not, so whatever  *)
(* kept a pair from being claimed comes before it.  The strongest entry    *)
(* rests on IsStronger being the strict total order of the keys.  What is  *)
(* one to one and stable is unique, and at least half of what could be.    *)
(***************************************************************************)
EXTENDS FindingMatch, TLAPS, SequenceTheorems, FiniteSetTheorems, FunctionTheorems,
        WellFoundedInduction

-----------------------------------------------------------------------------
(* A pair claimed is claimed once.                                         *)
LEMMA PairedOnce == Spec => []OneToOne
<1>1. Init => OneToOne
  BY DEF Init, OneToOne
<1>2. OneToOne /\ [Next]_vars => OneToOne'
  <2> SUFFICES ASSUME OneToOne, [Next]_vars PROVE OneToOne'
    OBVIOUS
  <2>1. CASE Walk
    <3>1. PICK p \in rest : matches' = Claim(p, matches)
      BY <2>1 DEF Walk
    <3>2. CASE \E q \in matches : Shares(p, q)
      BY <3>1, <3>2 DEF Claim, OneToOne
    <3>3. CASE ~ \E q \in matches : Shares(p, q)
      BY <3>1, <3>3 DEF Claim, OneToOne, Shares
    <3> QED BY <3>2, <3>3
  <2>2. CASE UNCHANGED matches
    BY <2>2 DEF OneToOne, Shares
  <2> QED BY <2>1, <2>2 DEF Next, Ask, Compare, vars
<1> QED BY <1>1, <1>2, PTL DEF Spec

-----------------------------------------------------------------------------
(* What has been walked over is a candidate, and comes before what has not.*)
WalkedFirst ==
  /\ rest \subseteq Candidates(codex, openrouter)
  /\ matches \subseteq Candidates(codex, openrouter) \ rest
  /\ \A q \in Candidates(codex, openrouter) \ rest : \A p \in rest : Before(q, p)

(* One step of the walk keeps the order, and finds a pair that comes       *)
(* before the one it passes over.                                          *)
LEMMA WalkStep ==
  ASSUME WalkedFirst, Stable, Walk
  PROVE  WalkedFirst' /\ Stable'
<1>1. PICK p \in rest : /\ \A q \in rest : p = q \/ Before(p, q)
                        /\ rest' = rest \ {p}
                        /\ matches' = Claim(p, matches)
  BY DEF Walk
<1>2. codex' = codex /\ openrouter' = openrouter
  BY DEF Walk
<1>3. Candidates(codex, openrouter)' = Candidates(codex, openrouter)
  BY <1>2 DEF Candidates
<1>4. \A q, r : Before(q, r)' = Before(q, r)
  BY <1>2 DEF Before, Distance
<1> HIDE DEF Candidates, Before
<1>5. matches \subseteq matches' /\ matches' \subseteq matches \cup {p}
  BY <1>1 DEF Claim
<1>6. WalkedFirst'
  <2>1. rest' \subseteq Candidates(codex, openrouter)
    BY <1>1 DEF WalkedFirst
  <2>2. matches' \subseteq Candidates(codex, openrouter) \ rest'
    BY <1>1, <1>5 DEF WalkedFirst
  <2>3. \A q \in Candidates(codex, openrouter) \ rest' : \A r \in rest' : Before(q, r)
    BY <1>1 DEF WalkedFirst
  <2> QED BY <1>3, <1>4, <2>1, <2>2, <2>3 DEF WalkedFirst
<1>7. Stable'
  <2> SUFFICES ASSUME NEW r \in Candidates(codex, openrouter) \ (rest' \cup matches')
               PROVE  \E q \in matches' : Shares(r, q) /\ Before(q, r)
    BY <1>3, <1>4 DEF Stable, Shares
  <2>1. CASE r = p
    <3>1. PICK q \in matches : Shares(p, q)
      BY <1>1, <2>1 DEF Claim
    <3>2. Before(q, p)
      BY <1>1, <3>1 DEF WalkedFirst
    <3> QED BY <1>5, <2>1, <3>1, <3>2
  <2>2. CASE r # p
    BY <1>1, <1>5, <2>2 DEF Stable
  <2> QED BY <2>1, <2>2
<1> QED BY <1>6, <1>7

LEMMA WalkedInvariance == Spec => [](WalkedFirst /\ Stable)
<1>1. Init => WalkedFirst /\ Stable
  BY DEF Init, WalkedFirst, Stable
<1>2. WalkedFirst /\ Stable /\ [Next]_vars => (WalkedFirst /\ Stable)'
  <2> SUFFICES ASSUME WalkedFirst, Stable, [Next]_vars PROVE (WalkedFirst /\ Stable)'
    OBVIOUS
  <2>1. CASE Walk
    BY <2>1, WalkStep
  <2>2. CASE UNCHANGED <<codex, openrouter, rest, matches>>
    BY <2>2 DEF WalkedFirst, Stable, Shares, Before, Distance, Candidates
  <2> QED BY <2>1, <2>2 DEF Next, Ask, Compare, vars
<1> QED BY <1>1, <1>2, PTL DEF Spec

(* What a pair agrees in: both findings are of the two lists, on one path, *)
(* have lines, and these are within the tolerance.                         *)
Agrees(p) ==
  /\ p[1] \in DOMAIN codex /\ p[2] \in DOMAIN openrouter
  /\ codex[p[1]].path = openrouter[p[2]].path /\ codex[p[1]].path # NoPath
  /\ HasLines(codex[p[1]]) /\ HasLines(openrouter[p[2]])
  /\ Distance(p) <= Tolerance

(* Pairing is one to one, and every pair agrees in path and lines: no walk *)
(* over the candidates puts a finding in two pairs or pairs two that are   *)
(* apart (match_findings of eval/overlap_score.py).                        *)
THEOREM Pairing == Spec => [](OneToOne /\ \A p \in matches : Agrees(p))
<1>1. WalkedFirst => \A p \in matches : Agrees(p)
  BY DEF WalkedFirst, Candidates, Agrees, Distance
<1> QED
  BY <1>1, PairedOnce, WalkedInvariance, PTL

(* The pairing is stable: whatever is passed over shares a finding with a  *)
(* pair that comes before it (match_findings).                             *)
THEOREM Stability == Spec => []Stable
  BY WalkedInvariance, PTL

-----------------------------------------------------------------------------
(* Distances, hits and keys are numbers.                                   *)
Normalized == {Normalize(r) : r \in Raws}

LEMMA NormalizedLines ==
  ASSUME NEW f \in Normalized
  PROVE  /\ f.start \in Nat /\ f.end \in Nat
         /\ f.severity \in Severities \cup {NoSeverity}
         /\ f.start # 0 => HasLines(f)
<1>1. PICK r \in Raws : f = Normalize(r)
  BY DEF Normalized
<1>2. r.start \in Nat /\ r.end \in Nat /\ r.tag \in Severities \cup {NoSeverity}
  BY MatchAssumption
<1>3. f.start = r.start /\ f.end = IF r.end = 0 THEN r.start ELSE r.end
  BY <1>1 DEF Normalize
<1>4. f.severity = Severity(r)
  BY <1>1 DEF Normalize
<1>5. Severity(r) \in Severities \cup {NoSeverity}
  BY <1>2 DEF Severity
<1> QED BY <1>2, <1>3, <1>4, <1>5 DEF HasLines

LEMMA Numbers ==
  ASSUME NEW f \in Normalized, NEW e \in Entries
  PROVE  LineDistance(f, e) \in Nat /\ KeywordHits(f, e) \in Nat /\ e.id \in Nat
<1>1. f.start \in Nat /\ f.end \in Nat
  BY NormalizedLines
<1>2. e.start \in Nat /\ e.end \in Nat /\ e.id \in Nat /\ IsFiniteSet(e.words)
  BY MatchAssumption
<1>3. LineDistance(f, e) \in Nat
  BY <1>1, <1>2 DEF LineDistance, Lo, Hi
<1>4. IsFiniteSet(f.words \cap e.words)
  BY <1>2, FS_Subset
<1>5. KeywordHits(f, e) \in Nat
  BY <1>4, FS_CardinalityType DEF KeywordHits
<1> QED BY <1>2, <1>3, <1>5

(* The order of keys, without their names.                                 *)
Four == Int \X Int \X Int \X Int

Lexicographic(k, l) ==
  \/ k[1] < l[1]
  \/ k[1] = l[1] /\ k[2] < l[2]
  \/ k[1] = l[1] /\ k[2] = l[2] /\ k[3] < l[3]
  \/ k[1] = l[1] /\ k[2] = l[2] /\ k[3] = l[3] /\ k[4] < l[4]

LEMMA LessIsForFour ==
  ASSUME NEW k \in Four, NEW l \in Four
  PROVE  Less(k, l) <=> Lexicographic(k, l)
<1> DEFINE At(n) == k[n] < l[n] /\ \A m \in 1..(n - 1) : k[m] = l[m]
<1>1. Less(k, l) <=> \E n \in 1..4 : At(n)
  BY DEF Less
<1>2. 1..0 = {} /\ 1..1 = {1} /\ 1..2 = {1, 2} /\ 1..3 = {1, 2, 3} /\ 1..4 = {1, 2, 3, 4}
  OBVIOUS
<1>3. At(1) <=> k[1] < l[1]
  BY <1>2
<1>4. At(2) <=> k[1] = l[1] /\ k[2] < l[2]
  BY <1>2
<1>5. At(3) <=> k[1] = l[1] /\ k[2] = l[2] /\ k[3] < l[3]
  BY <1>2
<1>6. At(4) <=> k[1] = l[1] /\ k[2] = l[2] /\ k[3] = l[3] /\ k[4] < l[4]
  BY <1>2
<1> HIDE DEF At
<1> QED BY <1>1, <1>2, <1>3, <1>4, <1>5, <1>6 DEF Lexicographic

LEMMA LexicographicIsTransitive ==
  ASSUME NEW c \in Four, NEW d \in Four, NEW e \in Four,
         Less(c, d), Less(d, e)
  PROVE  Less(c, e)
<1>1. Lexicographic(c, d) /\ Lexicographic(d, e)
  BY LessIsForFour
<1>2. /\ c[1] \in Int /\ c[2] \in Int /\ c[3] \in Int /\ c[4] \in Int
      /\ d[1] \in Int /\ d[2] \in Int /\ d[3] \in Int /\ d[4] \in Int
      /\ e[1] \in Int /\ e[2] \in Int /\ e[3] \in Int /\ e[4] \in Int
  BY DEF Four
<1>3. Lexicographic(c, e)
  BY <1>1, <1>2 DEF Lexicographic
<1> QED BY <1>3, LessIsForFour

LEMMA LessIsLexicographic ==
  ASSUME NEW a1 \in Int, NEW a2 \in Int, NEW a3 \in Int, NEW a4 \in Int,
         NEW b1 \in Int, NEW b2 \in Int, NEW b3 \in Int, NEW b4 \in Int
  PROVE  Less(<<a1, a2, a3, a4>>, <<b1, b2, b3, b4>>) <=>
           \/ a1 < b1
           \/ a1 = b1 /\ a2 < b2
           \/ a1 = b1 /\ a2 = b2 /\ a3 < b3
           \/ a1 = b1 /\ a2 = b2 /\ a3 = b3 /\ a4 < b4
  BY LessIsForFour DEF Four, Lexicographic

(* IsStronger is the order of the keys, and the keys of two entries differ.*)
LEMMA StrongerIsLess ==
  ASSUME NEW f \in Normalized, NEW e \in Entries, NEW d \in Entries, e # d
  PROVE  IF IsStronger(f, e, d) THEN Less(Key(f, e), Key(f, d))
                                ELSE Less(Key(f, d), Key(f, e))
<1> DEFINE De == LineDistance(f, e)  Dd == LineDistance(f, d)
           He == KeywordHits(f, e)   Hd == KeywordHits(f, d)
<1>1. De \in Nat /\ Dd \in Nat /\ He \in Nat /\ Hd \in Nat
  BY Numbers
<1>2. e.id \in Nat /\ d.id \in Nat /\ e.id # d.id /\ e # NoEntry /\ d # NoEntry
  BY MatchAssumption DEF NoEntry
<1> HIDE DEF De, Dd, He, Hd
<1>3. Key(f, e) = IF Verified(e) THEN <<0, De, -He, e.id>> ELSE <<1, 0, -He, e.id>>
  BY DEF Key, De, He
<1>4. Key(f, d) = IF Verified(d) THEN <<0, Dd, -Hd, d.id>> ELSE <<1, 0, -Hd, d.id>>
  BY DEF Key, Dd, Hd
<1>5. MatchDistance(f, e) = IF Verified(e) THEN De ELSE NoDistance
  BY DEF MatchDistance, De
<1>6. MatchDistance(f, d) = IF Verified(d) THEN Dd ELSE NoDistance
  BY DEF MatchDistance, Dd
<1>7. QualityRank(f, e) = IF ~ Verified(e) THEN 2 ELSE IF De = 0 THEN 0 ELSE 1
  BY <1>2, <1>5 DEF QualityRank
<1>8. QualityRank(f, d) = IF ~ Verified(d) THEN 2 ELSE IF Dd = 0 THEN 0 ELSE 1
  BY <1>2, <1>6 DEF QualityRank
<1> DEFINE Re == QualityRank(f, e)  Rd == QualityRank(f, d)
           Me == MatchDistance(f, e)  Md == MatchDistance(f, d)
<1>9. IsStronger(f, e, d) <=>
        IF Re # Rd THEN Re < Rd
        ELSE IF Me # NoDistance /\ Md # NoDistance /\ Me # Md THEN Me < Md
        ELSE IF He # Hd THEN He > Hd ELSE e.id < d.id
  BY DEF IsStronger, He, Hd
<1> DEFINE Xe == e.id  Xd == d.id  Ne == -He  Nd == -Hd
<1>10. /\ 0 \in Int /\ 1 \in Int /\ Ne \in Int /\ Nd \in Int /\ De \in Int /\ Dd \in Int
       /\ Xe \in Int /\ Xd \in Int
  BY <1>1, <1>2
<1>11. CASE Verified(e) /\ Verified(d)
  <2>1. Key(f, e) = <<0, De, Ne, Xe>> /\ Key(f, d) = <<0, Dd, Nd, Xd>>
    BY <1>3, <1>4, <1>11
  <2>2. IsStronger(f, e, d) <=> De < Dd \/ (De = Dd /\ (He > Hd \/ (He = Hd /\ Xe < Xd)))
    <3>1. Me = De /\ Md = Dd /\ Me # NoDistance /\ Md # NoDistance
      BY <1>1, <1>5, <1>6, <1>11 DEF NoDistance
    <3>2. Re = (IF De = 0 THEN 0 ELSE 1) /\ Rd = (IF Dd = 0 THEN 0 ELSE 1)
      BY <1>7, <1>8, <1>11
    <3> HIDE DEF Re, Rd, Me, Md
    <3> QED BY <1>1, <1>2, <1>9, <3>1, <3>2
  <2> HIDE DEF Ne, Nd, Xe, Xd
  <2>3. Less(<<0, De, Ne, Xe>>, <<0, Dd, Nd, Xd>>) <=>
          De < Dd \/ (De = Dd /\ Ne < Nd) \/ (De = Dd /\ Ne = Nd /\ Xe < Xd)
    BY <1>10, LessIsLexicographic
  <2>4. Less(<<0, Dd, Nd, Xd>>, <<0, De, Ne, Xe>>) <=>
          Dd < De \/ (Dd = De /\ Nd < Ne) \/ (Dd = De /\ Nd = Ne /\ Xd < Xe)
    BY <1>10, LessIsLexicographic
  <2>5. IsStronger(f, e, d) => De < Dd \/ (De = Dd /\ Ne < Nd) \/ (De = Dd /\ Ne = Nd /\ Xe < Xd)
    BY <1>1, <1>10, <2>2 DEF Ne, Nd
  <2>6. ~ IsStronger(f, e, d) => Dd < De \/ (Dd = De /\ Nd < Ne) \/ (Dd = De /\ Nd = Ne /\ Xd < Xe)
    BY <1>1, <1>2, <1>10, <2>2 DEF Ne, Nd, Xe, Xd
  <2> QED BY <2>1, <2>3, <2>4, <2>5, <2>6, Zenon
<1>12. CASE ~ Verified(e) /\ ~ Verified(d)
  <2>1. Key(f, e) = <<1, 0, Ne, Xe>> /\ Key(f, d) = <<1, 0, Nd, Xd>>
    BY <1>3, <1>4, <1>12
  <2>2. IsStronger(f, e, d) <=> He > Hd \/ (He = Hd /\ Xe < Xd)
    <3>1. Me = NoDistance /\ Md = NoDistance
      BY <1>5, <1>6, <1>12
    <3>2. Re = 2 /\ Rd = 2
      BY <1>7, <1>8, <1>12
    <3> HIDE DEF Re, Rd, Me, Md
    <3> QED BY <1>1, <1>2, <1>9, <3>1, <3>2
  <2> HIDE DEF Ne, Nd, Xe, Xd
  <2>3. Less(<<1, 0, Ne, Xe>>, <<1, 0, Nd, Xd>>) <=> Ne < Nd \/ (Ne = Nd /\ Xe < Xd)
    BY <1>10, LessIsLexicographic
  <2>4. Less(<<1, 0, Nd, Xd>>, <<1, 0, Ne, Xe>>) <=> Nd < Ne \/ (Nd = Ne /\ Xd < Xe)
    BY <1>10, LessIsLexicographic
  <2>5. IsStronger(f, e, d) => Ne < Nd \/ (Ne = Nd /\ Xe < Xd)
    BY <1>1, <1>10, <2>2 DEF Ne, Nd
  <2>6. ~ IsStronger(f, e, d) => Nd < Ne \/ (Nd = Ne /\ Xd < Xe)
    BY <1>1, <1>2, <1>10, <2>2 DEF Ne, Nd, Xe, Xd
  <2> QED BY <2>1, <2>3, <2>4, <2>5, <2>6, Zenon
<1>13. CASE Verified(e) /\ ~ Verified(d)
  <2>1. Key(f, e) = <<0, De, Ne, Xe>> /\ Key(f, d) = <<1, 0, Nd, Xd>>
    BY <1>3, <1>4, <1>13
  <2>2. IsStronger(f, e, d)
    <3>1. Re \in {0, 1} /\ Rd = 2
      BY <1>7, <1>8, <1>13
    <3> HIDE DEF Re, Rd, Me, Md
    <3> QED BY <1>9, <3>1
  <2> HIDE DEF Ne, Nd, Xe, Xd
  <2>3. Less(<<0, De, Ne, Xe>>, <<1, 0, Nd, Xd>>)
    BY <1>10, LessIsLexicographic
  <2> QED BY <2>1, <2>2, <2>3, Zenon
<1>14. CASE ~ Verified(e) /\ Verified(d)
  <2>1. Key(f, e) = <<1, 0, Ne, Xe>> /\ Key(f, d) = <<0, Dd, Nd, Xd>>
    BY <1>3, <1>4, <1>14
  <2>2. ~ IsStronger(f, e, d)
    <3>1. Re = 2 /\ Rd \in {0, 1}
      BY <1>7, <1>8, <1>14
    <3> HIDE DEF Re, Rd, Me, Md
    <3> QED BY <1>9, <3>1
  <2> HIDE DEF Ne, Nd, Xe, Xd
  <2>3. Less(<<0, Dd, Nd, Xd>>, <<1, 0, Ne, Xe>>)
    BY <1>10, LessIsLexicographic
  <2> QED BY <2>1, <2>2, <2>3, Zenon
<1> QED BY <1>11, <1>12, <1>13, <1>14

LEMMA KeyIsNumbers ==
  ASSUME NEW f \in Normalized, NEW e \in Entries
  PROVE  \E k1, k2, k3, k4 \in Int : Key(f, e) = <<k1, k2, k3, k4>>
<1>1. /\ LineDistance(f, e) \in Int /\ -KeywordHits(f, e) \in Int /\ e.id \in Int
      /\ 0 \in Int /\ 1 \in Int
  BY Numbers
<1> QED BY <1>1, Zenon DEF Key

LEMMA LessIsTransitive ==
  ASSUME NEW f \in Normalized, NEW c \in Entries, NEW d \in Entries, NEW e \in Entries,
         Less(Key(f, c), Key(f, d)), Less(Key(f, d), Key(f, e))
  PROVE  Less(Key(f, c), Key(f, e))
<1>1. ASSUME NEW x \in Entries PROVE Key(f, x) \in Four
  <2>1. PICK k1, k2, k3, k4 \in Int : Key(f, x) = <<k1, k2, k3, k4>>
    BY KeyIsNumbers
  <2> QED BY <2>1 DEF Four
<1> QED BY <1>1, LexicographicIsTransitive, Zenon

-----------------------------------------------------------------------------
(* Lists of normalised findings, and a best entry for every finding asked. *)
Typed ==
  /\ codex \in Seq(Normalized) /\ openrouter \in Seq(Normalized)
  /\ asked \in 0..Len(codex)
  /\ best \in Seq(Entries \cup {NoEntry}) /\ Len(best) = asked
  /\ left \subseteq Entries
  /\ left # {} => asked > 0

LEMMA TypedInductive == (Init => Typed) /\ (Typed /\ [Next]_vars => Typed')
<1>1. ASSUME Init PROVE Typed
  <2>1. ASSUME NEW cs \in Lists PROVE Findings(cs) \in Seq(Normalized)
    <3>1. PICK n \in 0..MaxFindings : cs \in [1..n -> Raws]
      BY DEF Lists
    <3>2. DOMAIN cs = 1..n /\ n \in Nat
      BY <3>1, MatchAssumption
    <3>3. Findings(cs) \in [1..n -> Normalized]
      BY <3>1, <3>2 DEF Findings, Normalized
    <3> QED BY <3>2, <3>3, SeqDef
  <2>2. PICK cs, os \in Lists : codex = Findings(cs) /\ openrouter = Findings(os)
    BY <1>1 DEF Init
  <2>3. codex \in Seq(Normalized) /\ openrouter \in Seq(Normalized)
    BY <2>1, <2>2
  <2>4. asked = 0 /\ left = {} /\ best = <<>>
    BY <1>1 DEF Init
  <2> QED BY <2>3, <2>4 DEF Typed
<1>2. ASSUME Typed, [Next]_vars PROVE Typed'
  <2>1. CASE Walk
    BY <1>2, <2>1 DEF Walk, Typed
  <2>2. CASE Ask
    <3>1. /\ asked' = asked + 1 /\ asked < Len(codex) /\ left' = Entries
          /\ best' = Append(best, NoEntry) /\ codex' = codex /\ openrouter' = openrouter
      BY <2>2 DEF Ask
    <3>2. best' \in Seq(Entries \cup {NoEntry}) /\ Len(best') = Len(best) + 1
      BY <1>2, <3>1, AppendProperties DEF Typed
    <3> QED BY <1>2, <3>1, <3>2 DEF Typed
  <2>3. CASE Compare
    <3>1. PICK e \in left :
            /\ left' = left \ {e}
            /\ best' = IF Applies(codex[asked], e) /\ IsStronger(codex[asked], e, best[asked])
                       THEN [best EXCEPT ![asked] = e] ELSE best
      BY <2>3 DEF Compare
    <3>2. codex' = codex /\ openrouter' = openrouter /\ asked' = asked
      BY <2>3 DEF Compare
    <3>3. e \in Entries /\ asked \in 1..Len(best)
      BY <1>2, <3>1 DEF Typed
    <3>4. best' \in Seq(Entries \cup {NoEntry}) /\ Len(best') = Len(best)
      <4>1. best \in Seq(Entries \cup {NoEntry}) /\ e \in Entries \cup {NoEntry}
        BY <1>2, <3>3 DEF Typed
      <4>2. [best EXCEPT ![asked] = e] \in Seq(Entries \cup {NoEntry})
        BY <3>3, <4>1, ExceptSeq
      <4>3. Len([best EXCEPT ![asked] = e]) = Len(best)
        BY <3>3, <4>1, ExceptSeq
      <4> QED BY <3>1, <4>1, <4>2, <4>3
    <3> QED BY <1>2, <3>1, <3>2, <3>4 DEF Typed
  <2>4. CASE UNCHANGED vars
    BY <1>2, <2>4 DEF vars, Typed
  <2> QED BY <1>2, <2>1, <2>2, <2>3, <2>4 DEF Next
<1> QED BY <1>1, <1>2

(* The entries finding i was compared with so far, and the strongest.      *)
Seen(i) == {e \in Entries \ (IF i = asked THEN left ELSE {}) : Applies(codex[i], e)}

Strongest(i) ==
  IF Seen(i) = {} THEN best[i] = NoEntry
  ELSE /\ best[i] \in Seen(i)
       /\ \A e \in Seen(i) \ {best[i]} : Less(Key(codex[i], best[i]), Key(codex[i], e))

LEMMA StrongestIsForAll == StrongestEntry <=> \A i \in 1..Len(best) : Strongest(i)
BY DEF StrongestEntry, Strongest, Seen

(* One more entry is compared with the best so far.                        *)
LEMMA CompareStep ==
  ASSUME Typed, StrongestEntry, Compare
  PROVE  StrongestEntry'
<1>1. PICK e \in left :
        /\ left' = left \ {e}
        /\ best' = IF Applies(codex[asked], e) /\ IsStronger(codex[asked], e, best[asked])
                   THEN [best EXCEPT ![asked] = e] ELSE best
  BY DEF Compare
<1>2. codex' = codex /\ asked' = asked
  BY DEF Compare
<1> DEFINE f == codex[asked]
<1>3. /\ e \in Entries /\ left \subseteq Entries /\ asked \in 1..Len(best) /\ asked \in 1..Len(codex)
      /\ best \in Seq(Entries \cup {NoEntry})
  BY <1>1 DEF Typed
<1>4. f \in Normalized
  BY <1>3 DEF Typed
<1>5. Len(best') = Len(best)
  BY <1>1, <1>3, ExceptSeq
<1>6. \A i \in 1..Len(best) : i # asked => best'[i] = best[i]
  BY <1>1, <1>3
<1> DEFINE S == Seen(asked)  Sp == Seen(asked)'  b == best[asked]  bp == best'[asked]
<1>7. Strongest(asked)
  BY <1>3, StrongestIsForAll
<1>8. S = {x \in Entries \ left : Applies(f, x)}
  BY DEF Seen
<1>9. Sp = {x \in Entries \ (left \ {e}) : Applies(f, x)}
  BY <1>1, <1>2 DEF Seen
<1>10. bp = IF Applies(f, e) /\ IsStronger(f, e, b) THEN e ELSE b
  BY <1>1, <1>3
<1>11. IF S = {} THEN b = NoEntry
       ELSE b \in S /\ \A x \in S \ {b} : Less(Key(f, b), Key(f, x))
  BY <1>7 DEF Strongest
<1>12. S \subseteq Entries /\ e \notin S
  BY <1>1, <1>8
<1> HIDE DEF S, Sp, b, bp, f
<1>13. /\ Sp = {} => bp = NoEntry
       /\ Sp # {} => bp \in Sp /\ \A x \in Sp \ {bp} : Less(Key(f, bp), Key(f, x))
  <2>1. CASE ~ Applies(f, e)
    <3>1. Sp = S /\ bp = b
      BY <1>1, <1>8, <1>9, <1>10, <2>1
    <3> QED BY <1>11, <3>1
  <2>2. CASE Applies(f, e) /\ S = {}
    <3>1. Sp = {e}
      BY <1>1, <1>3, <1>8, <1>9, <2>2
    <3>2. b = NoEntry /\ e # NoEntry
      BY <1>3, <1>11, <2>2, MatchAssumption DEF NoEntry
    <3>3. IsStronger(f, e, NoEntry)
      <4>1. QualityRank(f, NoEntry) = 3 /\ QualityRank(f, e) \in {0, 1, 2}
        BY <3>2 DEF QualityRank
      <4> QED BY <4>1 DEF IsStronger
    <3>4. bp = e
      BY <1>10, <2>2, <3>2, <3>3
    <3> QED BY <3>1, <3>4
  <2>3. CASE Applies(f, e) /\ S # {}
    <3>1. Sp = S \cup {e}
      BY <1>1, <1>3, <1>8, <1>9, <2>3
    <3>2. b \in S /\ b \in Entries /\ b # e /\ \A x \in S \ {b} : Less(Key(f, b), Key(f, x))
      BY <1>11, <1>12, <2>3
    <3>3. CASE IsStronger(f, e, b)
      <4>1. bp = e /\ Less(Key(f, e), Key(f, b))
        BY <1>3, <1>4, <1>10, <2>3, <3>2, <3>3, StrongerIsLess
      <4>2. \A x \in S : Less(Key(f, e), Key(f, x))
        BY <1>3, <1>4, <1>12, <3>2, <4>1, LessIsTransitive
      <4> QED BY <3>1, <4>1, <4>2
    <3>4. CASE ~ IsStronger(f, e, b)
      <4>1. bp = b /\ Less(Key(f, b), Key(f, e))
        BY <1>3, <1>4, <1>10, <2>3, <3>2, <3>4, StrongerIsLess
      <4> QED BY <3>1, <3>2, <4>1
    <3> QED BY <3>3, <3>4
  <2> QED BY <2>1, <2>2, <2>3
<1>17. Strongest(asked)'
  BY <1>2, <1>13 DEF Strongest, Sp, bp, f
<1>18. \A i \in 1..Len(best) : i # asked => Strongest(i)'
  <2> SUFFICES ASSUME NEW i \in 1..Len(best), i # asked PROVE Strongest(i)'
    OBVIOUS
  <2>1. Seen(i)' = Seen(i)
    BY <1>2 DEF Seen
  <2>2. Strongest(i)
    BY StrongestIsForAll
  <2> HIDE DEF Seen
  <2> QED BY <1>2, <1>6, <2>1, <2>2 DEF Strongest
<1>19. \A i \in 1..Len(best') : Strongest(i)'
  BY <1>2, <1>5, <1>17, <1>18
<1> QED BY <1>19 DEF StrongestEntry, Strongest, Seen

(* A finding that is asked next starts with no entry.                      *)
LEMMA AskStep ==
  ASSUME Typed, StrongestEntry, Ask
  PROVE  StrongestEntry'
<1>1. /\ left = {} /\ asked' = asked + 1 /\ left' = Entries /\ codex' = codex
      /\ best' = Append(best, NoEntry) /\ Len(best) = asked /\ asked \in Nat
      /\ best \in Seq(Entries \cup {NoEntry})
  BY DEF Ask, Typed
<1>2. /\ Len(best') = asked + 1 /\ best'[asked + 1] = NoEntry
      /\ \A i \in 1..asked : best'[i] = best[i]
  BY <1>1, AppendProperties
<1>3. \A i \in 1..asked : Seen(i)' = Seen(i)
  BY <1>1 DEF Seen
<1>4. \A n : n = asked + 1 => Seen(n)' = {}
  BY <1>1 DEF Seen
<1>5. \A i \in 1..asked : Strongest(i)
  BY <1>1, StrongestIsForAll
<1>6. \A i \in 1..asked : Strongest(i)'
  BY <1>1, <1>2, <1>3, <1>5 DEF Strongest
<1>7. \A n : n = asked + 1 => Strongest(n)'
  BY <1>2, <1>4 DEF Strongest
<1>8. \A i \in 1..Len(best') : Strongest(i)'
  BY <1>1, <1>2, <1>6, <1>7
<1> QED BY <1>8 DEF StrongestEntry, Strongest, Seen

(* The entry a finding is scored by is the strongest of those that apply,  *)
(* in whatever order the dataset lists them (match_finding of              *)
(* eval/score_codex_baseline.py).                                          *)
THEOREM Scoring == Spec => []StrongestEntry
<1>1. Init => StrongestEntry
  BY DEF Init, StrongestEntry
<1>2. Typed /\ StrongestEntry /\ [Next]_vars => StrongestEntry'
  <2> SUFFICES ASSUME Typed, StrongestEntry, [Next]_vars PROVE StrongestEntry'
    OBVIOUS
  <2>1. CASE Walk
    BY <2>1 DEF Walk, StrongestEntry
  <2>2. CASE Ask
    BY <2>2, AskStep
  <2>3. CASE Compare
    BY <2>3, CompareStep
  <2>4. CASE UNCHANGED vars
    BY <2>4 DEF vars, StrongestEntry
  <2> QED BY <2>1, <2>2, <2>3, <2>4 DEF Next
<1> QED BY <1>1, <1>2, TypedInductive, PTL DEF Spec

(* Pairs are candidates, findings have a severity of the scale or none and *)
(* an end when they have a start.                                          *)
THEOREM TypeCorrect == Spec => []TypeOK
<1>1. WalkedFirst /\ Typed => TypeOK
  <2> SUFFICES ASSUME WalkedFirst, Typed PROVE TypeOK
    OBVIOUS
  <2>1. ASSUME NEW side \in {codex, openrouter}, NEW i \in DOMAIN side
        PROVE  /\ side[i].severity \in Severities \cup {NoSeverity}
               /\ side[i].start # 0 => HasLines(side[i])
    <3>1. side[i] \in Normalized
      BY <2>1 DEF Typed
    <3> QED BY <3>1, NormalizedLines
  <2> HIDE DEF HasLines, Candidates
  <2> QED BY <2>1 DEF TypeOK, Typed, WalkedFirst
<1> QED BY <1>1, TypedInductive, WalkedInvariance, PTL DEF Spec

-----------------------------------------------------------------------------
(* What the pairs are when the walk is over.                               *)

(* A set of pairs that has no finding twice, and one that every candidate  *)
(* outside of it loses a finding to.                                       *)
Apart(M) == \A p, q \in M : Shares(p, q) => p = q

Undisturbed(M) ==
  \A p \in Candidates(codex, openrouter) \ M : \E q \in M : Shares(p, q) /\ Before(q, p)

LEMMA LeastNatural ==
  ASSUME NEW S \in SUBSET Nat, S # {}
  PROVE  \E n \in S : \A m \in S : n <= m
<1>1. PICK n \in S : \A m \in S : ~ (<<m, n>> \in OpToRel(<, Nat))
  BY NatLessThanWellFounded, WFMin
<1>2. \A m \in S : <<m, n>> \in Nat \X Nat /\ <<m, n>>[1] = m /\ <<m, n>>[2] = n
  OBVIOUS
<1>3. \A m \in S : ~ (m < n)
  BY <1>1, <1>2 DEF OpToRel
<1> QED
  BY <1>3

(* Candidates are pairs of numbers at a distance.                          *)
LEMMA CandidateNumbers ==
  ASSUME Typed, NEW p \in Candidates(codex, openrouter)
  PROVE  /\ p \in (1..Len(codex)) \X (1..Len(openrouter))
         /\ p = <<p[1], p[2]>> /\ p[1] \in Nat /\ p[2] \in Nat /\ Distance(p) \in Nat
<1>1. p \in (1..Len(codex)) \X (1..Len(openrouter))
  BY DEF Candidates, Typed
<1>2. Len(codex) \in Nat /\ Len(openrouter) \in Nat
  BY DEF Typed
<1>3. codex[p[1]] \in Normalized /\ openrouter[p[2]] \in Normalized
  BY <1>1, <1>2 DEF Typed
<1>4. /\ codex[p[1]].start \in Nat /\ codex[p[1]].end \in Nat
      /\ openrouter[p[2]].start \in Nat /\ openrouter[p[2]].end \in Nat
  BY <1>3, NormalizedLines
<1>5. Distance(p) \in Nat
  BY <1>4 DEF Distance, LineDistance, Lo, Hi
<1> QED
  BY <1>1, <1>2, <1>5

(* Of any candidates, one comes before all others: the closest, of these   *)
(* the first in the baseline's list, of these the first in the other.      *)
LEMMA FirstCandidate ==
  ASSUME Typed, NEW D, D \subseteq Candidates(codex, openrouter), D # {}
  PROVE  \E p \in D : \A q \in D : ~ Before(q, p)
<1>1. \A p \in D : p = <<p[1], p[2]>> /\ p[1] \in Nat /\ p[2] \in Nat /\ Distance(p) \in Nat
  BY CandidateNumbers
<1> HIDE DEF Candidates
<1> DEFINE Ds == {Distance(p) : p \in D}
<1>2. PICK d \in Ds : \A e \in Ds : d <= e
  <2>1. Ds \subseteq Nat /\ Ds # {}
    BY <1>1
  <2> HIDE DEF Ds
  <2> QED
    BY <2>1, LeastNatural
<1> DEFINE C1 == {p \in D : Distance(p) = d}
           N1 == {p[1] : p \in C1}
<1>3. PICK c \in N1 : \A e \in N1 : c <= e
  <2>1. N1 \subseteq Nat /\ N1 # {}
    BY <1>1, <1>2
  <2> HIDE DEF N1
  <2> QED
    BY <2>1, LeastNatural
<1> DEFINE C2 == {p \in C1 : p[1] = c}
           N2 == {p[2] : p \in C2}
<1>4. PICK o \in N2 : \A e \in N2 : o <= e
  <2>1. N2 \subseteq Nat /\ N2 # {}
    BY <1>1, <1>3
  <2> HIDE DEF N2
  <2> QED
    BY <2>1, LeastNatural
<1>5. PICK p \in C2 : p[2] = o
  BY <1>4
<1>6. p \in D /\ Distance(p) = d /\ p[1] = c /\ p[2] = o
  BY <1>5
<1>7. ASSUME NEW q \in D
      PROVE  ~ Before(q, p)
  <2>1. d <= Distance(q)
    BY <1>2
  <2>2. Distance(q) = d => c <= q[1]
    BY <1>3
  <2>3. Distance(q) = d /\ q[1] = c => o <= q[2]
    BY <1>4
  <2>4. /\ q[1] \in Nat /\ q[2] \in Nat /\ Distance(q) \in Nat
        /\ c \in Nat /\ o \in Nat /\ d \in Nat
    BY <1>1, <1>6
  <2> HIDE DEF Distance, Ds, N1, N2, C1, C2
  <2> QED
    BY <1>6, <2>1, <2>2, <2>3, <2>4 DEF Before
<1> QED
  BY <1>6, <1>7

(* Two sets of pairs that are apart and undisturbed are one: at the first  *)
(* pair only one of them has, the other has an earlier one that bars it.   *)
LEMMA OnlyOne ==
  ASSUME Typed, NEW M, NEW N,
         M \subseteq Candidates(codex, openrouter), Apart(M), Undisturbed(M),
         N \subseteq Candidates(codex, openrouter), Apart(N), Undisturbed(N)
  PROVE  M = N
<1> DEFINE D == (M \ N) \cup (N \ M)
<1> SUFFICES ASSUME D # {} PROVE FALSE
  OBVIOUS
<1>1. D \subseteq Candidates(codex, openrouter)
  OBVIOUS
<1>2. PICK p \in D : \A q \in D : ~ Before(q, p)
  <2> HIDE DEF D
  <2> QED
    BY <1>1, FirstCandidate
<1>3. CASE p \in M \ N
  <2>1. PICK q \in N : Shares(p, q) /\ Before(q, p)
    BY <1>1, <1>3 DEF Undisturbed
  <2>2. q \in M
    BY <1>2, <2>1
  <2> QED
    BY <1>3, <2>1, <2>2 DEF Apart
<1>4. CASE p \in N \ M
  <2>1. PICK q \in M : Shares(p, q) /\ Before(q, p)
    BY <1>1, <1>4 DEF Undisturbed
  <2>2. q \in N
    BY <1>2, <2>1
  <2> QED
    BY <1>4, <2>1, <2>2 DEF Apart
<1> QED
  BY <1>3, <1>4

(* The finished pairing is the only one that is one to one and stable:     *)
(* which findings are paired follows from the findings alone, however the  *)
(* candidates are walked over (match_findings).                            *)
THEOREM OnlyStablePairing ==
  Spec => [](rest = {} =>
               \A M \in SUBSET Candidates(codex, openrouter) :
                 Apart(M) /\ Undisturbed(M) <=> M = matches)
<1>1. Typed /\ WalkedFirst /\ OneToOne /\ Stable =>
        (rest = {} => \A M \in SUBSET Candidates(codex, openrouter) :
                        Apart(M) /\ Undisturbed(M) <=> M = matches)
  <2> SUFFICES ASSUME Typed, WalkedFirst, OneToOne, Stable, rest = {},
                      NEW M \in SUBSET Candidates(codex, openrouter)
               PROVE  Apart(M) /\ Undisturbed(M) <=> M = matches
    OBVIOUS
  <2>1. matches \subseteq Candidates(codex, openrouter)
    BY DEF WalkedFirst
  <2>2. Apart(matches) /\ Undisturbed(matches)
    BY DEF Apart, Undisturbed, OneToOne, Stable
  <2> QED
    BY <2>1, <2>2, OnlyOne
<1> QED
  BY <1>1, TypedInductive, WalkedInvariance, Pairing, Stability, PTL DEF Spec

(* Pairs that are apart are at most as many as the pairs they share a      *)
(* finding of one side with.                                               *)
LEMMA SharingPairs ==
  ASSUME NEW A, NEW T, IsFiniteSet(T), NEW i \in {1, 2},
         \A p \in A : \E q \in T : p[i] = q[i],
         \A p, q \in A : p[i] = q[i] => p = q
  PROVE  IsFiniteSet(A) /\ Cardinality(A) <= Cardinality(T)
<1> DEFINE g == [p \in A |-> CHOOSE q \in T : p[i] = q[i]]
<1>1. \A p \in A : g[p] \in T /\ p[i] = g[p][i]
  OBVIOUS
<1>2. g \in [A -> T]
  BY <1>1
<1>3. \A p, q \in A : g[p] = g[q] => p = q
  BY <1>1
<1> HIDE DEF g
<1>4. g \in Injection(A, T)
  BY <1>2, <1>3, Fun_IsInj
<1> QED
  BY <1>4, FS_Injection

(* The greedy pairing finds at least half as many pairs as any pairing     *)
(* could: a measured recall is at least half the best there is.            *)
THEOREM AtLeastHalf ==
  Spec => [](rest = {} =>
               \A M \in SUBSET Candidates(codex, openrouter) :
                 Apart(M) => Cardinality(M) <= 2 * Cardinality(matches))
<1>1. Typed /\ WalkedFirst /\ Stable =>
        (rest = {} => \A M \in SUBSET Candidates(codex, openrouter) :
                        Apart(M) => Cardinality(M) <= 2 * Cardinality(matches))
  <2> SUFFICES ASSUME Typed, WalkedFirst, Stable, rest = {},
                      NEW M \in SUBSET Candidates(codex, openrouter), Apart(M)
               PROVE  Cardinality(M) <= 2 * Cardinality(matches)
    OBVIOUS
  <2> DEFINE A(i) == {p \in M : \E q \in matches : p[i] = q[i]}
  <2>1. IsFiniteSet(matches)
    <3>1. matches \subseteq (1..Len(codex)) \X (1..Len(openrouter))
      BY CandidateNumbers DEF WalkedFirst
    <3>2. IsFiniteSet(1..Len(codex)) /\ IsFiniteSet(1..Len(openrouter))
      BY FS_Interval DEF Typed
    <3> QED
      BY <3>1, <3>2, FS_Product, FS_Subset
  <2>2. \A i \in {1, 2} : IsFiniteSet(A(i)) /\ Cardinality(A(i)) <= Cardinality(matches)
    <3> SUFFICES ASSUME NEW i \in {1, 2}
                 PROVE  IsFiniteSet(A(i)) /\ Cardinality(A(i)) <= Cardinality(matches)
      OBVIOUS
    <3>1. \A p, q \in A(i) : p[i] = q[i] => p = q
      BY DEF Apart, Shares
    <3>2. \A p \in A(i) : \E q \in matches : p[i] = q[i]
      OBVIOUS
    <3> HIDE DEF A
    <3> QED
      BY <2>1, <3>1, <3>2, SharingPairs
  <2>3. M = A(1) \cup A(2)
    BY DEF Stable, Shares
  <2>4. IsFiniteSet(A(1)) /\ IsFiniteSet(A(2))
    BY <2>2
  <2>5. Cardinality(M) = Cardinality(A(1)) + Cardinality(A(2)) - Cardinality(A(1) \cap A(2))
    <3> HIDE DEF A
    <3> QED
      BY <2>3, <2>4, FS_Union
  <2>6. /\ Cardinality(matches) \in Nat
        /\ Cardinality(A(1)) \in Nat /\ Cardinality(A(2)) \in Nat
        /\ Cardinality(A(1) \cap A(2)) \in Nat
    BY <2>1, <2>4, FS_CardinalityType, FS_Intersection
  <2> HIDE DEF A
  <2> QED
    BY <2>2, <2>5, <2>6
<1> QED
  BY <1>1, TypedInductive, WalkedInvariance, Stability, PTL DEF Spec
=============================================================================
