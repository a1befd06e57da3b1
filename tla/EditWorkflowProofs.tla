--------------------------- MODULE EditWorkflowProofs ---------------------------
(***************************************************************************)
(* What EditWorkflow promises for every pull request, every use of tools,  *)
(* and every number of pushes and failures meanwhile.                      *)
(***************************************************************************)
EXTENDS EditWorkflow, SequenceTheorems, WellFoundedInduction, TLAPS

-----------------------------------------------------------------------------
(* The least and the greatest member of a set of numbers.  Induction is    *)
(* done by the least number that a property does not hold for.             *)

LEMMA Least ==
  ASSUME NEW S \in SUBSET Nat, S # {}
  PROVE  \E n \in S : \A m \in S : n <= m
<1>1. PICK n \in S : \A m \in S : ~ (<<m, n>> \in OpToRel(<, Nat))
  BY NatLessThanWellFounded, WFMin
<1>2. \A m \in S : ~ (m < n)
  BY <1>1 DEF OpToRel
<1> QED
  BY <1>2

LEMMA Greatest ==
  ASSUME NEW N \in Nat, NEW S \in SUBSET (0..N), S # {}
  PROVE  Max(S) \in S /\ \A m \in S : m <= Max(S)
<1> DEFINE T == {N - m : m \in S}
<1>0. \A m \in S : N - m \in Nat
  OBVIOUS
<1>1. T \in SUBSET Nat /\ T # {}
  BY <1>0
<1>2. PICK k \in T : \A l \in T : k <= l
  BY <1>1, Least
<1>3. PICK n \in S : k = N - n
  BY <1>2
<1>4. \A m \in S : n >= m
  BY <1>2, <1>3
<1>5. \E x \in S : \A m \in S : x >= m
  BY <1>4
<1> QED
  BY <1>5 DEF Max

(* A rebase that leaves commits out keeps the order of the others: what    *)
(* Without computes, step by step.                                         *)
KeepStep(f, h, T, n) ==
  IF n = 0 THEN <<>>
  ELSE IF h[n] \in T THEN f[n - 1]
  ELSE Append(f[n - 1], h[n])

Keeps(f, h, T, N) == f = [n \in 0..N |-> KeepStep(f, h, T, n)]

LEMMA KeepsUpTo ==
  ASSUME NEW h, NEW T, NEW N \in Nat
  PROVE  \E f : Keeps(f, h, T, N)
<1> DEFINE Bad == {m \in Nat : ~ \E f : Keeps(f, h, T, m)}
<1>1. SUFFICES ASSUME Bad # {} PROVE FALSE
  OBVIOUS
<1>2. PICK m \in Bad : \A n \in Bad : m <= n
  BY <1>1, Least
<1>3. CASE m = 0
  <2> DEFINE f == [n \in 0..0 |-> <<>>]
  <2>1. \A n \in 0..0 : KeepStep(f, h, T, n) = <<>>
    BY DEF KeepStep
  <2>2. Keeps(f, h, T, 0)
    BY <2>1 DEF Keeps
  <2> QED
    BY <1>2, <1>3, <2>2
<1>4. CASE m # 0
  <2>1. m - 1 \in Nat /\ m - 1 \notin Bad
    BY <1>2, <1>4
  <2>2. PICK f : Keeps(f, h, T, m - 1)
    BY <2>1
  <2> DEFINE g == [n \in 0..m |-> IF n < m THEN f[n] ELSE KeepStep(f, h, T, m)]
  <2>3. \A n \in 0..(m - 1) : f[n] = KeepStep(f, h, T, n) /\ g[n] = f[n]
    BY <1>2, <2>2 DEF Keeps
  <2>4. \A n \in 0..(m - 1) : KeepStep(g, h, T, n) = KeepStep(f, h, T, n)
    BY <1>2, <2>3 DEF KeepStep
  <2>5. KeepStep(g, h, T, m) = KeepStep(f, h, T, m)
    BY <1>2, <1>4, <2>3 DEF KeepStep
  <2>6. \A n \in 0..m : g[n] = KeepStep(g, h, T, n)
    BY <1>2, <2>3, <2>4, <2>5
  <2>7. Keeps(g, h, T, m)
    <3> HIDE DEF g
    <3>1. g = [n \in 0..m |-> g[n]]
      BY DEF g
    <3> QED
      BY <2>6, <3>1 DEF Keeps
  <2> QED
    BY <1>2, <2>7
<1> QED
  BY <1>3, <1>4

LEMMA WithoutKeeps ==
  ASSUME NEW h, NEW T, Len(h) \in Nat
  PROVE  \E f : Keeps(f, h, T, Len(h)) /\ Without(h, T) = f[Len(h)]
<1> DEFINE f == CHOOSE k : Keeps(k, h, T, Len(h))
<1>1. Keeps(f, h, T, Len(h))
  BY KeepsUpTo
<1>2. f = CHOOSE k : k = [n \in 0..Len(h) |->
            IF n = 0 THEN <<>>
            ELSE IF h[n] \in T THEN k[n - 1]
            ELSE Append(k[n - 1], h[n])]
  BY DEF Keeps, KeepStep
<1> HIDE DEF f
<1>3. Without(h, T) = f[Len(h)]
  BY <1>2 DEF Without
<1> QED
  BY <1>1, <1>3

LEMMA KeepsAt ==
  ASSUME NEW f, NEW h, NEW T, NEW N \in Nat, Keeps(f, h, T, N)
  PROVE  /\ f[0] = <<>>
         /\ \A n \in 1..N : h[n] \in T => f[n] = f[n - 1]
         /\ \A n \in 1..N : h[n] \notin T => f[n] = Append(f[n - 1], h[n])
<1>1. \A n \in 0..N : f[n] = KeepStep(f, h, T, n)
  BY DEF Keeps
<1>2. f[0] = KeepStep(f, h, T, 0)
  BY <1>1
<1>3. \A n \in 1..N : n # 0 /\ f[n] = KeepStep(f, h, T, n)
  BY <1>1
<1> QED
  BY <1>2, <1>3 DEF KeepStep

(* What is kept is a part of what was there. *)
LEMMA KeepsType ==
  ASSUME NEW S, NEW h \in Seq(S), NEW T, NEW f, Keeps(f, h, T, Len(h))
  PROVE  \A n \in 0..Len(h) : f[n] \in Seq(ToSet(h) \ T)
<1> DEFINE Q == ToSet(h) \ T
           Bad == {n \in Nat : n <= Len(h) /\ f[n] \notin Seq(Q)}
<1>2. /\ f[0] = <<>>
      /\ \A n \in 1..Len(h) : h[n] \in T => f[n] = f[n - 1]
      /\ \A n \in 1..Len(h) : h[n] \notin T => f[n] = Append(f[n - 1], h[n])
  BY KeepsAt
<1>3. SUFFICES ASSUME Bad # {} PROVE FALSE
  OBVIOUS
<1>4. PICK n \in Bad : \A m \in Bad : n <= m
  BY <1>3, Least
<1> HIDE DEF Q
<1>5. CASE n = 0
  <2>1. f[n] \in Seq(Q)
    BY <1>2, <1>5, EmptySeq
  <2> QED
    BY <1>4, <2>1
<1>6. CASE n # 0
  <2>1. n - 1 \notin Bad /\ n - 1 \in Nat /\ n - 1 <= Len(h) /\ n \in 0..Len(h)
    BY <1>4, <1>6
  <2>2. f[n - 1] \in Seq(Q)
    BY <2>1
  <2>3. n \in 1..Len(h) /\ h[n] \in ToSet(h)
    BY <1>6, <2>1 DEF ToSet
  <2>4. CASE h[n] \in T
    BY <1>2, <1>4, <2>2, <2>3, <2>4
  <2>5. CASE h[n] \notin T
    <3>1. h[n] \in Q
      BY <2>3, <2>5 DEF Q
    <3>2. Append(f[n - 1], h[n]) \in Seq(Q)
      BY <2>2, <3>1, AppendProperties
    <3>3. f[n] = Append(f[n - 1], h[n])
      BY <1>2, <2>3, <2>5
    <3> QED
      BY <1>4, <3>2, <3>3
  <2> QED
    BY <2>4, <2>5
<1> QED
  BY <1>5, <1>6

LEMMA WithoutType ==
  ASSUME NEW S, NEW h \in Seq(S), NEW T
  PROVE  Without(h, T) \in Seq(ToSet(h) \ T)
<1>1. PICK f : Keeps(f, h, T, Len(h)) /\ Without(h, T) = f[Len(h)]
  BY WithoutKeeps
<1>2. Len(h) \in 0..Len(h)
  OBVIOUS
<1>3. f[Len(h)] \in Seq(ToSet(h) \ T)
  BY <1>1, <1>2, KeepsType
<1> QED
  BY <1>1, <1>3

(* The last of some commits stays the last of them, if it is kept. *)
LEMMA WithoutLast ==
  ASSUME NEW S, NEW h \in Seq(S), NEW T, NEW W,
         NEW i \in 1..Len(h), h[i] \notin T, h[i] \in W,
         \A j \in (i + 1)..Len(h) : h[j] \notin W
  PROVE  LET r == Without(h, T)
         IN  \E k \in 1..Len(r) : r[k] = h[i] /\ \A m \in (k + 1)..Len(r) : r[m] \notin W
<1>1. PICK f : Keeps(f, h, T, Len(h)) /\ Without(h, T) = f[Len(h)]
  BY WithoutKeeps
<1> DEFINE Q == ToSet(h) \ T
           Good(r) == /\ r \in Seq(Q)
                      /\ \E k \in 1..Len(r) :
                           r[k] = h[i] /\ \A m \in (k + 1)..Len(r) : r[m] \notin W
           Bad == {n \in Nat : i <= n /\ n <= Len(h) /\ ~ Good(f[n])}
<1>2. /\ f[0] = <<>>
      /\ \A n \in 1..Len(h) : h[n] \in T => f[n] = f[n - 1]
      /\ \A n \in 1..Len(h) : h[n] \notin T => f[n] = Append(f[n - 1], h[n])
  BY <1>1, KeepsAt
<1>3. \A n \in 0..Len(h) : f[n] \in Seq(Q)
  BY <1>1, KeepsType
<1>4. SUFFICES ASSUME Bad # {} PROVE FALSE
  BY <1>1
<1>5. PICK n \in Bad : \A m \in Bad : n <= m
  BY <1>4, Least
<1>6. n \in 1..Len(h) /\ n - 1 \in 0..Len(h)
  BY <1>5
<1> DEFINE s == f[n - 1]
<1>7. s \in Seq(Q) /\ f[n] \in Seq(Q)
  BY <1>3, <1>6
<1>8. CASE n = i
  <2>1. f[n] = Append(s, h[i])
    BY <1>2, <1>6, <1>8
  <2>2. Len(f[n]) = Len(s) + 1 /\ f[n][Len(s) + 1] = h[i]
    BY <1>7, <2>1
  <2>3. Good(f[n])
    BY <1>7, <2>2
  <2> QED
    BY <1>5, <2>3
<1>9. CASE n # i
  <2>1. i <= n - 1 /\ n - 1 \notin Bad /\ h[n] \notin W
    BY <1>5, <1>9
  <2>2. Good(s)
    BY <1>6, <2>1
  <2>3. CASE h[n] \in T
    BY <1>2, <1>5, <1>6, <2>2, <2>3
  <2>4. CASE h[n] \notin T
    <3>1. f[n] = Append(s, h[n])
      BY <1>2, <1>6, <2>4
    <3>2. PICK k \in 1..Len(s) : s[k] = h[i] /\ \A m \in (k + 1)..Len(s) : s[m] \notin W
      BY <2>2
    <3>3. /\ Len(f[n]) = Len(s) + 1
          /\ f[n][Len(s) + 1] = h[n]
          /\ \A m \in 1..Len(s) : f[n][m] = s[m]
      BY <1>7, <3>1
    <3> HIDE DEF s
    <3>4. k \in 1..Len(f[n]) /\ f[n][k] = h[i]
      BY <1>7, <3>2, <3>3
    <3>5. \A m \in (k + 1)..Len(f[n]) : f[n][m] \notin W
      <4> TAKE m \in (k + 1)..Len(f[n])
      <4>1. CASE m = Len(s) + 1
        BY <2>1, <3>3, <4>1
      <4>2. CASE m # Len(s) + 1
        <5>1. m \in (k + 1)..Len(s) /\ m \in 1..Len(s)
          BY <1>7, <3>3, <4>2
        <5> QED
          BY <3>2, <3>3, <5>1
      <4> QED
        BY <4>1, <4>2
    <3>6. Good(f[n])
      BY <1>7, <3>4, <3>5
    <3> QED
      BY <1>5, <3>6
  <2> QED
    BY <2>3, <2>4
<1> QED
  BY <1>8, <1>9

-----------------------------------------------------------------------------
(* Branches.                                                               *)

LEMMA SharedType ==
  ASSUME NEW S, NEW h \in Seq(S), NEW g \in Seq(S)
  PROVE  /\ Shared(h, g) \in 0..Len(h)
         /\ Shared(h, g) <= Len(g)
         /\ \A i \in 1..Shared(h, g) : h[i] = g[i]
<1> DEFINE D == {n \in 0..Len(h) : n <= Len(g) /\ \A i \in 1..n : h[i] = g[i]}
<1>1. D \in SUBSET (0..Len(h)) /\ D # {} /\ Len(h) \in Nat
  <2>1. 0 \in D
    OBVIOUS
  <2> QED
    BY <2>1
<1>2. Max(D) \in D
  <2> HIDE DEF D
  <2> QED
    BY <1>1, Greatest
<1>3. Shared(h, g) = Max(D)
  BY DEF Shared
<1> QED
  BY <1>2, <1>3

LEMMA BeyondType ==
  ASSUME NEW S, NEW h \in Seq(S), NEW g \in Seq(S)
  PROVE  /\ Beyond(h, g) \in Seq(S)
         /\ Len(Beyond(h, g)) = Len(h) - Shared(h, g)
         /\ \A i \in 1..(Len(h) - Shared(h, g)) : Beyond(h, g)[i] = h[Shared(h, g) + i]
<1> DEFINE n == Shared(h, g)
<1>1. n \in 0..Len(h) /\ Len(h) \in Nat
  BY SharedType
<1> HIDE DEF n
<1>2. \A i \in (n + 1)..Len(h) : h[i] \in S
  BY <1>1
<1>3. /\ SubSeq(h, n + 1, Len(h)) \in Seq(S)
      /\ Len(SubSeq(h, n + 1, Len(h))) = IF n + 1 <= Len(h) THEN Len(h) - (n + 1) + 1 ELSE 0
      /\ \A i \in 1..(Len(h) - (n + 1) + 1) :
           SubSeq(h, n + 1, Len(h))[i] = h[n + 1 + i - 1]
  BY <1>1, <1>2, SubSeqProperties
<1>4. Beyond(h, g) = SubSeq(h, n + 1, Len(h))
  BY DEF Beyond, n
<1> QED
  BY <1>1, <1>3, <1>4 DEF n

(* What is beyond a branch is a part of the other. *)
LEMMA BeyondPart ==
  ASSUME NEW S, NEW h \in Seq(S), NEW g \in Seq(S)
  PROVE  ToSet(Beyond(h, g)) \subseteq ToSet(h)
<1> DEFINE n == Shared(h, g)
<1>1. n \in 0..Len(h) /\ Len(h) \in Nat
  BY SharedType
<1>2. /\ Len(Beyond(h, g)) = Len(h) - n
      /\ \A i \in 1..(Len(h) - n) : Beyond(h, g)[i] = h[n + i]
      /\ Beyond(h, g) \in Seq(S)
  BY BeyondType
<1> HIDE DEF n
<1>3. SUFFICES ASSUME NEW i \in 1..(Len(h) - n) PROVE h[n + i] \in ToSet(h)
  BY <1>2 DEF ToSet
<1>4. n + i \in 1..Len(h)
  BY <1>1
<1> QED
  BY <1>4 DEF ToSet

LEMMA ReplayedType ==
  ASSUME NEW S, NEW h \in Seq(S), NEW g \in Seq(S)
  PROVE  /\ Replayed(h, g) \in Seq(S)
         /\ ToSet(Replayed(h, g)) \subseteq ToSet(h)
<1> DEFINE b == Beyond(h, g)
           r == Replayed(h, g)
<1>1. b \in Seq(S) /\ ToSet(b) \subseteq ToSet(h)
  BY BeyondType, BeyondPart
<1> HIDE DEF b
<1>2. r \in Seq(ToSet(b) \ ToSet(Beyond(g, h)))
  BY <1>1, WithoutType DEF Replayed, b
<1> HIDE DEF r
<1>3. \A i \in 1..Len(r) : r[i] \in ToSet(h) /\ r[i] \in S
  <2> TAKE i \in 1..Len(r)
  <2>1. r[i] \in ToSet(b)
    BY <1>2
  <2>2. ToSet(b) \subseteq S
    BY <1>1 DEF ToSet
  <2> QED
    BY <1>1, <2>1, <2>2
<1>4. r = [i \in 1..Len(r) |-> r[i]] /\ Len(r) \in Nat
  BY <1>2
<1>5. r \in Seq(S)
  BY <1>3, <1>4, IsASeq
<1> QED
  BY <1>2, <1>3, <1>5 DEF ToSet, r

(* A branch with nothing beyond another is the beginning of it. *)
LEMMA NothingBeyond ==
  ASSUME NEW S, NEW h \in Seq(S), NEW g \in Seq(S), Beyond(h, g) = <<>>
  PROVE  Len(h) <= Len(g) /\ \A i \in 1..Len(h) : h[i] = g[i]
<1> DEFINE n == Shared(h, g)
<1>1. n \in 0..Len(h) /\ n <= Len(g) /\ \A i \in 1..n : h[i] = g[i]
  BY SharedType
<1>2. Len(h) - n = 0
  BY BeyondType
<1> HIDE DEF n
<1>3. n = Len(h)
  BY <1>1, <1>2
<1> QED
  BY <1>1, <1>3

(* The first commits of a branch. *)
LEMMA FirstType ==
  ASSUME NEW S, NEW h \in Seq(S), NEW n \in 0..Len(h)
  PROVE  /\ SubSeq(h, 1, n) \in Seq(S)
         /\ Len(SubSeq(h, 1, n)) = n
         /\ \A i \in 1..n : SubSeq(h, 1, n)[i] = h[i]
         /\ ToSet(SubSeq(h, 1, n)) \subseteq ToSet(h)
<1>1. n \in Nat /\ n \in Int /\ 1 \in Int /\ n <= Len(h) /\ \A i \in 1..n : h[i] \in S
  OBVIOUS
<1>2. /\ SubSeq(h, 1, n) \in Seq(S)
      /\ Len(SubSeq(h, 1, n)) = IF 1 <= n THEN n - 1 + 1 ELSE 0
      /\ \A i \in 1..(n - 1 + 1) : SubSeq(h, 1, n)[i] = h[1 + i - 1]
  BY <1>1, SubSeqProperties
<1>3. Len(SubSeq(h, 1, n)) = n /\ \A i \in 1..n : SubSeq(h, 1, n)[i] = h[i]
  BY <1>1, <1>2
<1>4. \A i \in 1..n : SubSeq(h, 1, n)[i] \in ToSet(h)
  BY <1>1, <1>3 DEF ToSet
<1> QED
  BY <1>2, <1>3, <1>4 DEF ToSet

(* A push without force only adds. *)
LEMMA PrefixPart ==
  ASSUME NEW S, NEW h \in Seq(S), NEW g \in Seq(S), IsPrefix(h, g)
  PROVE  /\ Len(h) <= Len(g)
         /\ \A i \in 1..Len(h) : h[i] = g[i]
         /\ ToSet(h) \subseteq ToSet(g)
<1>1. Len(h) <= Len(g) /\ SubSeq(h, 1, Len(h)) = SubSeq(g, 1, Len(h))
  BY DEF IsPrefix
<1>2. \A i \in 1..Len(h) : SubSeq(h, 1, Len(h))[i] = h[i] /\ SubSeq(g, 1, Len(h))[i] = g[i]
  <2>1. Len(h) \in 0..Len(h) /\ Len(h) \in 0..Len(g)
    BY <1>1
  <2> QED
    BY <2>1, FirstType
<1>3. \A i \in 1..Len(h) : h[i] = g[i]
  BY <1>1, <1>2
<1> QED
  BY <1>1, <1>3 DEF ToSet

LEMMA PrefixMade ==
  ASSUME NEW S, NEW h \in Seq(S), NEW g \in Seq(S), Len(h) <= Len(g),
         \A i \in 1..Len(h) : h[i] = g[i]
  PROVE  IsPrefix(h, g)
<1>1. Len(h) \in 0..Len(h) /\ Len(h) \in 0..Len(g)
  OBVIOUS
<1> DEFINE a == SubSeq(h, 1, Len(h))
           b == SubSeq(g, 1, Len(h))
<1>2. /\ a \in Seq(S) /\ Len(a) = Len(h) /\ \A i \in 1..Len(h) : a[i] = h[i]
      /\ b \in Seq(S) /\ Len(b) = Len(h) /\ \A i \in 1..Len(h) : b[i] = g[i]
  BY <1>1, FirstType
<1> HIDE DEF a, b
<1>3. a = b
  BY <1>2, SeqEqual
<1> QED
  BY <1>3 DEF IsPrefix, a, b

LEMMA FrontType ==
  ASSUME NEW S, NEW h \in Seq(S), Len(h) > 1
  PROVE  /\ Front(h) \in Seq(S)
         /\ Len(Front(h)) = Len(h) - 1
         /\ \A i \in 1..Len(Front(h)) : Front(h)[i] = h[i]
<1>1. Len(h) - 1 \in 0..Len(h)
  OBVIOUS
<1>2. /\ SubSeq(h, 1, Len(h) - 1) \in Seq(S)
      /\ Len(SubSeq(h, 1, Len(h) - 1)) = Len(h) - 1
      /\ \A i \in 1..(Len(h) - 1) : SubSeq(h, 1, Len(h) - 1)[i] = h[i]
  BY <1>1, FirstType
<1> QED
  BY <1>2 DEF Front

-----------------------------------------------------------------------------
(* The files of a branch.                                                  *)

Writes(c, p) == p \in DOMAIN c.writes

LEMMA CommitType ==
  ASSUME NEW c \in Commit
  PROVE  /\ c.by \in Authors
         /\ DOMAIN c.writes \subseteq Paths
         /\ \A p \in Paths : Writes(c, p) => c.writes[p] \in Contents
<1>1. PICK S \in SUBSET Paths : c.writes \in [S -> Contents]
  BY DEF Commit
<1> QED
  BY <1>1 DEF Commit, Writes

(* The last commit that writes a path decides what it holds. *)
LEMMA LastWriter ==
  ASSUME NEW h \in Seq(Commit), NEW p \in Paths, NEW i \in 1..Len(h), Writes(h[i], p),
         \A j \in (i + 1)..Len(h) : ~ Writes(h[j], p)
  PROVE  Content(h, p) = h[i].writes[p]
<1> DEFINE W == Writers(h, p)
<1>1. W = {j \in 1..Len(h) : Writes(h[j], p)}
  BY DEF Writers, Writes
<1> HIDE DEF W
<1>2. W \in SUBSET (0..Len(h)) /\ W # {} /\ i \in W /\ Len(h) \in Nat
  BY <1>1
<1>3. Max(W) \in W /\ \A j \in W : j <= Max(W)
  BY <1>2, Greatest
<1>4. Max(W) \in 1..Len(h) /\ Writes(h[Max(W)], p) /\ i <= Max(W)
  BY <1>1, <1>2, <1>3
<1>5. Max(W) = i
  BY <1>4
<1> QED
  BY <1>2, <1>5 DEF Content, W

LEMMA NoWriter ==
  ASSUME NEW h \in Seq(Commit), NEW p \in Paths,
         \A j \in 1..Len(h) : ~ Writes(h[j], p)
  PROVE  Content(h, p) = "base"
  BY DEF Content, Writers, Writes

LEMMA SomeWriter ==
  ASSUME NEW h \in Seq(Commit), NEW p \in Paths,
         NEW k \in 1..Len(h), Writes(h[k], p)
  PROVE  \E i \in 1..Len(h) :
           /\ Writes(h[i], p)
           /\ \A j \in (i + 1)..Len(h) : ~ Writes(h[j], p)
           /\ Content(h, p) = h[i].writes[p]
<1> DEFINE W == Writers(h, p)
<1>1. W = {j \in 1..Len(h) : Writes(h[j], p)} /\ W # {}
  BY DEF Writers, Writes
<1> HIDE DEF W
<1>2. W \in SUBSET (0..Len(h)) /\ W # {} /\ Len(h) \in Nat
  BY <1>1
<1>3. Max(W) \in W /\ \A j \in W : j <= Max(W)
  BY <1>2, Greatest
<1>4. Max(W) \in 1..Len(h) /\ Writes(h[Max(W)], p)
  BY <1>1, <1>3
<1>5. \A j \in (Max(W) + 1)..Len(h) : ~ Writes(h[j], p)
  BY <1>1, <1>2, <1>3, <1>4
<1>6. Content(h, p) = h[Max(W)].writes[p]
  BY <1>1 DEF Content, W
<1> QED
  BY <1>4, <1>5, <1>6

LEMMA ContentWriter ==
  ASSUME NEW h \in Seq(Commit), NEW p \in Paths, Content(h, p) # "base"
  PROVE  \E i \in 1..Len(h) :
           /\ Writes(h[i], p)
           /\ \A j \in (i + 1)..Len(h) : ~ Writes(h[j], p)
           /\ Content(h, p) = h[i].writes[p]
<1>1. PICK k \in 1..Len(h) : Writes(h[k], p)
  BY NoWriter
<1> QED
  BY <1>1, SomeWriter

LEMMA FilesType ==
  ASSUME NEW h \in Seq(Commit)
  PROVE  Files(h) \in Trees
<1>1. ASSUME NEW p \in Paths PROVE Content(h, p) \in Contents
  <2>1. CASE Content(h, p) = "base"
    BY <2>1 DEF Contents
  <2>2. CASE Content(h, p) # "base"
    <3>1. PICK i \in 1..Len(h) : Writes(h[i], p) /\ Content(h, p) = h[i].writes[p]
      BY <2>2, ContentWriter
    <3>2. h[i] \in Commit
      OBVIOUS
    <3> QED
      BY <3>1, <3>2, CommitType
  <2> QED
    BY <2>1, <2>2
<1> QED
  BY <1>1 DEF Files, Trees

(* One more commit changes the paths it writes and no other. *)
LEMMA ContentAppend ==
  ASSUME NEW h \in Seq(Commit), NEW c \in Commit, NEW p \in Paths
  PROVE  Content(Append(h, c), p) =
           IF Writes(c, p) THEN c.writes[p] ELSE Content(h, p)
<1> DEFINE g == Append(h, c)
<1>1. /\ g \in Seq(Commit)
      /\ Len(g) = Len(h) + 1 /\ Len(h) \in Nat
      /\ g[Len(h) + 1] = c
      /\ \A i \in 1..Len(h) : g[i] = h[i]
  BY AppendProperties
<1> HIDE DEF g
<1>2. CASE Writes(c, p)
  <2>1. Len(h) + 1 \in 1..Len(g) /\ \A j \in (Len(h) + 1 + 1)..Len(g) : ~ Writes(g[j], p)
    BY <1>1
  <2>2. Content(g, p) = g[Len(h) + 1].writes[p]
    BY <1>1, <1>2, <2>1, LastWriter
  <2> QED
    BY <1>1, <1>2, <2>2 DEF g
<1>3. CASE ~ Writes(c, p) /\ Content(h, p) # "base"
  <2>1. PICK i \in 1..Len(h) :
          /\ Writes(h[i], p)
          /\ \A j \in (i + 1)..Len(h) : ~ Writes(h[j], p)
          /\ Content(h, p) = h[i].writes[p]
    BY <1>3, ContentWriter
  <2>2. i \in 1..Len(g) /\ g[i] = h[i]
    BY <1>1
  <2>3. \A j \in (i + 1)..Len(g) : ~ Writes(g[j], p)
    <3> TAKE j \in (i + 1)..Len(g)
    <3>1. j = Len(h) + 1 \/ (j \in (i + 1)..Len(h) /\ g[j] = h[j])
      BY <1>1
    <3> QED
      BY <1>1, <1>3, <2>1, <3>1
  <2>4. Content(g, p) = g[i].writes[p]
    BY <1>1, <2>1, <2>2, <2>3, LastWriter
  <2> QED
    BY <1>3, <2>1, <2>2, <2>4 DEF g
<1>4. CASE ~ Writes(c, p) /\ Content(h, p) = "base"
  <2>1. CASE Writers(h, p) = {}
    <3>1. \A j \in 1..Len(h) : ~ Writes(h[j], p)
      BY <2>1 DEF Writers, Writes
    <3>2. \A j \in 1..Len(g) : ~ Writes(g[j], p)
      <4> TAKE j \in 1..Len(g)
      <4>1. j = Len(h) + 1 \/ (j \in 1..Len(h) /\ g[j] = h[j])
        BY <1>1
      <4> QED
        BY <1>1, <1>4, <3>1, <4>1
    <3> QED
      BY <1>1, <1>4, <3>2, NoWriter DEF g
  <2>2. CASE Writers(h, p) # {}
    <3>1. Writers(g, p) = Writers(h, p)
      <4>1. ASSUME NEW j \in 1..Len(g), Writes(g[j], p)
            PROVE  j \in 1..Len(h) /\ Writes(h[j], p)
        BY <1>1, <1>4, <4>1
      <4>2. ASSUME NEW j \in 1..Len(h), Writes(h[j], p)
            PROVE  j \in 1..Len(g) /\ Writes(g[j], p)
        BY <1>1, <4>2
      <4> QED
        BY <1>1, <4>1, <4>2 DEF Writers, Writes
    <3>2. Max(Writers(h, p)) \in 1..Len(h)
      <4>1. Writers(h, p) \in SUBSET (0..Len(h)) /\ Writers(h, p) \subseteq 1..Len(h)
        BY DEF Writers
      <4> QED
        BY <1>1, <2>2, <4>1, Greatest
    <3> QED
      BY <1>1, <1>4, <2>2, <3>1, <3>2 DEF Content, g
  <2> QED
    BY <2>1, <2>2
<1> QED
  BY <1>2, <1>3, <1>4

(* The commit of some files over a branch holds the paths that differ, and *)
(* makes those files the ones of the branch.                               *)
LEMMA CommitOfFiles ==
  ASSUME NEW h \in Seq(Commit), NEW files \in Trees, NEW by \in Authors
  PROVE  LET c == CommitOf(by, h, files)
         IN  /\ c \in Commit /\ c.by = by
             /\ DOMAIN c.writes = {p \in Paths : files[p] # Files(h)[p]}
             /\ Append(h, c) \in Seq(Commit)
             /\ Files(Append(h, c)) = files
<1> DEFINE c == CommitOf(by, h, files)
           S == {p \in Paths : files[p] # Files(h)[p]}
<1>1. c = [by |-> by, writes |-> [p \in S |-> files[p]]]
  BY DEF CommitOf
<1> HIDE DEF c
<1>2. [p \in S |-> files[p]] \in [S -> Contents] /\ S \in SUBSET Paths
  BY DEF Trees
<1>3. c \in Commit
  <2> HIDE DEF S
  <2> QED
    BY <1>1, <1>2 DEF Commit
<1>4. Append(h, c) \in Seq(Commit)
  BY <1>3, AppendProperties
<1>5. ASSUME NEW p \in Paths PROVE Content(Append(h, c), p) = files[p]
  <2>1. Content(Append(h, c), p) = IF Writes(c, p) THEN c.writes[p] ELSE Content(h, p)
    BY <1>3, ContentAppend
  <2> QED
    BY <1>1, <2>1 DEF Writes, Files
<1>6. Files(Append(h, c)) = files
  BY <1>5 DEF Files, Trees
<1> QED
  BY <1>1, <1>3, <1>4, <1>6 DEF c

-----------------------------------------------------------------------------
(* The inductive invariant.                                                *)

Before == {"queued", "preflight", "prompt", "agent", "probe", "commit"}
Extending == {"push", "fetch", "rebase"}
After  == Extending \cup {"repush", "force"}

(* Until the workflow pushes, a branch holds commits of others only, and   *)
(* origin has it if the checkout knows it.                                 *)
Branches ==
  /\ job.phase # "done" => remote \in Seq(DevCommit) \cup {NoBranch}
  /\ repo.tracking \in Seq(DevCommit) \cup {NoBranch}
  /\ job.seen \in Seq(DevCommit)
  /\ job.phase # "done" => (remote = NoBranch <=> repo.tracking = NoBranch)
  /\ NoBranch \notin Remotes => repo.tracking # NoBranch
  /\ job.phase # "done" => job.reply = "none"

(* Where the commits of the checkout come from: until a rebase, those of   *)
(* others are where the checkout had them.                                 *)
Placed(history, authors) ==
  \A i \in 1..Len(history) :
    history[i].by \in authors \/ (i <= Len(job.seen) /\ history[i] = job.seen[i])

Own(history) == Placed(history, {"agent"})

Extended(history) ==
  /\ Len(job.seen) <= Len(history)
  /\ \A i \in 1..Len(job.seen) : history[i] = job.seen[i]

Known(history, others) ==
  \A c \in ToSet(history) : c.by # "dev" \/ c \in ToSet(job.seen) \/ c \in others

Fetched ==
  /\ repo.tracking # NoBranch
  /\ Len(repo.tracking) <= Len(remote)

Rebased ==
  /\ Len(repo.tracking) <= Len(repo.head)
  /\ \A i \in 1..Len(repo.tracking) : repo.head[i] = repo.tracking[i]
  /\ Known(repo.head, ToSet(repo.tracking))

Heads ==
  /\ job.phase = "preflight" => repo.head = job.seen
  /\ job.phase \in {"prompt", "agent", "probe", "commit"} => job.before = job.seen
  /\ job.phase \in Before => Own(repo.head)
  /\ job.phase \in Extending \cup {"force"} => Placed(repo.head, {"agent", "dotbot"})
  /\ job.phase \in Extending => Extended(repo.head)
  /\ job.phase \in {"rebase", "repush"} => Fetched
  /\ job.phase = "repush" => Rebased

(* If nobody pushes before the preflight, the lease is on what was seen. *)
Quiet == QuietCheckout /\ "review_comment" \notin Triggers

Leased ==
  /\ Quiet /\ job.phase = "preflight" /\ remote # NoBranch => remote = job.seen
  /\ job.phase \notin {"queued", "preflight", "done"} =>
       /\ job.lease = NoBranch => remote = NoBranch
       /\ Quiet /\ job.lease # NoBranch => job.lease = job.seen

(* What the agent changed differs from what the user left, so that the     *)
(* comparison with the snapshot finds it.                                  *)
Worked ==
  /\ job.phase \in {"queued", "preflight"} => job.dirty = {}
  /\ job.phase \in {"queued", "preflight", "prompt"} => job.work = {}
  /\ \A p \in job.dirty : job.snapshot[p] = "user"
  /\ job.phase \in Before => \A p \in job.work \cap Dirty(repo) : repo.tree[p] # "user"
  /\ job.phase = "preflight" => \A p \in Dirty(repo) : repo.tree[p] = "user"
  /\ job.phase \in {"probe", "commit"} => job.made = repo.tree
  /\ job.phase = "commit" => job.touched = Touched

(* Unless the user staged something, what is staged is the agent's work. *)
StagedOwn ==
  ~Staged /\ job.phase \in Before =>
    \A p \in Paths : repo.index[p] # Files(repo.head)[p] => p \in job.work

(* From its commit on, the agent's work is in the commits to be pushed. *)
Landing ==
  /\ job.phase \in Extending \cup {"force"} =>
       \A p \in job.work : Files(repo.head)[p] = job.made[p]
  /\ job.phase = "repush" =>
       \A p \in job.work :
         job.made[p] # Files(job.seen)[p] => Files(repo.head)[p] = job.made[p]

(* Until the run ends or a rebase stops, the user's changes are in place; a*)
(* rebase that has stopped can be aborted to where they are.               *)
Safe ==
  /\ job.phase \notin {"abort", "done"} =>
       \A p \in job.dirty \ job.work : repo.tree[p] = job.snapshot[p]
  /\ job.phase = "abort" =>
       /\ repo.rebasing
       /\ \A p \in job.dirty \ job.work :
            IF p \in Dirty(repo) THEN repo.tree[p] = job.snapshot[p]
            ELSE Files(repo.orig)[p] = job.snapshot[p]
       /\ ~Staged => \A c \in ToSet(repo.orig) :
            c.by = "dotbot" => DOMAIN c.writes \subseteq job.touched

Promises ==
  /\ PushedMeansLanded
  /\ NoBranch \notin Remotes => NoChangesMeansNone
  /\ ~Staged => CommitsOnlyTouched
  /\ UserChangesStay

Inv ==
  /\ TypeOK /\ Branches /\ Heads /\ Leased /\ Worked /\ StagedOwn /\ Landing
  /\ Safe /\ Promises

-----------------------------------------------------------------------------
(* Facts the steps share.                                                  *)

LEMMA OthersCommits ==
  /\ DevCommit \subseteq Commit
  /\ Seq(DevCommit) \subseteq Seq(Commit)
  /\ \A c \in DevCommit : c.by = "dev"
  /\ NoBranch \notin Seq(DevCommit)
<1>1. DevCommit \subseteq Commit
  BY DEF DevCommit
<1>2. Seq(DevCommit) \subseteq Seq(Commit)
  BY <1>1, SeqMonotonic
<1> QED
  BY <1>1, <1>2, BranchAssumption DEF DevCommit

LEMMA Types ==
  ASSUME TypeOK
  PROVE  /\ remote \in History /\ repo \in RepoState /\ job \in JobState
         /\ repo.head \in Seq(Commit) /\ repo.orig \in Seq(Commit)
         /\ Files(repo.head) \in Trees /\ Files(job.seen) \in Trees
         /\ repo.index \in Trees /\ repo.tree \in Trees
  BY FilesType DEF TypeOK, RepoState, JobState

(* The paths of a run, wherever it stands. *)
LEMMA OwnedByOthers ==
  ASSUME Inv
  PROVE  \A i \in 1..Len(job.seen) : job.seen[i].by = "dev"
<1>1. job.seen \in Seq(DevCommit)
  BY DEF Inv, Branches
<1> QED
  BY <1>1, OthersCommits

(* The checkout of another commit. *)
LEMMA MovedFacts ==
  ASSUME NEW r \in RepoState, NEW h \in Seq(Commit)
  PROVE  LET s == Moved(r, h)
         IN  /\ s \in RepoState /\ s.head = h /\ s.tracking = r.tracking
             /\ s.rebasing = r.rebasing /\ s.orig = r.orig
             /\ \A p \in Paths :
                  IF p \in Dirty(r) THEN s.index[p] = r.index[p] /\ s.tree[p] = r.tree[p]
                  ELSE s.index[p] = Files(h)[p] /\ s.tree[p] = Files(h)[p]
<1> DEFINE Over(tree) == [p \in Paths |-> IF p \in Dirty(r) THEN tree[p] ELSE Files(h)[p]]
           s == Moved(r, h)
<1>1. r.index \in Trees /\ r.tree \in Trees /\ Files(h) \in Trees
  BY FilesType DEF RepoState
<1>2. Over(r.index) \in Trees /\ Over(r.tree) \in Trees
  BY <1>1 DEF Trees
<1>3. s = [r EXCEPT !.head = h, !.index = Over(r.index), !.tree = Over(r.tree)]
  BY DEF Moved, RepoState
<1> HIDE DEF s
<1>4. s.index = Over(r.index) /\ s.tree = Over(r.tree) /\ s.head = h
      /\ s.tracking = r.tracking /\ s.rebasing = r.rebasing /\ s.orig = r.orig
  BY <1>3 DEF RepoState
<1>5. s \in RepoState
  <2> HIDE DEF Over
  <2> QED
    BY <1>2, <1>3 DEF RepoState
<1> QED
  BY <1>4, <1>5 DEF s

(* The end of a run leaves the checkout as it is. *)
LEMMA Finishes ==
  ASSUME Inv, job.phase # "done", NEW exit \in 0..2, NEW reply \in Replies,
         NEW landed \in History,
         job' = [job EXCEPT !.phase = "done", !.exit = exit, !.reply = reply,
                            !.landed = landed],
         repo' \in RepoState, repo'.tracking = repo.tracking, remote' \in History,
         PushedMeansLanded', NoBranch \notin Remotes => NoChangesMeansNone',
         ~Staged => CommitsOnlyTouched', UserChangesStay'
  PROVE  Inv'
<1>1. job \in JobState
  BY DEF Inv, TypeOK
<1>2. /\ job' \in JobState /\ job'.phase = "done"
      /\ job'.seen = job.seen /\ job'.dirty = job.dirty /\ job'.work = job.work
      /\ job'.snapshot = job.snapshot /\ job'.touched = job.touched
  BY <1>1 DEF JobState, Phases
<1>3. TypeOK'
  BY <1>2 DEF TypeOK
<1>4. Branches'
  BY <1>2 DEF Inv, Branches
<1>5. Heads' /\ Leased' /\ StagedOwn' /\ Landing' /\ Safe'
  BY <1>2 DEF Heads, Leased, StagedOwn, Landing, Safe, Before, Extending
<1>6. Worked'
  BY <1>2 DEF Inv, Worked, Before
<1> QED
  BY <1>3, <1>4, <1>5, <1>6 DEF Inv, Promises

(* Most ends are neither of the two replies that promise something. *)
LEMMA EndsWith ==
  ASSUME Inv, job.phase # "done", NEW exit \in 0..2,
         NEW reply \in Replies \ {"pushed", "no changes"}, End(exit, reply),
         repo' \in RepoState, repo'.tracking = repo.tracking, UNCHANGED remote,
         ~Staged => \A c \in ToSet(repo'.head) :
           c.by = "dotbot" => DOMAIN c.writes \subseteq job.touched,
         \A p \in job.dirty \ job.work :
           \/ repo'.tree[p] = job.snapshot[p]
           \/ repo'.rebasing /\ Files(repo'.orig)[p] = job.snapshot[p]
  PROVE  Inv'
<1>1. job \in JobState /\ remote \in History
  BY DEF Inv, TypeOK
<1>2. /\ job' = [job EXCEPT !.phase = "done", !.exit = exit, !.reply = reply,
                            !.landed = job.landed]
      /\ job'.reply = reply /\ job.landed \in History
      /\ job'.dirty = job.dirty /\ job'.work = job.work /\ job'.snapshot = job.snapshot
      /\ job'.touched = job.touched
  BY <1>1 DEF End, JobState
<1>3. PushedMeansLanded' /\ NoChangesMeansNone'
  BY <1>2 DEF PushedMeansLanded, NoChangesMeansNone
<1>4. (~Staged => CommitsOnlyTouched') /\ UserChangesStay'
  BY <1>2 DEF CommitsOnlyTouched, UserChangesStay
<1> QED
  BY <1>1, <1>2, <1>3, <1>4, Finishes

LEMMA ExitCodes == 0 \in 0..2 /\ 1 \in 0..2 /\ 2 \in 0..2
  OBVIOUS

(* A git command that fails, or is killed, wherever it leaves the checkout.*)
LEMMA GitFails ==
  ASSUME Inv, job.phase # "done", End(2, "git failed") \/ Killed,
         repo' \in RepoState, repo'.tracking = repo.tracking, UNCHANGED remote,
         ~Staged => \A c \in ToSet(repo'.head) :
           c.by = "dotbot" => DOMAIN c.writes \subseteq job.touched,
         \A p \in job.dirty \ job.work :
           \/ repo'.tree[p] = job.snapshot[p]
           \/ repo'.rebasing /\ Files(repo'.orig)[p] = job.snapshot[p]
  PROVE  Inv'
<1>1. job \in JobState /\ job.reply = "none"
  BY DEF Inv, TypeOK, Branches
<1>2. /\ 2 \in 0..2
      /\ "none" \in Replies \ {"pushed", "no changes"}
      /\ "git failed" \in Replies \ {"pushed", "no changes"}
  BY ExitCodes DEF Replies
<1>3. CASE End(2, "git failed")
  BY <1>1, <1>2, <1>3, EndsWith
<1>4. CASE Killed
  <2>1. End(2, "none")
    BY <1>1, <1>4 DEF Killed, Raise, End, JobState
  <2> QED
    BY <1>1, <1>2, <2>1, EndsWith
<1> QED
  BY <1>3, <1>4

LEMMA EndsSilently ==
  ASSUME Inv, job.phase # "done", NEW exit \in 0..2,
         NEW reply \in Replies \ {"pushed", "no changes"},
         End(exit, reply), UNCHANGED <<remote, repo>>
  PROVE  Inv'
<1>1. repo' \in RepoState /\ repo'.tracking = repo.tracking /\ UNCHANGED remote
  BY DEF Inv, TypeOK
<1>2. ~Staged => \A c \in ToSet(repo'.head) :
        c.by = "dotbot" => DOMAIN c.writes \subseteq job.touched
  BY DEF Inv, Promises, CommitsOnlyTouched
<1>3. \A p \in job.dirty \ job.work :
        \/ repo'.tree[p] = job.snapshot[p]
        \/ repo'.rebasing /\ Files(repo'.orig)[p] = job.snapshot[p]
  BY DEF Inv, Promises, UserChangesStay
<1> QED
  BY <1>1, <1>2, <1>3, EndsWith

LEMMA RaisesSilently ==
  ASSUME Inv, job.phase # "done", NEW exit \in 0..2,
         Raise(exit), UNCHANGED <<remote, repo>>
  PROVE  Inv'
<1>1. job \in JobState /\ job.reply = "none"
  BY DEF Inv, TypeOK, Branches
<1>2. End(exit, "none")
  BY <1>1 DEF Raise, End, JobState
<1> QED
  BY <1>2, EndsSilently DEF Replies

LEMMA KilledSilently ==
  ASSUME Inv, job.phase # "done", Killed, UNCHANGED <<remote, repo>>
  PROVE  Inv'
  BY RaisesSilently DEF Killed

EndedSilently ==
  \/ End(2, "rebase in progress") \/ End(2, "probe failed") \/ End(2, "git failed")
  \/ End(2, "failed") \/ End(1, "failed")
  \/ End(0, "nothing to address") \/ End(0, "dry-run")
  \/ Raise(1) \/ Killed

LEMMA SilentEnd ==
  ASSUME Inv, job.phase # "done", EndedSilently, UNCHANGED <<remote, repo>>
  PROVE  Inv'
<1>1. 0 \in 0..2 /\ 1 \in 0..2 /\ 2 \in 0..2
  OBVIOUS
<1>2. {"rebase in progress", "probe failed", "git failed", "failed",
       "nothing to address", "dry-run"} \subseteq Replies \ {"pushed", "no changes"}
  BY DEF Replies
<1>3. ASSUME NEW exit \in {0, 1, 2},
             NEW reply \in {"rebase in progress", "probe failed", "git failed",
                            "failed", "nothing to address", "dry-run"},
             End(exit, reply)
      PROVE  Inv'
  BY <1>1, <1>2, <1>3, EndsSilently
<1>4. Raise(1) => Inv'
  BY <1>1, RaisesSilently
<1>5. Killed => Inv'
  BY KilledSilently
<1> QED
  BY <1>3, <1>4, <1>5 DEF EndedSilently

-----------------------------------------------------------------------------
(* One lemma per action.                                                   *)

LEMMA InitInv ==
  ASSUME Init
  PROVE  Inv
<1>1. Base \in Seq(DevCommit) /\ Base # <<>> /\ Base \in Seq(Commit) /\ NoBranch # Base
  BY BranchAssumption, OthersCommits
<1>2. Files(Base) \in Trees
  BY <1>1, FilesType
<1>3. remote \in Seq(DevCommit) \cup {NoBranch} /\ remote \in History
  BY <1>1, BranchAssumption DEF Init, History
<1>4. TypeOK
  <2>1. repo \in RepoState
    BY <1>1, <1>2, <1>3 DEF Init, RepoState
  <2>2. job \in JobState
    BY <1>1, <1>2, ConfigAssumption DEF Init, JobState, Phases, Replies, History
  <2> QED
    BY <1>3, <2>1, <2>2 DEF TypeOK
<1>5. Branches
  BY <1>1, <1>3, BranchAssumption DEF Init, Branches
<1>6. /\ job.phase = "queued" /\ job.reply = "none" /\ job.dirty = {} /\ job.work = {}
      /\ repo.head = job.seen /\ repo.index = Files(repo.head)
  BY DEF Init
<1>7. Heads
  <2>1. Own(repo.head)
    BY <1>6 DEF Own, Placed
  <2> QED
    BY <1>6, <2>1 DEF Heads, Extending
<1>8. Leased /\ StagedOwn /\ Landing /\ Safe
  BY <1>6 DEF Leased, StagedOwn, Landing, Safe, Extending
<1>9. Worked
  BY <1>6 DEF Worked
<1>10. Promises
  <2>1. \A c \in ToSet(repo.head) : c.by = "dev"
    BY <1>1, OthersCommits DEF Init, ToSet
  <2> QED
    BY <1>6, <2>1 DEF Promises, PushedMeansLanded, NoChangesMeansNone,
                      CommitsOnlyTouched, UserChangesStay
<1> QED
  BY <1>4, <1>5, <1>7, <1>8, <1>9, <1>10 DEF Inv

(* Others append to the branch, or replace its last commit. *)
LEMMA DevPushBranch ==
  ASSUME Inv, DevPush
  PROVE  remote' \in Seq(DevCommit) /\ Len(remote) <= Len(remote')
<1>1. remote \in Seq(DevCommit)
  BY DEF Inv, Branches, DevPush
<1>2. PICK c \in DevCommits :
        \/ remote' = Append(remote, c)
        \/ Len(remote) > 1 /\ remote' = Append(Front(remote), c)
  BY DEF DevPush
<1>3. c \in DevCommit
  BY BranchAssumption
<1>4. CASE remote' = Append(remote, c)
  BY <1>1, <1>3, <1>4, AppendProperties
<1>5. CASE Len(remote) > 1 /\ remote' = Append(Front(remote), c)
  <2>1. Front(remote) \in Seq(DevCommit) /\ Len(Front(remote)) = Len(remote) - 1
    BY <1>1, <1>5, FrontType
  <2> QED
    BY <1>3, <1>5, <2>1, AppendProperties
<1> QED
  BY <1>2, <1>4, <1>5

LEMMA DevPushKeeps ==
  ASSUME Inv, DevPush
  PROVE  Inv'
<1>1. /\ remote' \in Seq(DevCommit) /\ Len(remote) <= Len(remote')
      /\ remote \in Seq(DevCommit) /\ UNCHANGED <<repo, job>>
      /\ remote # NoBranch /\ remote' # NoBranch
  BY DevPushBranch, OthersCommits DEF Inv, Branches, DevPush
<1>2. TypeOK'
  BY <1>1, OthersCommits DEF Inv, TypeOK, History
<1>3. Branches'
  BY <1>1 DEF Inv, Branches
<1>4. Heads'
  <2>1. Fetched => Fetched'
    <3>1. repo.tracking # NoBranch => Len(repo.tracking) \in Nat
      BY DEF Inv, Branches
    <3> QED
      BY <1>1, <3>1 DEF Fetched
  <2>2. Rebased => Rebased'
    BY <1>1 DEF Rebased, Known
  <2> QED
    BY <1>1, <2>1, <2>2 DEF Inv, Heads, Own, Placed, Extended
<1>5. Leased'
  BY <1>1 DEF Inv, Leased, Quiet, DevPush
<1>6. Worked' /\ StagedOwn' /\ Landing' /\ Safe'
  BY <1>1 DEF Inv, Worked, StagedOwn, Landing, Safe, Touched, Dirty
<1>7. Promises'
  BY <1>1 DEF Inv, Promises, PushedMeansLanded, NoChangesMeansNone,
              CommitsOnlyTouched, UserChangesStay
<1> QED
  BY <1>2, <1>3, <1>4, <1>5, <1>6, <1>7 DEF Inv

LEMMA CheckoutKeeps ==
  ASSUME Inv, Checkout
  PROVE  Inv'
<1>1. PICK trigger \in Triggers, dry \in DryRuns :
        LET head == IF trigger = "review_comment" \/ remote = NoBranch THEN Base ELSE remote
            Left(S) == [p \in Paths |-> IF p \in S THEN "user" ELSE Files(head)[p]]
        IN  \E changed \in SUBSET Paths, rebasing \in BOOLEAN : \E staged \in SUBSET changed :
              /\ trigger # "local" => changed = {} /\ ~rebasing
              /\ ~Staged => staged = {}
              /\ repo' = [head |-> head, tracking |-> remote, index |-> Left(staged),
                          tree |-> Left(changed), rebasing |-> rebasing,
                          orig |-> head]
              /\ job' = [job EXCEPT !.phase = "preflight", !.trigger = trigger,
                                    !.dry = dry, !.seen = head]
  BY DEF Checkout
<1> DEFINE head == IF trigger = "review_comment" \/ remote = NoBranch THEN Base ELSE remote
           Left(S) == [p \in Paths |-> IF p \in S THEN "user" ELSE Files(head)[p]]
<1>2. PICK changed \in SUBSET Paths, rebasing \in BOOLEAN : \E staged \in SUBSET changed :
              /\ trigger # "local" => changed = {} /\ ~rebasing
              /\ ~Staged => staged = {}
              /\ repo' = [head |-> head, tracking |-> remote, index |-> Left(staged),
                          tree |-> Left(changed), rebasing |-> rebasing,
                          orig |-> head]
              /\ job' = [job EXCEPT !.phase = "preflight", !.trigger = trigger,
                                    !.dry = dry, !.seen = head]
  BY <1>1
<1>3. PICK staged \in SUBSET changed :
              /\ trigger # "local" => changed = {} /\ ~rebasing
              /\ ~Staged => staged = {}
              /\ repo' = [head |-> head, tracking |-> remote, index |-> Left(staged),
                          tree |-> Left(changed), rebasing |-> rebasing,
                          orig |-> head]
              /\ job' = [job EXCEPT !.phase = "preflight", !.trigger = trigger,
                                    !.dry = dry, !.seen = head]
  BY <1>2
<1>4. /\ job \in JobState /\ job.phase = "queued" /\ UNCHANGED remote
      /\ remote \in Seq(DevCommit) \cup {NoBranch}
      /\ job.dirty = {} /\ job.work = {} /\ job.reply = "none"
  BY DEF Checkout, Inv, TypeOK, Branches, Worked
<1>5. head \in Seq(DevCommit) /\ head \in Seq(Commit)
  BY <1>4, BranchAssumption, OthersCommits
<1>6. head = remote \/ remote = NoBranch \/ trigger = "review_comment"
  OBVIOUS
<1> HIDE DEF head
<1>7. Files(head) \in Trees
  BY <1>5, FilesType
<1>8. \A S \in SUBSET Paths : Left(S) \in Trees
  BY <1>7 DEF Trees, Contents
<1>9. /\ job' \in JobState
      /\ job'.phase = "preflight" /\ job'.seen = head
      /\ job'.dirty = {} /\ job'.work = {} /\ job'.reply = "none"
      /\ job'.snapshot = job.snapshot
  BY <1>3, <1>4, <1>5, ConfigAssumption DEF JobState, Phases
<1>10. repo' \in RepoState
  <2> HIDE DEF Left
  <2>1. remote \in History
    BY <1>4, OthersCommits DEF History
  <2> QED
    BY <1>3, <1>5, <1>8, <2>1 DEF RepoState
<1>11. TypeOK'
  BY <1>4, <1>9, <1>10, OthersCommits DEF TypeOK, History
<1>12. /\ repo'.head = head /\ repo'.tracking = remote
       /\ repo'.index = Left(staged) /\ repo'.tree = Left(changed)
  BY <1>3
<1>13. Branches'
  BY <1>4, <1>5, <1>9, <1>12 DEF Inv, Branches
<1>14. Heads' /\ Landing' /\ Safe'
  <2>1. Own(repo.head)'
    BY <1>9, <1>12 DEF Own, Placed
  <2> QED
    BY <1>9, <1>12, <2>1 DEF Heads, Landing, Safe, Extending
<1>15. Leased'
  BY <1>4, <1>6, <1>9 DEF Leased, Quiet
<1>16. Worked'
  <2>1. \A p \in Dirty(repo)' : repo'.tree[p] = "user"
    BY <1>12 DEF Dirty
  <2> QED
    BY <1>9, <2>1 DEF Worked
<1>17. StagedOwn'
  <2>1. ~Staged => repo'.index = Left({})
    BY <1>3, <1>12
  <2> QED
    BY <1>12, <2>1 DEF StagedOwn
<1>18. Promises'
  <2>1. \A c \in ToSet(head) : c.by = "dev"
    BY <1>5, OthersCommits DEF ToSet
  <2> QED
    BY <1>9, <1>12, <2>1 DEF Promises, PushedMeansLanded, NoChangesMeansNone,
                             CommitsOnlyTouched, UserChangesStay
<1> QED
  BY <1>11, <1>13, <1>14, <1>15, <1>16, <1>17, <1>18 DEF Inv

LEMMA PreflightKeeps ==
  ASSUME Inv, Preflight
  PROVE  Inv'
<1>1. CASE /\ ~repo.rebasing
           /\ job' = [job EXCEPT !.phase = "prompt", !.before = repo.head, !.lease = remote,
                                 !.snapshot = repo.tree, !.dirty = Dirty(repo)]
  <2>1. /\ job \in JobState /\ job.phase = "preflight" /\ UNCHANGED <<remote, repo>>
        /\ repo \in RepoState /\ remote \in History
        /\ job.work = {} /\ job.reply = "none"
    BY DEF Preflight, Inv, TypeOK, Branches, Worked
  <2>2. /\ job' \in JobState /\ job'.phase = "prompt" /\ job'.lease = remote
        /\ job'.snapshot = repo.tree /\ job'.dirty = Dirty(repo)
        /\ job'.work = {} /\ job'.seen = job.seen /\ job'.reply = "none"
        /\ job'.touched = job.touched
    BY <1>1, <2>1 DEF JobState, RepoState, Phases, Dirty
  <2>3. TypeOK' /\ Branches'
    BY <2>1, <2>2 DEF Inv, TypeOK, Branches
  <2>4. Heads' /\ Landing' /\ StagedOwn' /\ Safe'
    <3>1. job'.before = repo.head
      BY <1>1, <2>1 DEF JobState
    <3>2. Own(repo.head) /\ repo.head = job.seen
      BY <2>1 DEF Inv, Heads, Before
    <3>3. Own(repo.head)'
      BY <2>1, <2>2, <3>2 DEF Own, Placed
    <3> QED
      BY <2>1, <2>2, <3>1, <3>2, <3>3 DEF Inv, Heads, Landing, StagedOwn, Safe,
                                         Before, Extending
  <2>5. Leased'
    BY <2>1, <2>2 DEF Inv, Leased, Quiet
  <2>6. Worked'
    BY <2>1, <2>2 DEF Inv, Worked
  <2>7. Promises'
    BY <2>1, <2>2 DEF Inv, Promises, PushedMeansLanded, NoChangesMeansNone,
                      CommitsOnlyTouched, UserChangesStay
  <2> QED
    BY <2>3, <2>4, <2>5, <2>6, <2>7 DEF Inv
<1>2. CASE repo.rebasing /\ End(2, "rebase in progress")
  BY <1>2, SilentEnd DEF EndedSilently, Preflight
<1>3. CASE "probe" \in Faults /\ End(2, "probe failed")
  BY <1>3, SilentEnd DEF EndedSilently, Preflight
<1>4. CASE "github" \in Faults /\ Raise(1)
  BY <1>4, SilentEnd DEF EndedSilently, Preflight
<1>5. CASE Killed
  BY <1>5, SilentEnd DEF EndedSilently, Preflight
<1> QED
  BY <1>1, <1>2, <1>3, <1>4, <1>5 DEF Preflight

(* A step of the phase alone, up to the agent's end. *)
LEMMA Proceeds ==
  ASSUME Inv, NEW next \in {"agent", "probe"}, NEW made \in Trees,
         job.phase \in {"prompt", "agent"}, next = "probe" => made = repo.tree,
         job' = [job EXCEPT !.phase = next, !.made = made], UNCHANGED <<remote, repo>>
  PROVE  Inv'
<1>1. /\ job \in JobState /\ repo \in RepoState
      /\ job' \in JobState /\ job'.phase = next /\ job'.seen = job.seen
      /\ job'.work = job.work /\ job'.dirty = job.dirty /\ job'.snapshot = job.snapshot
      /\ job'.touched = job.touched /\ job'.lease = job.lease /\ job'.reply = job.reply
      /\ job'.landed = job.landed /\ job'.before = job.before /\ job'.made = made
  BY DEF Inv, TypeOK, JobState, Phases
<1>2. TypeOK' /\ Branches'
  BY <1>1 DEF Inv, TypeOK, Branches
<1>3. Heads'
  <2>1. Own(repo.head) /\ job.before = job.seen
    BY DEF Inv, Heads, Before
  <2>2. Own(repo.head)'
    BY <1>1, <2>1 DEF Own, Placed
  <2> QED
    BY <1>1, <2>1, <2>2 DEF Heads, Extending
<1>4. Landing' /\ StagedOwn' /\ Worked' /\ Safe'
  BY <1>1 DEF Inv, Landing, StagedOwn, Worked, Safe, Before, Extending, Dirty
<1>5. Leased'
  BY <1>1 DEF Inv, Leased
<1>6. Promises'
  <2>1. job.reply = "none" /\ job'.reply = "none"
    BY <1>1 DEF Inv, Branches
  <2>2. PushedMeansLanded' /\ NoChangesMeansNone'
    BY <2>1 DEF PushedMeansLanded, NoChangesMeansNone
  <2>3. (~Staged => CommitsOnlyTouched') /\ UserChangesStay'
    BY <1>1 DEF Inv, Promises, CommitsOnlyTouched, UserChangesStay
  <2> QED
    BY <2>2, <2>3 DEF Promises
<1> QED
  BY <1>2, <1>3, <1>4, <1>5, <1>6 DEF Inv

LEMMA PreparePromptKeeps ==
  ASSUME Inv, PreparePrompt
  PROVE  Inv'
<1>1. CASE job' = [job EXCEPT !.phase = "agent"]
  <2>1. job.made \in Trees /\ job' = [job EXCEPT !.phase = "agent", !.made = job.made]
    BY <1>1 DEF Inv, TypeOK, JobState
  <2> QED
    BY <2>1, Proceeds DEF PreparePrompt
<1>2. CASE End(0, "nothing to address")
  BY <1>2, SilentEnd DEF EndedSilently, PreparePrompt
<1>3. CASE "github" \in Faults /\ End(2, "failed")
  BY <1>3, SilentEnd DEF EndedSilently, PreparePrompt
<1> QED
  BY <1>1, <1>2, <1>3 DEF PreparePrompt

LEMMA AgentEndsKeeps ==
  ASSUME Inv, AgentEnds
  PROVE  Inv'
<1>1. CASE job' = [job EXCEPT !.phase = "probe", !.made = repo.tree]
  <2>1. repo.tree \in Trees
    BY DEF Inv, TypeOK, RepoState
  <2> QED
    BY <1>1, <2>1, Proceeds DEF AgentEnds
<1>2. CASE "agent" \in Faults /\ End(1, "failed")
  BY <1>2, SilentEnd DEF EndedSilently, AgentEnds
<1> QED
  BY <1>1, <1>2 DEF AgentEnds

(* What the tools have in common. *)
LEMMA ToolKeeps ==
  ASSUME Inv, NEW tool, NEW changed \in SUBSET Paths, UseTool(tool, changed),
         repo' \in RepoState, repo'.tracking = repo.tracking,
         Own(repo'.head),
         \A p \in (job.work \cup changed) \cap Dirty(repo') : repo'.tree[p] # "user",
         \A p \in Paths \ changed : repo'.tree[p] = repo.tree[p],
         ~Staged => \A p \in Paths :
           repo'.index[p] # Files(repo'.head)[p] => p \in job.work \cup changed
  PROVE  Inv'
<1>1. /\ job \in JobState /\ job.phase = "agent" /\ UNCHANGED remote
      /\ job' = [job EXCEPT !.tools = @ + 1, !.work = @ \cup changed]
      /\ job.tools < MaxTools /\ job.reply = "none"
  BY DEF UseTool, Inv, TypeOK, Branches
<1>2. job.tools + 1 \in 0..MaxTools
  BY <1>1, ConfigAssumption DEF JobState
<1>3. /\ job' \in JobState /\ job'.phase = "agent" /\ job'.seen = job.seen
      /\ job'.work = job.work \cup changed
      /\ job'.dirty = job.dirty /\ job'.snapshot = job.snapshot
      /\ job'.touched = job.touched /\ job'.lease = job.lease /\ job'.reply = "none"
      /\ job'.before = job.before
  BY <1>1, <1>2 DEF JobState
<1>4. TypeOK' /\ Branches'
  BY <1>1, <1>3 DEF Inv, TypeOK, Branches
<1>5. Heads'
  <2>1. Own(repo.head)'
    BY <1>3 DEF Own, Placed
  <2>2. job.before = job.seen
    BY <1>1 DEF Inv, Heads
  <2> QED
    BY <1>3, <2>1, <2>2 DEF Heads, Extending
<1>6. Landing' /\ StagedOwn'
  BY <1>3 DEF Landing, StagedOwn, Before, Extending
<1>7. Leased'
  BY <1>1, <1>3 DEF Inv, Leased
<1>8. Worked'
  BY <1>1, <1>3 DEF Inv, Worked
<1>9. \A p \in job.dirty \ (job.work \cup changed) : repo'.tree[p] = job.snapshot[p]
  <2> TAKE p \in job.dirty \ (job.work \cup changed)
  <2>1. p \in Paths
    BY <1>1 DEF JobState
  <2> QED
    BY <1>1, <2>1 DEF Inv, Safe
<1>10. Safe'
  BY <1>3, <1>9 DEF Safe
<1>11. Promises'
  <2>1. \A c \in ToSet(repo'.head) : c.by # "dotbot"
    BY OwnedByOthers DEF Own, Placed, ToSet
  <2>2. CommitsOnlyTouched'
    BY <2>1 DEF CommitsOnlyTouched
  <2>3. UserChangesStay'
    BY <1>3, <1>9 DEF UserChangesStay
  <2> QED
    BY <1>3, <2>2, <2>3 DEF Promises, PushedMeansLanded, NoChangesMeansNone
<1> QED
  BY <1>4, <1>5, <1>6, <1>7, <1>8, <1>10, <1>11 DEF Inv

(* The state of a run during the agent's turn. *)
LEMMA Turn ==
  ASSUME Inv, job.phase = "agent"
  PROVE  /\ Own(repo.head)
         /\ \A p \in job.work \cap Dirty(repo) : repo.tree[p] # "user"
         /\ ~Staged => \A p \in Paths :
              repo.index[p] # Files(repo.head)[p] => p \in job.work
         /\ repo \in RepoState /\ repo.head \in Seq(Commit)
         /\ repo.tree \in Trees /\ repo.index \in Trees
         /\ job.work \subseteq Paths
  BY DEF Inv, Heads, Worked, StagedOwn, Before, TypeOK, RepoState, JobState

LEMMA AgentWritesKeeps ==
  ASSUME Inv, NEW p \in Paths, AgentWrites(p)
  PROVE  Inv'
<1>1. job.phase = "agent" /\ UseTool("write", {p})
      /\ repo' = [repo EXCEPT !.tree[p] = "agent"]
  BY DEF AgentWrites, UseTool
<1>2. /\ repo.tree \in Trees /\ repo.tree \in [Paths -> Contents]
      /\ repo \in RepoState /\ "agent" \in Contents
  BY <1>1, Turn DEF Trees, Contents
<1>3. /\ repo' \in RepoState /\ repo'.tracking = repo.tracking
      /\ repo'.head = repo.head /\ repo'.index = repo.index
      /\ repo'.tree = [repo.tree EXCEPT ![p] = "agent"]
  <2>1. [repo.tree EXCEPT ![p] = "agent"] \in Trees
    BY <1>2 DEF Trees
  <2> QED
    BY <1>1, <1>2, <2>1 DEF RepoState
<1>4. repo'.tree[p] = "agent" /\ \A x \in Paths \ {p} : repo'.tree[x] = repo.tree[x]
  BY <1>2, <1>3
<1>5. \A x \in (job.work \cup {p}) \cap Dirty(repo') : repo'.tree[x] # "user"
  BY <1>1, <1>3, <1>4, Turn DEF Dirty
<1> QED
  BY <1>1, <1>3, <1>4, <1>5, Turn, ToolKeeps

LEMMA AgentRemovesKeeps ==
  ASSUME Inv, NEW p \in Paths, AgentRemoves(p)
  PROVE  Inv'
<1>1. job.phase = "agent" /\ UseTool("remove", {p})
      /\ repo' = [repo EXCEPT !.tree[p] = "absent"]
  BY DEF AgentRemoves, UseTool
<1>2. /\ repo.tree \in Trees /\ repo.tree \in [Paths -> Contents]
      /\ repo \in RepoState /\ "absent" \in Contents
  BY <1>1, Turn DEF Trees, Contents
<1>3. /\ repo' \in RepoState /\ repo'.tracking = repo.tracking
      /\ repo'.head = repo.head /\ repo'.index = repo.index
      /\ repo'.tree = [repo.tree EXCEPT ![p] = "absent"]
  <2>1. [repo.tree EXCEPT ![p] = "absent"] \in Trees
    BY <1>2 DEF Trees
  <2> QED
    BY <1>1, <1>2, <2>1 DEF RepoState
<1>4. repo'.tree[p] = "absent" /\ \A x \in Paths \ {p} : repo'.tree[x] = repo.tree[x]
  BY <1>2, <1>3
<1>5. \A x \in (job.work \cup {p}) \cap Dirty(repo') : repo'.tree[x] # "user"
  BY <1>1, <1>3, <1>4, Turn DEF Dirty
<1> QED
  BY <1>1, <1>3, <1>4, <1>5, Turn, ToolKeeps

LEMMA AgentGitRmKeeps ==
  ASSUME Inv, NEW p \in Paths, AgentGitRm(p)
  PROVE  Inv'
<1>1. job.phase = "agent" /\ UseTool("git rm", {p})
      /\ repo' = [repo EXCEPT !.tree[p] = "absent", !.index[p] = "absent"]
  BY DEF AgentGitRm, UseTool
<1>2. /\ repo.tree \in [Paths -> Contents] /\ repo.index \in [Paths -> Contents]
      /\ repo \in RepoState /\ "absent" \in Contents
  BY <1>1, Turn DEF Trees, Contents
<1>3. /\ repo' \in RepoState /\ repo'.tracking = repo.tracking
      /\ repo'.head = repo.head
      /\ repo'.index = [repo.index EXCEPT ![p] = "absent"]
      /\ repo'.tree = [repo.tree EXCEPT ![p] = "absent"]
  <2>1. /\ [repo.tree EXCEPT ![p] = "absent"] \in Trees
        /\ [repo.index EXCEPT ![p] = "absent"] \in Trees
    BY <1>2 DEF Trees
  <2> QED
    BY <1>1, <1>2, <2>1 DEF RepoState
<1>4. repo'.index[p] = "absent" /\ repo'.tree[p] = "absent"
      /\ \A x \in Paths \ {p} : repo'.tree[x] = repo.tree[x] /\ repo'.index[x] = repo.index[x]
  BY <1>2, <1>3
<1>5. \A x \in (job.work \cup {p}) \cap Dirty(repo') : repo'.tree[x] # "user"
  BY <1>1, <1>3, <1>4, Turn DEF Dirty
<1>6. ~Staged => \A x \in Paths :
        repo'.index[x] # Files(repo'.head)[x] => x \in job.work \cup {p}
  BY <1>1, <1>3, <1>4, Turn
<1> QED
  BY <1>1, <1>3, <1>4, <1>5, <1>6, Turn, ToolKeeps

(* The agent's commit takes everything, so nothing is left to stage. *)
LEMMA AgentCommitOn ==
  ASSUME Inv, NEW tool, UseTool(tool, {}), NEW h \in Seq(Commit), Own(h),
         repo' = [repo EXCEPT !.head = Append(h, CommitOf("agent", h, repo.tree)),
                              !.index = repo.tree]
  PROVE  Inv'
<1> DEFINE c == CommitOf("agent", h, repo.tree)
           g == Append(h, c)
<1>1. job.phase = "agent"
  BY DEF UseTool
<1>2. /\ repo \in RepoState /\ repo.tree \in Trees
      /\ "agent" \in Authors
  BY <1>1, Turn DEF Authors
<1>3. c \in Commit /\ c.by = "agent" /\ g \in Seq(Commit) /\ Files(g) = repo.tree
  BY <1>2, CommitOfFiles
<1>4. Own(g)
  <2>1. /\ Len(g) = Len(h) + 1 /\ Len(h) \in Nat /\ g[Len(h) + 1] = c
        /\ \A i \in 1..Len(h) : g[i] = h[i]
    BY <1>3, AppendProperties
  <2> HIDE DEF g, c
  <2>2. \A i \in 1..Len(g) : g[i] = c \/ (i \in 1..Len(h) /\ g[i] = h[i])
    BY <2>1
  <2> QED
    BY <1>3, <2>2 DEF Own, Placed
<1> HIDE DEF c, g
<1>5. /\ repo' \in RepoState /\ repo'.tracking = repo.tracking
      /\ repo'.head = g /\ repo'.index = repo.tree /\ repo'.tree = repo.tree
  BY <1>2, <1>3 DEF RepoState, c, g
<1>6. Dirty(repo') = {}
  BY <1>3, <1>5 DEF Dirty
<1>7. \A p \in Paths : repo'.index[p] # Files(repo'.head)[p] => p \in job.work \cup {}
  BY <1>3, <1>5
<1> QED
  BY <1>4, <1>5, <1>6, <1>7, ToolKeeps

LEMMA AgentCommitsKeeps ==
  ASSUME Inv, AgentCommits
  PROVE  Inv'
<1>1. job.phase = "agent" /\ UseTool("git commit", {})
  BY DEF AgentCommits, UseTool
<1>2. repo \in RepoState /\ repo.head \in Seq(Commit) /\ Own(repo.head)
  BY <1>1, Turn
<1>3. repo' = [repo EXCEPT !.head = Append(repo.head, CommitOf("agent", repo.head, repo.tree)),
                           !.index = repo.tree]
  BY <1>2 DEF AgentCommits
<1> QED
  BY <1>1, <1>2, <1>3, AgentCommitOn

LEMMA AgentAmendsKeeps ==
  ASSUME Inv, AgentAmends
  PROVE  Inv'
<1> DEFINE h == Front(repo.head)
<1>1. job.phase = "agent" /\ UseTool("git commit --amend", {}) /\ Len(repo.head) > 1
  BY DEF AgentAmends, UseTool
<1>2. repo \in RepoState /\ repo.head \in Seq(Commit) /\ Own(repo.head)
  BY <1>1, Turn
<1>3. /\ h \in Seq(Commit) /\ Len(h) = Len(repo.head) - 1
      /\ \A i \in 1..Len(h) : h[i] = repo.head[i]
  BY <1>1, <1>2, FrontType
<1>4. Own(h)
  <2> HIDE DEF h
  <2> QED
    BY <1>2, <1>3 DEF Own, Placed
<1>5. repo' = [repo EXCEPT !.head = Append(h, CommitOf("agent", h, repo.tree)),
                           !.index = repo.tree]
  BY <1>2 DEF AgentAmends
<1> HIDE DEF h
<1> QED
  BY <1>1, <1>3, <1>4, <1>5, AgentCommitOn

LEMMA AgentResetsKeeps ==
  ASSUME Inv, AgentResets
  PROVE  Inv'
<1> DEFINE h     == Front(repo.head)
           files == Files(h)
           Kept(p) == repo.index[p] = "absent" /\ files[p] = "absent"
           tree  == [p \in Paths |-> IF Kept(p) THEN repo.tree[p] ELSE files[p]]
           changed == {p \in Paths : tree[p] # repo.tree[p]}
<1>1. /\ job.phase = "agent" /\ Len(repo.head) > 1
      /\ UseTool("git reset --hard", changed)
      /\ repo' = [repo EXCEPT !.head = Front(@), !.index = files, !.tree = tree]
  BY DEF AgentResets, UseTool
<1>2. /\ repo \in RepoState /\ repo.head \in Seq(Commit) /\ Own(repo.head)
      /\ repo.tree \in Trees /\ job.work \subseteq Paths
  BY <1>1, Turn
<1>3. /\ h \in Seq(Commit) /\ Len(h) = Len(repo.head) - 1
      /\ \A i \in 1..Len(h) : h[i] = repo.head[i]
  BY <1>1, <1>2, FrontType
<1> HIDE DEF h
<1>4. Own(h)
  BY <1>2, <1>3 DEF Own, Placed
<1>5. files \in Trees
  BY <1>3, FilesType
<1> HIDE DEF files
<1>6. tree \in Trees
  BY <1>2, <1>5 DEF Trees
<1>7. repo' = [repo EXCEPT !.head = h, !.index = files, !.tree = tree]
  BY <1>1, <1>2 DEF RepoState, h
<1>8. /\ repo' \in RepoState /\ repo'.tracking = repo.tracking
      /\ repo'.head = h /\ repo'.index = files /\ repo'.tree = tree
  <2> HIDE DEF tree
  <2> QED
    BY <1>2, <1>3, <1>5, <1>6, <1>7 DEF RepoState
<1>9. Files(repo'.head) = files
  BY <1>8 DEF files
<1>10. ASSUME NEW p \in (job.work \cup changed) \cap Dirty(repo')
       PROVE  repo'.tree[p] # "user"
  <2>1. p \in Paths /\ tree[p] # files[p]
    BY <1>8, <1>9 DEF Dirty
  <2>2. Kept(p) /\ tree[p] = repo.tree[p] /\ repo.tree[p] # repo.index[p]
    BY <2>1
  <2>3. p \in job.work /\ p \in Dirty(repo)
    BY <2>1, <2>2 DEF Dirty
  <2> QED
    BY <1>1, <1>8, <2>2, <2>3, Turn
<1>11. \A p \in Paths \ changed : repo'.tree[p] = repo.tree[p]
  BY <1>8
<1>12. changed \in SUBSET Paths
  OBVIOUS
<1> HIDE DEF changed
<1> QED
  BY <1>1, <1>4, <1>8, <1>9, <1>10, <1>11, <1>12, ToolKeeps

LEMMA AgentRebasesKeeps ==
  ASSUME Inv, AgentRebases
  PROVE  Inv'
<1>1. repo \in RepoState /\ job.phase = "agent" /\ repo.head \in Seq(Commit)
  BY DEF AgentRebases, UseTool, Inv, TypeOK, RepoState
<1>2. PICK n \in 1..Len(repo.head) :
        LET earlier == SubSeq(repo.head, 1, n)
            stopped == Moved(repo, earlier)
        IN  /\ \A p \in Dirty(repo) : "absent" = repo.index[p] /\ "absent" = Files(earlier)[p]
            /\ UseTool("git rebase", {p \in Paths : stopped.tree[p] # repo.tree[p]})
            /\ repo' = [stopped EXCEPT !.rebasing = TRUE, !.orig = repo.head]
  BY DEF AgentRebases
<1> DEFINE h == SubSeq(repo.head, 1, n)
           s == Moved(repo, h)
           changed == {p \in Paths : s.tree[p] # repo.tree[p]}
<1>3. /\ h \in Seq(Commit) /\ Len(h) = n /\ \A i \in 1..n : h[i] = repo.head[i]
      /\ n \in 0..Len(repo.head)
  BY <1>1, FirstType
<1> HIDE DEF h
<1>4. /\ s \in RepoState /\ s.head = h /\ s.tracking = repo.tracking
      /\ \A p \in Paths :
           IF p \in Dirty(repo) THEN s.index[p] = repo.index[p] /\ s.tree[p] = repo.tree[p]
           ELSE s.index[p] = Files(h)[p] /\ s.tree[p] = Files(h)[p]
  BY <1>1, <1>3, MovedFacts
<1>5. /\ \A p \in Dirty(repo) : "absent" = repo.index[p] /\ "absent" = Files(h)[p]
      /\ UseTool("git rebase", changed)
      /\ repo' = [s EXCEPT !.rebasing = TRUE, !.orig = repo.head]
  BY <1>2 DEF h
<1> HIDE DEF s
<1>6. /\ repo' \in RepoState /\ repo'.head = h /\ repo'.tracking = repo.tracking
      /\ repo'.index = s.index /\ repo'.tree = s.tree
  BY <1>1, <1>4, <1>5 DEF RepoState
<1>7. Own(h)
  <2>1. Own(repo.head)
    BY <1>1, Turn
  <2> QED
    BY <1>3, <2>1 DEF Own, Placed
<1>8. ASSUME NEW p \in (job.work \cup changed) \cap Dirty(repo')
      PROVE  repo'.tree[p] # "user"
  <2>1. p \in Paths /\ p \in Dirty(repo)
    BY <1>4, <1>6 DEF Dirty
  <2>2. s.tree[p] = repo.tree[p] /\ p \in job.work
    BY <1>4, <2>1
  <2> QED
    BY <1>1, <1>6, <2>1, <2>2, Turn
<1>9. \A p \in Paths \ changed : repo'.tree[p] = repo.tree[p]
  BY <1>6
<1>10. \A p \in Paths : repo'.index[p] = Files(repo'.head)[p]
  BY <1>4, <1>5, <1>6
<1>11. changed \in SUBSET Paths
  OBVIOUS
<1> HIDE DEF changed
<1> QED
  BY <1>5, <1>6, <1>7, <1>8, <1>9, <1>10, <1>11, ToolKeeps

(* "No changes" is said when HEAD is a commit of the checkout: one of the  *)
(* agent's would be ahead of the branch, and its other work would be found.*)
LEMMA NothingDone ==
  ASSUME Inv, job.phase = "probe", NoBranch \notin Remotes, Touched = {}, ~Ahead
  PROVE  /\ IsPrefix(repo.head, job.seen)
         /\ \A p \in job.work : repo.tree[p] = Files(repo.head)[p]
<1>1. /\ repo.head \in Seq(Commit) /\ Own(repo.head) /\ job.work \subseteq Paths
      /\ job.seen \in Seq(Commit)
  BY OthersCommits DEF Inv, TypeOK, JobState, RepoState, Heads, Before
<1>2. ASSUME NEW p \in job.work PROVE repo.tree[p] = Files(repo.head)[p]
  <2>1. p \in Dirty(repo) => repo.tree[p] # "user" /\ (p \in job.dirty => job.snapshot[p] = "user")
    BY DEF Inv, Worked, Before
  <2>2. p \notin Dirty(repo)
    BY <2>1 DEF Touched
  <2> QED
    BY <1>1, <2>2 DEF Dirty
<1>3. /\ repo.tracking \in Seq(DevCommit) /\ repo.tracking \in Seq(Commit)
      /\ Beyond(repo.head, repo.tracking) = <<>>
  BY OthersCommits DEF Inv, Branches, Ahead
<1>4. /\ Len(repo.head) <= Len(repo.tracking)
      /\ \A i \in 1..Len(repo.head) : repo.head[i] = repo.tracking[i]
  BY <1>1, <1>3, NothingBeyond
<1>5. \A i \in 1..Len(repo.head) : repo.head[i].by = "dev"
  BY <1>1, <1>3, <1>4, OthersCommits
<1>6. \A i \in 1..Len(repo.head) : i <= Len(job.seen) /\ repo.head[i] = job.seen[i]
  BY <1>1, <1>5 DEF Own, Placed
<1>7. Len(repo.head) <= Len(job.seen)
  BY <1>1, <1>6
<1> QED
  BY <1>1, <1>2, <1>6, <1>7, PrefixMade

LEMMA ProbeKeeps ==
  ASSUME Inv, Probe
  PROVE  Inv'
<1>0. /\ job \in JobState /\ repo \in RepoState /\ remote \in History
      /\ job.phase = "probe" /\ UNCHANGED <<remote, repo>>
  BY DEF Probe, Inv, TypeOK
<1>1. CASE repo.rebasing /\ End(2, "rebase in progress")
  BY <1>0, <1>1, SilentEnd DEF EndedSilently
<1>2. CASE "probe" \in Faults /\ End(2, "probe failed")
  BY <1>0, <1>2, SilentEnd DEF EndedSilently
<1>3. CASE Killed
  BY <1>0, <1>3, SilentEnd DEF EndedSilently
<1>4. CASE Touched = {} /\ ~Ahead /\ End(0, IF job.dry THEN "dry-run" ELSE "no changes")
  <2>1. CASE job.dry
    BY <1>0, <1>4, <2>1, SilentEnd DEF EndedSilently
  <2>2. CASE ~job.dry
    <3>1. /\ job' = [job EXCEPT !.phase = "done", !.exit = 0, !.reply = "no changes",
                                !.landed = job.landed]
          /\ job'.reply = "no changes" /\ job.landed \in History
          /\ job'.work = job.work /\ job'.seen = job.seen
          /\ job'.dirty = job.dirty /\ job'.snapshot = job.snapshot
          /\ job'.touched = job.touched
      BY <1>0, <1>4, <2>2 DEF End, JobState
    <3>2. 0 \in 0..2 /\ "no changes" \in Replies
      BY DEF Replies
    <3>3. PushedMeansLanded'
      BY <3>1 DEF PushedMeansLanded
    <3>4. NoBranch \notin Remotes => NoChangesMeansNone'
      <4>1. NoBranch \notin Remotes =>
              /\ IsPrefix(repo.head, job.seen)
              /\ \A p \in job.work : repo.tree[p] = Files(repo.head)[p]
        BY <1>0, <1>4, NothingDone
      <4> QED
        BY <1>0, <3>1, <4>1 DEF NoChangesMeansNone
    <3>5. (~Staged => CommitsOnlyTouched') /\ UserChangesStay'
      BY <1>0, <3>1 DEF Inv, Promises, CommitsOnlyTouched, UserChangesStay
    <3> QED
      BY <1>0, <3>1, <3>2, <3>3, <3>4, <3>5, Finishes
  <2> QED
    BY <2>1, <2>2
<1>5. CASE job.dry /\ End(0, "dry-run")
  BY <1>0, <1>5, SilentEnd DEF EndedSilently
<1>6. CASE job' = [job EXCEPT !.phase = "commit", !.touched = Touched]
  <2>1. Touched \subseteq Paths
    BY DEF Touched, Dirty
  <2>2. /\ job' \in JobState /\ job'.phase = "commit" /\ job'.seen = job.seen
        /\ job'.work = job.work /\ job'.dirty = job.dirty /\ job'.snapshot = job.snapshot
        /\ job'.touched = Touched /\ job'.lease = job.lease /\ job'.reply = job.reply
    BY <1>0, <1>6, <2>1 DEF JobState, Phases
  <2>3. TypeOK' /\ Branches'
    BY <1>0, <2>2 DEF Inv, TypeOK, Branches
  <2>4. Heads'
    <3>1. Own(repo.head) /\ job.before = job.seen /\ job'.before = job.before
      BY <1>0, <1>6, <2>1 DEF Inv, Heads, Before, JobState
    <3>2. Own(repo.head)'
      BY <1>0, <2>2, <3>1 DEF Own, Placed
    <3> QED
      BY <2>2, <3>1, <3>2 DEF Heads, Extending
  <2>5. Landing' /\ StagedOwn' /\ Safe'
    BY <1>0, <2>2 DEF Inv, Landing, StagedOwn, Safe, Before, Extending
  <2>6. Worked'
    <3>1. job'.made = job.made
      BY <1>0, <1>6, <2>1 DEF JobState
    <3> QED
      BY <1>0, <2>2, <3>1 DEF Inv, Worked, Before, Touched
  <2>7. Leased'
    BY <1>0, <2>2 DEF Inv, Leased
  <2>8. Promises'
    <3>1. Own(repo.head) /\ job.reply = "none"
      BY <1>0 DEF Inv, Heads, Branches, Before
    <3>2. CommitsOnlyTouched'
      BY <1>0, <3>1, OwnedByOthers DEF Own, Placed, ToSet, CommitsOnlyTouched
    <3> QED
      BY <1>0, <2>2, <3>1, <3>2 DEF Inv, Promises, PushedMeansLanded,
                                    NoChangesMeansNone, UserChangesStay
  <2> QED
    BY <2>3, <2>4, <2>5, <2>6, <2>7, <2>8 DEF Inv
<1> QED
  BY <1>1, <1>2, <1>3, <1>4, <1>5, <1>6 DEF Probe

-----------------------------------------------------------------------------
(* The workflow's own commit.                                              *)

LEMMA AddedFacts ==
  ASSUME NEW r \in RepoState, NEW paths \in SUBSET Paths
  PROVE  LET s == Added(r, paths)
         IN  /\ s \in RepoState /\ s.head = r.head /\ s.tree = r.tree
             /\ s.tracking = r.tracking /\ s.rebasing = r.rebasing /\ s.orig = r.orig
             /\ s.index = [p \in Paths |-> IF p \in paths THEN r.tree[p] ELSE r.index[p]]
<1> DEFINE s == Added(r, paths)
           index == [p \in Paths |-> IF p \in paths THEN r.tree[p] ELSE r.index[p]]
<1>1. r.tree \in Trees /\ r.index \in Trees
  BY DEF RepoState
<1>2. index \in Trees
  BY <1>1 DEF Trees
<1>3. s = [r EXCEPT !.index = index]
  BY DEF Added, RepoState
<1> HIDE DEF s, index
<1>4. /\ s \in RepoState /\ s.head = r.head /\ s.tree = r.tree
      /\ s.tracking = r.tracking /\ s.rebasing = r.rebasing /\ s.orig = r.orig
      /\ s.index = index
  BY <1>2, <1>3 DEF RepoState
<1> QED
  BY <1>4 DEF s, index

LEMMA CommitPathsFacts ==
  ASSUME NEW r \in RepoState, NEW paths \in SUBSET Paths
  PROVE  LET s == CommitPaths(r, paths)
             index == [p \in Paths |-> IF p \in paths THEN r.tree[p] ELSE r.index[p]]
         IN  /\ s \in RepoState /\ s.tree = r.tree /\ s.tracking = r.tracking
             /\ IF paths = {} THEN s = r ELSE Files(s.head) = index
             /\ \/ s.head = r.head
                \/ \E c \in Commit :
                     /\ s.head = Append(r.head, c) /\ c.by = "dotbot"
                     /\ DOMAIN c.writes = {p \in Paths : index[p] # Files(r.head)[p]}
<1> DEFINE s == CommitPaths(r, paths)
           a == Added(r, paths)
           index == [p \in Paths |-> IF p \in paths THEN r.tree[p] ELSE r.index[p]]
           c == CommitOf("dotbot", r.head, index)
           g == Append(r.head, c)
<1>1. r.tree \in Trees /\ r.index \in Trees /\ r.head \in Seq(Commit)
  BY DEF RepoState
<1>2. /\ a \in RepoState /\ a.head = r.head /\ a.tree = r.tree
      /\ a.tracking = r.tracking /\ a.index = index
  BY AddedFacts
<1>3. index \in Trees
  BY <1>1 DEF Trees
<1> HIDE DEF a
<1>4. s = IF paths = {} THEN r
          ELSE IF index = Files(r.head) THEN a ELSE [a EXCEPT !.head = g]
  <2>1. s = IF paths = {} THEN r
            ELSE IF a.index = Files(r.head) THEN a
            ELSE [a EXCEPT !.head = Append(a.head, CommitOf("dotbot", a.head, a.index))]
    BY <1>2 DEF CommitPaths, a, RepoState
  <2> QED
    BY <1>2, <2>1
<1> HIDE DEF s, index
<1>5. /\ g \in Seq(Commit) /\ Files(g) = index /\ c.by = "dotbot"
      /\ DOMAIN c.writes = {p \in Paths : index[p] # Files(r.head)[p]}
      /\ c \in Commit
  BY <1>1, <1>3, CommitOfFiles DEF Authors
<1> HIDE DEF c
<1>6. CASE paths = {}
  <2>1. s = r
    BY <1>4, <1>6
  <2> QED
    BY <1>6, <2>1 DEF s
<1>7. CASE paths # {} /\ index = Files(r.head)
  <2>1. s = a
    BY <1>4, <1>7
  <2> QED
    BY <1>2, <1>7, <2>1 DEF s, index
<1>8. CASE paths # {} /\ index # Files(r.head)
  <2>1. s = [a EXCEPT !.head = g]
    BY <1>4, <1>8
  <2>2. s \in RepoState /\ s.tree = r.tree /\ s.tracking = r.tracking /\ s.head = g
    BY <1>2, <1>5, <2>1 DEF RepoState
  <2>3. Files(s.head) = index
    BY <1>5, <2>2
  <2> QED
    BY <1>5, <1>8, <2>2, <2>3 DEF s, index
<1> QED
  BY <1>6, <1>7, <1>8

(* What the commit of the touched paths makes true, however the run goes on*)
LEMMA Committed ==
  ASSUME Inv, job.phase = "commit", repo' = CommitPaths(repo, job.touched)
  PROVE  /\ repo' \in RepoState /\ repo'.tree = repo.tree
         /\ repo'.tracking = repo.tracking
         /\ Placed(repo'.head, {"agent", "dotbot"})
         /\ \A p \in job.work : Files(repo'.head)[p] = job.made[p]
         /\ ~Staged => \A c \in ToSet(repo'.head) :
              c.by = "dotbot" => DOMAIN c.writes \subseteq job.touched
<1> DEFINE index == [p \in Paths |-> IF p \in job.touched THEN repo.tree[p] ELSE repo.index[p]]
<1>1. /\ repo \in RepoState /\ job.touched \in SUBSET Paths /\ job.touched = Touched
      /\ job.work \subseteq Paths /\ Own(repo.head) /\ job.made = repo.tree
      /\ repo.head \in Seq(Commit)
  BY DEF Inv, TypeOK, JobState, RepoState, Worked, Heads, Before
<1>2. /\ repo' \in RepoState /\ repo'.tree = repo.tree /\ repo'.tracking = repo.tracking
      /\ IF job.touched = {} THEN repo' = repo ELSE Files(repo'.head) = index
      /\ \/ repo'.head = repo.head
         \/ \E c \in Commit :
              /\ repo'.head = Append(repo.head, c) /\ c.by = "dotbot"
              /\ DOMAIN c.writes = {p \in Paths : index[p] # Files(repo.head)[p]}
  BY <1>1, CommitPathsFacts
<1>3. \A p \in Paths : p \in job.work /\ p \notin job.touched =>
        repo.index[p] = repo.tree[p] /\ repo.tree[p] = Files(repo.head)[p]
  <2> SUFFICES ASSUME NEW p \in Paths, p \in job.work, p \notin Touched
               PROVE  p \notin Dirty(repo)
    BY <1>1 DEF Dirty
  <2>1. p \in Dirty(repo) => repo.tree[p] # "user" /\ (p \in job.dirty => job.snapshot[p] = "user")
    BY DEF Inv, Worked, Before
  <2> QED
    BY <2>1 DEF Touched
<1>4. \A p \in job.work : Files(repo'.head)[p] = job.made[p]
  <2> TAKE p \in job.work
  <2>1. CASE job.touched = {}
    BY <1>1, <1>2, <1>3, <2>1
  <2>2. CASE job.touched # {}
    BY <1>1, <1>2, <1>3, <2>2
  <2> QED
    BY <2>1, <2>2
<1>5. /\ \A p \in Paths : index[p] # Files(repo.head)[p] /\ ~Staged => p \in job.touched
  <2> SUFFICES ASSUME NEW p \in Paths, ~Staged, p \notin job.touched
               PROVE  index[p] = Files(repo.head)[p]
    OBVIOUS
  <2>1. repo.index[p] # Files(repo.head)[p] => p \in job.work
    BY DEF Inv, StagedOwn, Before
  <2> QED
    BY <1>3, <2>1
<1> HIDE DEF index
<1>6. CASE repo'.head = repo.head
  <2>1. Placed(repo'.head, {"agent", "dotbot"})
    BY <1>1, <1>6 DEF Own, Placed
  <2>2. ~Staged => \A c \in ToSet(repo'.head) :
          c.by = "dotbot" => DOMAIN c.writes \subseteq job.touched
    BY <1>6 DEF Inv, Promises, CommitsOnlyTouched
  <2> QED
    BY <1>2, <1>4, <2>1, <2>2
<1>7. ASSUME NEW c \in Commit, repo'.head = Append(repo.head, c), c.by = "dotbot",
             DOMAIN c.writes = {p \in Paths : index[p] # Files(repo.head)[p]}
      PROVE  /\ Placed(repo'.head, {"agent", "dotbot"})
             /\ ~Staged => \A x \in ToSet(repo'.head) :
                  x.by = "dotbot" => DOMAIN x.writes \subseteq job.touched
  <2> DEFINE g == repo'.head
  <2>1. /\ Len(g) = Len(repo.head) + 1 /\ Len(repo.head) \in Nat
        /\ g[Len(repo.head) + 1] = c
        /\ \A i \in 1..Len(repo.head) : g[i] = repo.head[i]
    BY <1>1, <1>7, AppendProperties
  <2> HIDE DEF g
  <2>2. \A i \in 1..Len(g) : g[i] = c \/ (i \in 1..Len(repo.head) /\ g[i] = repo.head[i])
    BY <2>1
  <2>3. Placed(g, {"agent", "dotbot"})
    BY <1>1, <1>7, <2>2 DEF Own, Placed
  <2>4. ~Staged => \A x \in ToSet(g) :
          x.by = "dotbot" => DOMAIN x.writes \subseteq job.touched
    <3>1. ~Staged => \A x \in ToSet(repo.head) :
            x.by = "dotbot" => DOMAIN x.writes \subseteq job.touched
      BY DEF Inv, Promises, CommitsOnlyTouched
    <3>2. \A x \in ToSet(g) : x = c \/ x \in ToSet(repo.head)
      BY <2>2 DEF ToSet
    <3>3. ~Staged => DOMAIN c.writes \subseteq job.touched
      BY <1>5, <1>7
    <3> QED
      BY <3>1, <3>2, <3>3
  <2> QED
    BY <2>3, <2>4 DEF g
<1> QED
  BY <1>2, <1>4, <1>6, <1>7

LEMMA FinalizeCommitKeeps ==
  ASSUME Inv, FinalizeCommit
  PROVE  Inv'
<1>0. /\ job \in JobState /\ repo \in RepoState /\ remote \in History
      /\ job.phase = "commit" /\ UNCHANGED remote /\ job.reply = "none"
      /\ job.touched \in SUBSET Paths
      /\ \A p \in job.dirty \ job.work : repo.tree[p] = job.snapshot[p]
  BY DEF FinalizeCommit, Inv, TypeOK, JobState, Branches, Safe
<1>1. ASSUME NEW next \in {"force", "push"}, repo' = CommitPaths(repo, job.touched),
             job' = [job EXCEPT !.phase = next],
             next = "push" => ~Rewritten(job.before, repo'.head)
      PROVE  Inv'
  <2>1. /\ job' \in JobState /\ job'.phase = next /\ job'.seen = job.seen
        /\ job'.work = job.work /\ job'.dirty = job.dirty /\ job'.snapshot = job.snapshot
        /\ job'.touched = job.touched /\ job'.lease = job.lease /\ job'.reply = "none"
        /\ job'.made = job.made
    BY <1>0, <1>1 DEF JobState, Phases
  <2>2. /\ repo' \in RepoState /\ repo'.tree = repo.tree
        /\ repo'.tracking = repo.tracking
        /\ Placed(repo'.head, {"agent", "dotbot"})
        /\ \A p \in job.work : Files(repo'.head)[p] = job.made[p]
        /\ ~Staged => \A c \in ToSet(repo'.head) :
             c.by = "dotbot" => DOMAIN c.writes \subseteq job.touched
    BY <1>0, <1>1, Committed
  <2>3. TypeOK' /\ Branches'
    BY <1>0, <2>1, <2>2 DEF Inv, TypeOK, Branches
  <2>4. next = "push" => Extended(repo'.head)
    <3> SUFFICES ASSUME next = "push" PROVE Extended(repo'.head)
      OBVIOUS
    <3>1. job.before = job.seen /\ job.seen \in Seq(Commit) /\ repo'.head \in Seq(Commit)
      BY <1>0, <2>2, OthersCommits DEF Inv, Heads, Branches, RepoState
    <3>2. job.seen = repo'.head \/ IsPrefix(job.seen, repo'.head)
      BY <1>1, <3>1 DEF Rewritten
    <3> QED
      BY <3>1, <3>2, PrefixPart DEF Extended
  <2>5. Heads'
    <3>1. Placed(repo.head, {"agent", "dotbot"})' /\ (next = "push" => Extended(repo.head)')
      BY <2>1, <2>2, <2>4 DEF Placed, Extended
    <3> QED
      BY <2>1, <3>1 DEF Heads, Before, Extending
  <2>6. StagedOwn' /\ Landing' /\ Safe'
    BY <1>0, <2>1, <2>2 DEF StagedOwn, Landing, Safe, Before, Extending
  <2>7. Leased'
    BY <1>0, <2>1 DEF Inv, Leased
  <2>8. Worked'
    BY <2>1 DEF Inv, Worked, Before
  <2>9. Promises'
    BY <1>0, <2>1, <2>2 DEF Promises, PushedMeansLanded, NoChangesMeansNone,
                            CommitsOnlyTouched, UserChangesStay
  <2> QED
    BY <2>3, <2>5, <2>6, <2>7, <2>8, <2>9 DEF Inv
<1>2. CASE /\ repo' = CommitPaths(repo, job.touched)
           /\ job' = [job EXCEPT !.phase =
                       IF Rewritten(job.before, repo'.head) THEN "force" ELSE "push"]
  <2>1. CASE Rewritten(job.before, repo'.head)
    BY <1>1, <1>2, <2>1
  <2>2. CASE ~Rewritten(job.before, repo'.head)
    BY <1>1, <1>2, <2>2
  <2> QED
    BY <2>1, <2>2
<1>3. CASE repo' = CommitPaths(repo, job.touched) /\ (End(2, "git failed") \/ Killed)
  <2>1. /\ repo' \in RepoState /\ repo'.tree = repo.tree
        /\ repo'.tracking = repo.tracking
        /\ ~Staged => \A c \in ToSet(repo'.head) :
             c.by = "dotbot" => DOMAIN c.writes \subseteq job.touched
    BY <1>0, <1>3, Committed
  <2>2. job.phase # "done"
    BY <1>0
  <2> QED
    BY <1>0, <1>3, <2>1, <2>2, GitFails
<1>4. CASE /\ UNCHANGED repo \/ repo' = Added(repo, job.touched)
           /\ End(2, "git failed") \/ Killed
  <2>1. /\ repo' \in RepoState /\ repo'.tree = repo.tree
        /\ repo'.tracking = repo.tracking /\ repo'.head = repo.head
    <3>1. CASE UNCHANGED repo
      BY <1>0, <3>1
    <3>2. CASE repo' = Added(repo, job.touched)
      BY <1>0, <3>2, AddedFacts
    <3> QED
      BY <1>4, <3>1, <3>2
  <2>2. ~Staged => \A c \in ToSet(repo'.head) :
          c.by = "dotbot" => DOMAIN c.writes \subseteq job.touched
    BY <2>1 DEF Inv, Promises, CommitsOnlyTouched
  <2>3. job.phase # "done"
    BY <1>0
  <2>4. End(2, "git failed") \/ Killed
    BY <1>4
  <2> QED
    BY <1>0, <2>1, <2>2, <2>3, <2>4, GitFails
<1> QED
  BY <1>2, <1>3, <1>4 DEF FinalizeCommit

-----------------------------------------------------------------------------
(* Pushing.                                                                *)

(* A push, accepted or killed: what lands is the checkout's HEAD. *)
LEMMA Pushed ==
  ASSUME Inv, job.phase \in After, UNCHANGED repo, Accepted \/ TimesOut
  PROVE  Inv'
<1>0. /\ job \in JobState /\ repo \in RepoState /\ remote \in History
      /\ job.phase # "done" /\ repo.head \in History /\ repo.head # NoBranch
      /\ job.exit \in 0..2 /\ job.reply \in Replies /\ job.reply = "none"
  BY BranchAssumption DEF Inv, TypeOK, After, Extending, Branches, History, RepoState, JobState
<1>1. repo' \in RepoState /\ repo'.tracking = repo.tracking
  BY <1>0
<1>2. CASE Accepted
  <2>1. /\ job' = [job EXCEPT !.phase = "done", !.exit = job.exit, !.reply = "pushed",
                              !.landed = repo.head]
        /\ job'.work = job.work /\ job'.landed = repo.head /\ job'.reply = "pushed"
        /\ job'.made = job.made /\ job'.seen = job.seen
        /\ job'.dirty = job.dirty /\ job'.snapshot = job.snapshot
        /\ job'.touched = job.touched
    BY <1>0, <1>2 DEF Accepted, JobState
  <2>2. \A p \in job.work :
          job.made[p] # Files(job.seen)[p] => Files(repo.head)[p] = job.made[p]
    BY DEF Inv, Landing, After
  <2>3. PushedMeansLanded'
    BY <1>0, <2>1, <2>2 DEF PushedMeansLanded
  <2>4. NoChangesMeansNone'
    BY <2>1 DEF NoChangesMeansNone
  <2>5. remote' \in History /\ "pushed" \in Replies
    BY <1>0, <1>2 DEF Accepted, Replies
  <2>6. (~Staged => CommitsOnlyTouched') /\ UserChangesStay'
    BY <2>1 DEF Inv, Promises, CommitsOnlyTouched, UserChangesStay
  <2> QED
    BY <1>0, <1>1, <2>1, <2>3, <2>4, <2>5, <2>6, Finishes
<1>3. CASE Killed /\ UNCHANGED remote
  BY <1>0, <1>3, SilentEnd DEF EndedSilently
<1>4. CASE /\ remote' = repo.head
           /\ job' = [job EXCEPT !.phase = "done", !.exit = 2, !.landed = repo.head]
  <2>1. /\ job' = [job EXCEPT !.phase = "done", !.exit = 2, !.reply = job.reply,
                              !.landed = repo.head]
        /\ job'.reply = "none" /\ job'.work = job.work
        /\ job'.dirty = job.dirty /\ job'.snapshot = job.snapshot
        /\ job'.touched = job.touched
    BY <1>0, <1>4 DEF JobState
  <2>2. PushedMeansLanded' /\ NoChangesMeansNone'
    BY <2>1 DEF PushedMeansLanded, NoChangesMeansNone
  <2>3. 2 \in 0..2 /\ remote' \in History
    BY <1>0, <1>4
  <2>4. (~Staged => CommitsOnlyTouched') /\ UserChangesStay'
    BY <2>1 DEF Inv, Promises, CommitsOnlyTouched, UserChangesStay
  <2> QED
    BY <1>0, <1>1, <2>1, <2>2, <2>3, <2>4, Finishes
<1> QED
  BY <1>2, <1>3, <1>4 DEF TimesOut

LEMMA PushForceKeeps ==
  ASSUME Inv, PushForceWithLease
  PROVE  Inv'
<1>1. job.phase \in After /\ job.phase # "done" /\ UNCHANGED repo
  BY DEF PushForceWithLease, After, Extending
<1>2. CASE Accepted \/ TimesOut
  BY <1>1, <1>2, Pushed
<1>3. CASE End(2, "git failed") /\ UNCHANGED remote
  BY <1>1, <1>3, SilentEnd DEF EndedSilently
<1> QED
  BY <1>2, <1>3 DEF PushForceWithLease

LEMMA PushRebasedKeeps ==
  ASSUME Inv, PushRebased
  PROVE  Inv'
<1>1. job.phase \in After /\ job.phase # "done" /\ UNCHANGED repo
  BY DEF PushRebased, After, Extending
<1>2. CASE Accepted \/ TimesOut
  BY <1>1, <1>2, Pushed
<1>3. CASE End(2, "git failed") /\ UNCHANGED remote
  BY <1>1, <1>3, SilentEnd DEF EndedSilently
<1> QED
  BY <1>2, <1>3 DEF PushRebased

(* The phases between two pushes, whatever the step does to the checkout. *)
LEMMA Continues ==
  ASSUME Inv, job.phase \in Extending,
         NEW next \in {"fetch", "rebase", "repush"},
         job' = [job EXCEPT !.phase = next], UNCHANGED remote,
         repo' \in RepoState,
         repo'.tracking \in Seq(DevCommit) \cup {NoBranch},
         remote = NoBranch <=> repo'.tracking = NoBranch,
         next \in {"rebase", "repush"} => Fetched',
         IF next = "repush"
         THEN /\ Rebased'
              /\ \A p \in job.work :
                   job.made[p] # Files(job.seen)[p] => Files(repo'.head)[p] = job.made[p]
         ELSE repo'.head = repo.head,
         ~Staged => \A c \in ToSet(repo'.head) :
           c.by = "dotbot" => DOMAIN c.writes \subseteq job.touched,
         \A p \in job.dirty \ job.work : repo'.tree[p] = job.snapshot[p]
  PROVE  Inv'
<1>0. /\ job \in JobState /\ remote \in History /\ job.reply = "none"
      /\ job.phase # "done"
  BY DEF Inv, TypeOK, Branches, Extending
<1>1. /\ job' \in JobState /\ job'.phase = next /\ job'.seen = job.seen
      /\ job'.work = job.work /\ job'.dirty = job.dirty /\ job'.snapshot = job.snapshot
      /\ job'.touched = job.touched /\ job'.lease = job.lease /\ job'.reply = "none"
      /\ job'.made = job.made
  BY <1>0 DEF JobState, Phases
<1>2. TypeOK'
  BY <1>0, <1>1 DEF TypeOK
<1>3. Branches'
  <2>1. NoBranch \notin Remotes => repo'.tracking # NoBranch
    BY <1>0 DEF Inv, Branches
  <2> QED
    BY <1>0, <1>1, <2>1 DEF Inv, Branches
<1>4. Heads'
  <2>1. Placed(repo.head, {"agent", "dotbot"}) /\ Extended(repo.head)
    BY DEF Inv, Heads
  <2>2. next # "repush" => Placed(repo.head, {"agent", "dotbot"})' /\ Extended(repo.head)'
    BY <1>1, <2>1 DEF Placed, Extended
  <2> QED
    BY <1>1, <2>2 DEF Heads, Before, Extending
<1>5. StagedOwn' /\ Safe'
  BY <1>1 DEF StagedOwn, Safe, Before
<1>6. Landing'
  BY <1>1 DEF Inv, Landing, Extending
<1>7. Leased'
  BY <1>0, <1>1 DEF Inv, Leased, Extending
<1>8. Worked'
  BY <1>1 DEF Inv, Worked, Before
<1>9. Promises'
  BY <1>1 DEF Promises, PushedMeansLanded, NoChangesMeansNone,
              CommitsOnlyTouched, UserChangesStay
<1> QED
  BY <1>2, <1>3, <1>4, <1>5, <1>6, <1>7, <1>8, <1>9 DEF Inv

(* The checkout between the commit and the last push. *)
LEMMA Ready ==
  ASSUME Inv, job.phase \in Extending
  PROVE  /\ repo \in RepoState /\ remote \in History
         /\ remote \in Seq(DevCommit) \cup {NoBranch}
         /\ repo.tracking \in Seq(DevCommit) \cup {NoBranch}
         /\ remote = NoBranch <=> repo.tracking = NoBranch
         /\ ~Staged => \A c \in ToSet(repo.head) :
              c.by = "dotbot" => DOMAIN c.writes \subseteq job.touched
         /\ \A p \in job.dirty \ job.work : repo.tree[p] = job.snapshot[p]
  BY DEF Inv, TypeOK, Branches, Safe, Promises, CommitsOnlyTouched, Extending

LEMMA PushHeadKeeps ==
  ASSUME Inv, PushHead
  PROVE  Inv'
<1>1. /\ job.phase \in After /\ job.phase \in Extending /\ job.phase # "done"
      /\ UNCHANGED repo
  BY DEF PushHead, After, Extending
<1>2. CASE Accepted \/ TimesOut
  BY <1>1, <1>2, Pushed
<1>3. CASE job' = [job EXCEPT !.phase = "fetch"] /\ UNCHANGED remote
  <2>1. "fetch" \in {"fetch", "rebase", "repush"} /\ "fetch" \notin {"rebase", "repush"}
    OBVIOUS
  <2> QED
    BY <1>1, <1>3, <2>1, Ready, Continues
<1>4. CASE End(2, "git failed") /\ UNCHANGED remote
  BY <1>1, <1>4, SilentEnd DEF EndedSilently
<1> QED
  BY <1>2, <1>3, <1>4 DEF PushHead

LEMMA FetchKeeps ==
  ASSUME Inv, Fetch
  PROVE  Inv'
<1>1. job.phase \in Extending /\ job.phase # "done" /\ UNCHANGED remote
  BY DEF Fetch, Extending
<1>2. CASE /\ remote # NoBranch /\ repo' = [repo EXCEPT !.tracking = remote]
           /\ job' = [job EXCEPT !.phase = "rebase"]
  <2>1. /\ repo \in RepoState /\ remote \in History
        /\ remote \in Seq(DevCommit) \cup {NoBranch}
        /\ ~Staged => \A c \in ToSet(repo.head) :
             c.by = "dotbot" => DOMAIN c.writes \subseteq job.touched
        /\ \A p \in job.dirty \ job.work : repo.tree[p] = job.snapshot[p]
    BY <1>1, Ready
  <2>2. /\ repo' \in RepoState /\ repo'.tracking = remote /\ repo'.head = repo.head
        /\ repo'.tree = repo.tree
    BY <1>2, <2>1 DEF RepoState
  <2>3. Fetched'
    BY <1>1, <1>2, <2>1, <2>2 DEF Fetched
  <2>4. "rebase" \in {"fetch", "rebase", "repush"} /\ "rebase" # "repush"
    OBVIOUS
  <2>5. repo'.tracking \in Seq(DevCommit) \cup {NoBranch}
        /\ (remote = NoBranch <=> repo'.tracking = NoBranch)
    BY <2>1, <2>2
  <2>6. ~Staged => \A c \in ToSet(repo'.head) :
           c.by = "dotbot" => DOMAIN c.writes \subseteq job.touched
    BY <2>1, <2>2
  <2>7. \A p \in job.dirty \ job.work : repo'.tree[p] = job.snapshot[p]
    BY <2>1, <2>2
  <2> QED
    BY <1>1, <1>2, <2>2, <2>3, <2>4, <2>5, <2>6, <2>7, Continues
<1>3. CASE End(2, "git failed") /\ UNCHANGED repo
  BY <1>1, <1>3, SilentEnd DEF EndedSilently
<1>4. CASE Killed /\ UNCHANGED repo
  BY <1>1, <1>4, SilentEnd DEF EndedSilently
<1> QED
  BY <1>2, <1>3, <1>4 DEF Fetch

-----------------------------------------------------------------------------
(* The rebase.                                                             *)

LEMMA ConcatPart ==
  ASSUME NEW S, NEW g \in Seq(S), NEW r \in Seq(S)
  PROVE  /\ g \o r \in Seq(S)
         /\ Len(g \o r) = Len(g) + Len(r)
         /\ \A i \in 1..Len(g) : (g \o r)[i] = g[i]
         /\ \A i \in 1..Len(r) : (g \o r)[Len(g) + i] = r[i]
         /\ \A x \in ToSet(g \o r) : x \in ToSet(g) \/ x \in ToSet(r)
<1> DEFINE s == g \o r
<1>1. /\ s \in Seq(S) /\ Len(s) = Len(g) + Len(r)
      /\ \A i \in 1..Len(s) : s[i] = IF i <= Len(g) THEN g[i] ELSE r[i - Len(g)]
  BY ConcatProperties
<1>2. Len(g) \in Nat /\ Len(r) \in Nat
  OBVIOUS
<1> HIDE DEF s
<1>3. \A i \in 1..Len(g) : i \in 1..Len(s) /\ s[i] = g[i]
  BY <1>1, <1>2
<1>4. ASSUME NEW i \in 1..Len(r) PROVE s[Len(g) + i] = r[i]
  <2>1. Len(g) + i \in 1..Len(s) /\ ~ (Len(g) + i <= Len(g)) /\ Len(g) + i - Len(g) = i
    BY <1>1, <1>2
  <2> QED
    BY <1>1, <2>1
<1>5. ASSUME NEW i \in 1..Len(s) PROVE s[i] \in ToSet(g) \/ s[i] \in ToSet(r)
  <2>1. CASE i <= Len(g)
    <3>1. i \in 1..Len(g) /\ s[i] = g[i]
      BY <1>1, <1>2, <2>1
    <3> QED
      BY <3>1 DEF ToSet
  <2>2. CASE ~ (i <= Len(g))
    <3>1. i - Len(g) \in 1..Len(r) /\ s[i] = r[i - Len(g)]
      BY <1>1, <1>2, <2>2
    <3> QED
      BY <3>1 DEF ToSet
  <2> QED
    BY <2>1, <2>2
<1>6. \A x \in ToSet(s) : x \in ToSet(g) \/ x \in ToSet(r)
  BY <1>5 DEF ToSet
<1> QED
  BY <1>1, <1>3, <1>4, <1>6 DEF s

(* The last commit that writes a path is the last after the rebase too, if *)
(* the branch does not have it.                                            *)
LEMMA RebaseKeepsLast ==
  ASSUME NEW h \in Seq(Commit), NEW g \in Seq(DevCommit), NEW p \in Paths,
         NEW i \in 1..Len(h), Writes(h[i], p),
         \A j \in (i + 1)..Len(h) : ~ Writes(h[j], p),
         h[i] \notin ToSet(g)
  PROVE  Content(g \o Replayed(h, g), p) = h[i].writes[p]
<1>0. g \in Seq(Commit)
  BY OthersCommits
<1>1. Writes(h[i], p) /\ \A j \in (i + 1)..Len(h) : ~ Writes(h[j], p)
  OBVIOUS
<1>2. \A c \in ToSet(g) : c # h[i]
  OBVIOUS
<1> DEFINE n == Shared(h, g)
           b == Beyond(h, g)
           T == ToSet(Beyond(g, h))
           W == {c \in Commit : Writes(c, p)}
           r == Replayed(h, g)
           s == g \o r
<1>3. n \in 0..Len(h) /\ n <= Len(g) /\ \A j \in 1..n : h[j] = g[j]
  BY <1>0, SharedType
<1>4. /\ b \in Seq(Commit) /\ Len(b) = Len(h) - n
      /\ \A j \in 1..(Len(h) - n) : b[j] = h[n + j]
  BY <1>0, BeyondType
<1>5. T \subseteq ToSet(g)
  BY <1>0, BeyondPart
<1>6. r = Without(b, T) /\ r \in Seq(Commit)
  BY <1>0, ReplayedType DEF Replayed
<1> HIDE DEF n, b, T, r
<1>7. n < i
  <2>1. CASE i \in 1..n
    <3>1. h[i] = g[i] /\ i \in 1..Len(g)
      BY <1>0, <1>3, <2>1
    <3> QED
      BY <1>2, <3>1 DEF ToSet
  <2> QED
    BY <1>3, <2>1
<1>8. i - n \in 1..Len(b) /\ b[i - n] = h[i]
  <2>1. i - n \in 1..(Len(h) - n) /\ n + (i - n) = i
    BY <1>3, <1>7
  <2> QED
    BY <1>4, <2>1
<1>9. b[i - n] \notin T /\ b[i - n] \in W
  BY <1>1, <1>2, <1>5, <1>8
<1>10. ASSUME NEW j \in (i - n + 1)..Len(b) PROVE b[j] \notin W
  <2>1. j \in 1..(Len(h) - n) /\ n + j \in (i + 1)..Len(h)
    BY <1>3, <1>4, <1>7
  <2> QED
    BY <1>1, <1>4, <2>1
<1>11. PICK k \in 1..Len(r) : r[k] = h[i] /\ \A m \in (k + 1)..Len(r) : r[m] \notin W
  <2> HIDE DEF W
  <2>1. i - n \in 1..Len(b) /\ b[i - n] \notin T /\ b[i - n] \in W
        /\ \A j \in (i - n + 1)..Len(b) : b[j] \notin W
    BY <1>8, <1>9, <1>10
  <2>2. \E k \in 1..Len(Without(b, T)) :
          /\ Without(b, T)[k] = b[i - n]
          /\ \A m \in (k + 1)..Len(Without(b, T)) : Without(b, T)[m] \notin W
    BY <1>4, <2>1, WithoutLast
  <2> QED
    BY <1>6, <1>8, <2>2
<1>12. /\ s \in Seq(Commit) /\ Len(s) = Len(g) + Len(r)
       /\ \A m \in 1..Len(r) : s[Len(g) + m] = r[m]
  BY <1>0, <1>6, ConcatPart
<1>13. Len(g) \in Nat /\ Len(r) \in Nat
  BY <1>0, <1>6
<1> HIDE DEF s
<1>14. Len(g) + k \in 1..Len(s) /\ s[Len(g) + k] = h[i]
  BY <1>11, <1>12, <1>13
<1>15. ASSUME NEW j \in (Len(g) + k + 1)..Len(s) PROVE ~ Writes(s[j], p)
  <2>1. j - Len(g) \in (k + 1)..Len(r) /\ j - Len(g) \in 1..Len(r)
        /\ Len(g) + (j - Len(g)) = j
    BY <1>12, <1>13
  <2>2. s[j] = r[j - Len(g)] /\ r[j - Len(g)] \notin W /\ r[j - Len(g)] \in Commit
    BY <1>6, <1>11, <1>12, <2>1
  <2> QED
    BY <2>2
<1>16. Content(s, p) = s[Len(g) + k].writes[p]
  BY <1>1, <1>12, <1>14, <1>15, LastWriter
<1> QED
  BY <1>14, <1>16 DEF s, r

(* So what the user had changed, once committed, comes through a rebase,   *)
LEMMA RebaseKeepsUser ==
  ASSUME NEW h \in Seq(Commit), NEW g \in Seq(DevCommit), NEW p \in Paths,
         Content(h, p) = "user"
  PROVE  Content(g \o Replayed(h, g), p) = "user"
<1>1. PICK i \in 1..Len(h) :
        /\ Writes(h[i], p)
        /\ \A j \in (i + 1)..Len(h) : ~ Writes(h[j], p)
        /\ Content(h, p) = h[i].writes[p]
  BY ContentWriter
<1>2. h[i] \notin ToSet(g)
  <2>1. \A c \in ToSet(g) : c \in DevCommit
    BY DEF ToSet
  <2> QED
    BY <1>1, <2>1 DEF DevCommit, Writes
<1>3. Content(g \o Replayed(h, g), p) = h[i].writes[p]
  BY <1>1, <1>2, RebaseKeepsLast
<1> QED
  BY <1>1, <1>3

(* and so does what the agent's commits make of the checkout.              *)
LEMMA RebaseKeepsWork ==
  ASSUME NEW h \in Seq(Commit), NEW g \in Seq(DevCommit), NEW p \in Paths,
         job.seen \in Seq(Commit), Placed(h, {"agent", "dotbot"}), Extended(h),
         Content(h, p) # Content(job.seen, p)
  PROVE  Content(g \o Replayed(h, g), p) = Content(h, p)
<1>1. /\ Len(job.seen) <= Len(h) /\ Len(job.seen) \in Nat /\ Len(h) \in Nat
      /\ \A i \in 1..Len(job.seen) : i \in 1..Len(h) /\ h[i] = job.seen[i]
  BY DEF Extended
<1>2. PICK k \in 1..Len(h) : Writes(h[k], p)
  <2> SUFFICES ASSUME \A k \in 1..Len(h) : ~ Writes(h[k], p) PROVE FALSE
    OBVIOUS
  <2>1. \A k \in 1..Len(job.seen) : ~ Writes(job.seen[k], p)
    BY <1>1
  <2> QED
    BY <2>1, NoWriter
<1>3. PICK i \in 1..Len(h) :
        /\ Writes(h[i], p)
        /\ \A j \in (i + 1)..Len(h) : ~ Writes(h[j], p)
        /\ Content(h, p) = h[i].writes[p]
  BY <1>2, SomeWriter
<1>4. i \notin 1..Len(job.seen)
  <2> SUFFICES ASSUME i \in 1..Len(job.seen) PROVE FALSE
    OBVIOUS
  <2>1. job.seen[i] = h[i]
    BY <1>1
  <2>2. \A j \in (i + 1)..Len(job.seen) : ~ Writes(job.seen[j], p)
    <3> TAKE j \in (i + 1)..Len(job.seen)
    <3>1. j \in 1..Len(job.seen) /\ j \in (i + 1)..Len(h)
      BY <1>1
    <3> QED
      BY <1>1, <1>3, <3>1
  <2>3. Content(job.seen, p) = job.seen[i].writes[p]
    BY <1>3, <2>1, <2>2, LastWriter
  <2> QED
    BY <1>3, <2>1, <2>3
<1>5. h[i].by \in {"agent", "dotbot"}
  BY <1>1, <1>4 DEF Placed
<1>6. h[i] \notin ToSet(g)
  <2>1. \A c \in ToSet(g) : c \in DevCommit
    BY DEF ToSet
  <2> QED
    BY <1>5, <2>1, OthersCommits
<1>7. Content(g \o Replayed(h, g), p) = h[i].writes[p]
  BY <1>3, <1>6, RebaseKeepsLast
<1> QED
  BY <1>3, <1>7

(* Commits of others come from the checkout. *)
LEMMA PlacedKnown ==
  ASSUME Inv, NEW h \in Seq(Commit), Placed(h, {"agent", "dotbot"})
  PROVE  Known(h, {})
<1>1. job.seen \in Seq(DevCommit)
  BY DEF Inv, Branches
<1>2. ASSUME NEW i \in 1..Len(h)
      PROVE  h[i].by # "dev" \/ h[i] \in ToSet(job.seen)
  <2>1. CASE h[i].by \in {"agent", "dotbot"}
    BY <2>1
  <2>2. CASE i <= Len(job.seen) /\ h[i] = job.seen[i]
    <3>1. i \in 1..Len(job.seen)
      BY <1>1, <2>2
    <3> QED
      BY <2>2, <3>1 DEF ToSet
  <2> QED
    BY <2>1, <2>2 DEF Placed
<1> QED
  BY <1>2 DEF Known, ToSet

LEMMA HalfwayFacts ==
  ASSUME NEW r \in RepoState, r.tracking \in Seq(Commit),
         NEW n \in 0..Len(Replayed(r.head, r.tracking))
  PROVE  LET s == Halfway(r, n)
         IN  /\ s \in RepoState /\ s.tracking = r.tracking
             /\ s.rebasing /\ s.orig = r.head
             /\ \A c \in ToSet(s.head) : c \in ToSet(r.tracking) \/ c \in ToSet(r.head)
             /\ \A p \in Paths :
                  IF p \in Dirty(r) THEN s.index[p] = r.index[p] /\ s.tree[p] = r.tree[p]
                  ELSE s.index[p] = Files(s.head)[p] /\ s.tree[p] = Files(s.head)[p]
<1> DEFINE replayed == Replayed(r.head, r.tracking)
           done == SubSeq(replayed, 1, n)
           h == r.tracking \o done
           m == Moved(r, h)
           s == Halfway(r, n)
<1>1. r.head \in Seq(Commit)
  BY DEF RepoState
<1>2. replayed \in Seq(Commit) /\ ToSet(replayed) \subseteq ToSet(r.head)
  BY <1>1, ReplayedType
<1> HIDE DEF replayed
<1>3. done \in Seq(Commit) /\ ToSet(done) \subseteq ToSet(replayed)
  <2>1. n \in 0..Len(replayed)
    BY DEF replayed
  <2> QED
    BY <1>2, <2>1, FirstType
<1> HIDE DEF done
<1>4. h \in Seq(Commit) /\ \A c \in ToSet(h) : c \in ToSet(r.tracking) \/ c \in ToSet(done)
  BY <1>3, ConcatPart
<1> HIDE DEF h
<1>5. /\ m \in RepoState /\ m.head = h /\ m.tracking = r.tracking
      /\ \A p \in Paths :
           IF p \in Dirty(r) THEN m.index[p] = r.index[p] /\ m.tree[p] = r.tree[p]
           ELSE m.index[p] = Files(h)[p] /\ m.tree[p] = Files(h)[p]
  BY <1>4, MovedFacts
<1> HIDE DEF m
<1>6. s = [m EXCEPT !.rebasing = TRUE, !.orig = r.head]
  BY DEF Halfway, m, h, done, replayed
<1> HIDE DEF s
<1>7. /\ s \in RepoState /\ s.tracking = r.tracking /\ s.rebasing /\ s.orig = r.head
      /\ s.head = h /\ s.index = m.index /\ s.tree = m.tree
  BY <1>1, <1>5, <1>6 DEF RepoState
<1>8. \A c \in ToSet(s.head) : c \in ToSet(r.tracking) \/ c \in ToSet(r.head)
  BY <1>2, <1>3, <1>4, <1>7
<1> QED
  BY <1>5, <1>7, <1>8 DEF s

(* A rebase that is finished. *)
LEMMA RebaseFinished ==
  ASSUME Inv, job.phase = "rebase", UNCHANGED remote,
         repo' = Moved(repo, repo.tracking \o Replayed(repo.head, repo.tracking)),
         job' = [job EXCEPT !.phase = "repush"]
  PROVE  Inv'
<1> DEFINE g == repo.tracking
           h == repo.head
           r == Replayed(h, g)
           head == g \o r
<1>1. job.phase \in Extending
  BY DEF Extending
<1>2. /\ repo \in RepoState /\ remote \in History /\ job.work \subseteq Paths
      /\ job.dirty \subseteq Paths
      /\ repo.tracking \in Seq(DevCommit) \cup {NoBranch}
      /\ remote = NoBranch <=> repo.tracking = NoBranch
      /\ ~Staged => \A c \in ToSet(repo.head) :
           c.by = "dotbot" => DOMAIN c.writes \subseteq job.touched
      /\ \A p \in job.dirty \ job.work : repo.tree[p] = job.snapshot[p]
  BY <1>1, Ready DEF Inv, TypeOK, JobState
<1>3. /\ Fetched /\ Placed(h, {"agent", "dotbot"}) /\ Extended(h)
      /\ \A p \in job.work : Files(h)[p] = job.made[p]
      /\ \A p \in job.dirty : job.snapshot[p] = "user"
      /\ job.seen \in Seq(Commit)
  BY <1>1, OthersCommits DEF Inv, Heads, Landing, Worked, Branches
<1>4. g \in Seq(DevCommit) /\ g \in Seq(Commit) /\ h \in Seq(Commit)
  BY <1>2, <1>3, OthersCommits DEF Fetched, RepoState
<1>5. r \in Seq(Commit) /\ ToSet(r) \subseteq ToSet(h)
  BY <1>4, ReplayedType
<1>6. /\ head \in Seq(Commit) /\ Len(head) = Len(g) + Len(r)
      /\ \A i \in 1..Len(g) : head[i] = g[i]
      /\ \A x \in ToSet(head) : x \in ToSet(g) \/ x \in ToSet(r)
  BY <1>4, <1>5, ConcatPart
<1>7. \A p \in job.dirty \ job.work : p \notin Dirty(repo) => Files(head)[p] = job.snapshot[p]
  <2> SUFFICES ASSUME NEW p \in job.dirty \ job.work, p \notin Dirty(repo)
               PROVE  Files(head)[p] = job.snapshot[p]
    OBVIOUS
  <2>1. p \in Paths /\ repo.tree[p] = "user" /\ job.snapshot[p] = "user"
    BY <1>2, <1>3
  <2>2. Files(h)[p] = repo.tree[p]
    BY <2>1 DEF Dirty
  <2>3. Content(h, p) = "user"
    BY <2>1, <2>2 DEF Files
  <2>4. Content(head, p) = "user"
    BY <1>4, <2>1, <2>3, RebaseKeepsUser
  <2> HIDE DEF head
  <2> QED
    BY <2>1, <2>4 DEF Files
<1>8. \A p \in job.work :
        job.made[p] # Files(job.seen)[p] => Files(head)[p] = job.made[p]
  <2> SUFFICES ASSUME NEW p \in job.work, job.made[p] # Files(job.seen)[p]
               PROVE  Files(head)[p] = job.made[p]
    OBVIOUS
  <2>1. p \in Paths /\ Files(h)[p] = job.made[p]
    BY <1>2, <1>3
  <2>2. Content(h, p) = job.made[p] /\ Content(h, p) # Content(job.seen, p)
    BY <2>1 DEF Files
  <2>3. Content(head, p) = Content(h, p)
    BY <1>3, <1>4, <2>1, <2>2, RebaseKeepsWork
  <2> HIDE DEF head
  <2> QED
    BY <2>1, <2>2, <2>3 DEF Files
<1>9. Known(h, {})
  BY <1>3, <1>4, PlacedKnown
<1> HIDE DEF r
<1>10. repo' = Moved(repo, head)
  BY DEF r
<1> HIDE DEF head
<1>11. /\ repo' \in RepoState /\ repo'.head = head /\ repo'.tracking = g
       /\ \A p \in Paths :
            IF p \in Dirty(repo) THEN repo'.tree[p] = repo.tree[p]
            ELSE repo'.tree[p] = Files(head)[p]
  BY <1>2, <1>6, <1>10, MovedFacts
<1>12. Rebased'
  <2>1. Len(g) <= Len(head)
    BY <1>4, <1>5, <1>6
  <2>2. job'.seen = job.seen
    BY DEF Inv, TypeOK, JobState
  <2>3. \A c \in ToSet(head) : c.by # "dev" \/ c \in ToSet(job.seen) \/ c \in ToSet(g)
    BY <1>5, <1>6, <1>9 DEF Known
  <2> QED
    BY <1>6, <1>11, <2>1, <2>2, <2>3 DEF Rebased, Known
<1>13. Fetched'
  BY <1>3, <1>11 DEF Fetched
<1>14. ~Staged => \A c \in ToSet(repo'.head) :
         c.by = "dotbot" => DOMAIN c.writes \subseteq job.touched
  <2>1. \A c \in ToSet(g) : c.by = "dev"
    BY <1>4, OthersCommits DEF ToSet
  <2> QED
    BY <1>2, <1>5, <1>6, <1>11, <2>1
<1>15. \A p \in job.dirty \ job.work : repo'.tree[p] = job.snapshot[p]
  BY <1>2, <1>7, <1>11
<1>16. "repush" \in {"fetch", "rebase", "repush"}
  OBVIOUS
<1>17. /\ repo'.tracking \in Seq(DevCommit) \cup {NoBranch}
       /\ remote = NoBranch <=> repo'.tracking = NoBranch
  BY <1>2, <1>11
<1>18. \A p \in job.work :
         job.made[p] # Files(job.seen)[p] => Files(repo'.head)[p] = job.made[p]
  BY <1>8, <1>11
<1> QED
  BY <1>1, <1>11, <1>12, <1>13, <1>14, <1>15, <1>16, <1>17, <1>18, Continues

(* The checkout where a rebase has stopped. *)
LEMMA RebaseStopped ==
  ASSUME Inv, job.phase = "rebase", ~Blocked(repo),
         NEW n \in 0..Len(Replayed(repo.head, repo.tracking)),
         repo' = Halfway(repo, n)
  PROVE  /\ repo' \in RepoState /\ repo'.tracking = repo.tracking /\ repo'.rebasing
         /\ ~Staged => \A c \in ToSet(repo'.head) :
              c.by = "dotbot" => DOMAIN c.writes \subseteq job.touched
         /\ ~Staged => \A c \in ToSet(repo'.orig) :
              c.by = "dotbot" => DOMAIN c.writes \subseteq job.touched
         /\ \A p \in job.dirty \ job.work :
              IF p \in Dirty(repo') THEN repo'.tree[p] = job.snapshot[p]
              ELSE Files(repo'.orig)[p] = job.snapshot[p]
<1>1. job.phase \in Extending
  BY DEF Extending
<1>2. /\ repo \in RepoState /\ job.dirty \subseteq Paths
      /\ repo.tracking \in Seq(DevCommit) \cup {NoBranch}
      /\ ~Staged => \A c \in ToSet(repo.head) :
           c.by = "dotbot" => DOMAIN c.writes \subseteq job.touched
      /\ \A p \in job.dirty \ job.work : repo.tree[p] = job.snapshot[p]
  BY <1>1, Ready DEF Inv, TypeOK, JobState
<1>3. repo.tracking \in Seq(DevCommit) /\ repo.tracking \in Seq(Commit)
  <2>1. Fetched
    BY DEF Inv, Heads
  <2> QED
    BY <1>2, <2>1, OthersCommits DEF Fetched
<1>4. /\ repo' \in RepoState /\ repo'.tracking = repo.tracking
      /\ repo'.rebasing /\ repo'.orig = repo.head
      /\ \A c \in ToSet(repo'.head) : c \in ToSet(repo.tracking) \/ c \in ToSet(repo.head)
      /\ \A p \in Paths :
           IF p \in Dirty(repo)
           THEN repo'.index[p] = repo.index[p] /\ repo'.tree[p] = repo.tree[p]
           ELSE repo'.index[p] = Files(repo'.head)[p] /\ repo'.tree[p] = Files(repo'.head)[p]
  BY <1>2, <1>3, HalfwayFacts
<1>5. ~Staged => \A c \in ToSet(repo'.head) :
        c.by = "dotbot" => DOMAIN c.writes \subseteq job.touched
  <2>1. \A c \in ToSet(repo.tracking) : c.by = "dev"
    BY <1>3, OthersCommits DEF ToSet
  <2> QED
    BY <1>2, <1>4, <2>1
<1>6. ASSUME NEW p \in job.dirty \ job.work
      PROVE  IF p \in Dirty(repo') THEN repo'.tree[p] = job.snapshot[p]
             ELSE Files(repo'.orig)[p] = job.snapshot[p]
  <2>1. p \in Paths /\ repo.tree[p] = job.snapshot[p]
    BY <1>2
  <2>2. CASE p \in Dirty(repo)
    <3>1. repo.index[p] = "absent" /\ Files(repo.head)[p] = "absent"
      BY <2>2 DEF Blocked
    <3>2. repo.tree[p] # repo.index[p]
      BY <2>2, <3>1 DEF Dirty
    <3>3. p \in Dirty(repo') /\ repo'.tree[p] = repo.tree[p]
      BY <1>4, <2>1, <2>2, <3>2 DEF Dirty
    <3> QED
      BY <2>1, <3>3
  <2>3. CASE p \notin Dirty(repo)
    <3>1. p \notin Dirty(repo')
      BY <1>4, <2>1, <2>3 DEF Dirty
    <3>2. Files(repo.head)[p] = repo.tree[p]
      BY <2>1, <2>3 DEF Dirty
    <3> QED
      BY <1>4, <2>1, <3>1, <3>2
  <2> QED
    BY <2>2, <2>3
<1> QED
  BY <1>2, <1>4, <1>5, <1>6

LEMMA RebaseConflicts ==
  ASSUME Inv, job.phase = "rebase", UNCHANGED remote, ~Blocked(repo),
         NEW n \in 0..Len(Replayed(repo.head, repo.tracking)),
         repo' = Halfway(repo, n), job' = [job EXCEPT !.phase = "abort"]
  PROVE  Inv'
<1>1. /\ repo' \in RepoState /\ repo'.tracking = repo.tracking /\ repo'.rebasing
      /\ ~Staged => \A c \in ToSet(repo'.head) :
           c.by = "dotbot" => DOMAIN c.writes \subseteq job.touched
      /\ ~Staged => \A c \in ToSet(repo'.orig) :
           c.by = "dotbot" => DOMAIN c.writes \subseteq job.touched
      /\ \A p \in job.dirty \ job.work :
           IF p \in Dirty(repo') THEN repo'.tree[p] = job.snapshot[p]
           ELSE Files(repo'.orig)[p] = job.snapshot[p]
  BY RebaseStopped
<1>2. job \in JobState /\ remote \in History /\ job.reply = "none"
  BY DEF Inv, TypeOK, Branches
<1>3. /\ job' \in JobState /\ job'.phase = "abort" /\ job'.seen = job.seen
      /\ job'.work = job.work /\ job'.dirty = job.dirty /\ job'.snapshot = job.snapshot
      /\ job'.touched = job.touched /\ job'.lease = job.lease /\ job'.reply = "none"
  BY <1>2 DEF JobState, Phases
<1>4. TypeOK'
  BY <1>1, <1>2, <1>3 DEF TypeOK
<1>5. Branches'
  BY <1>1, <1>2, <1>3 DEF Inv, Branches
<1>6. Heads' /\ StagedOwn' /\ Landing'
  BY <1>3 DEF Heads, StagedOwn, Landing, Before, Extending
<1>7. Leased'
  BY <1>2, <1>3 DEF Inv, Leased
<1>8. Worked'
  BY <1>3 DEF Inv, Worked, Before
<1>9. Safe'
  BY <1>1, <1>3 DEF Safe
<1>10. Promises'
  BY <1>1, <1>3 DEF Promises, PushedMeansLanded, NoChangesMeansNone,
                    CommitsOnlyTouched, UserChangesStay
<1> QED
  BY <1>4, <1>5, <1>6, <1>7, <1>8, <1>9, <1>10 DEF Inv

LEMMA RebaseKeeps ==
  ASSUME Inv, Rebase
  PROVE  Inv'
<1>1. job.phase = "rebase" /\ job.phase # "done" /\ UNCHANGED remote
  BY DEF Rebase
<1>2. CASE (End(2, "git failed") \/ Killed) /\ UNCHANGED repo
  BY <1>1, <1>2, SilentEnd DEF EndedSilently
<1>3. CASE /\ repo' = Moved(repo, repo.tracking \o Replayed(repo.head, repo.tracking))
           /\ job' = [job EXCEPT !.phase = "repush"]
  BY <1>1, <1>3, RebaseFinished
<1>4. ASSUME ~Blocked(repo), NEW n \in 0..Len(Replayed(repo.head, repo.tracking)),
             repo' = Halfway(repo, n),
             Killed \/ job' = [job EXCEPT !.phase = "abort"]
      PROVE  Inv'
  <2>1. CASE Killed
    BY <1>1, <1>4, <2>1, RebaseStopped, GitFails
  <2>2. CASE job' = [job EXCEPT !.phase = "abort"]
    BY <1>1, <1>4, <2>2, RebaseConflicts
  <2> QED
    BY <1>4, <2>1, <2>2
<1> QED
  BY <1>2, <1>3, <1>4 DEF Rebase

(* An abort takes the checkout back to where the rebase began, or fails.   *)
LEMMA AbortRebaseKeeps ==
  ASSUME Inv, AbortRebase
  PROVE  Inv'
<1>1. /\ job.phase = "abort" /\ job.phase # "done" /\ UNCHANGED remote
      /\ repo \in RepoState /\ repo.orig \in Seq(Commit) /\ job.dirty \subseteq Paths
  BY DEF AbortRebase, Inv, TypeOK, RepoState, JobState
<1>2. CASE /\ repo' = [Moved(repo, repo.orig) EXCEPT !.rebasing = FALSE]
           /\ End(2, "git failed") \/ Killed
  <2> DEFINE m == Moved(repo, repo.orig)
  <2>1. /\ m \in RepoState /\ m.head = repo.orig /\ m.tracking = repo.tracking
        /\ \A p \in Paths :
             IF p \in Dirty(repo) THEN m.tree[p] = repo.tree[p]
             ELSE m.tree[p] = Files(repo.orig)[p]
    BY <1>1, MovedFacts
  <2>2. repo' = [m EXCEPT !.rebasing = FALSE]
    BY <1>2
  <2> HIDE DEF m
  <2>3. /\ repo' \in RepoState /\ repo'.head = repo.orig
        /\ repo'.tracking = repo.tracking /\ repo'.tree = m.tree
    BY <2>1, <2>2 DEF RepoState
  <2>4. /\ ~Staged => \A c \in ToSet(repo.orig) :
             c.by = "dotbot" => DOMAIN c.writes \subseteq job.touched
        /\ \A p \in job.dirty \ job.work :
             IF p \in Dirty(repo) THEN repo.tree[p] = job.snapshot[p]
             ELSE Files(repo.orig)[p] = job.snapshot[p]
    BY <1>1 DEF Inv, Safe
  <2>5. \A p \in job.dirty \ job.work : repo'.tree[p] = job.snapshot[p]
    BY <1>1, <2>1, <2>3, <2>4
  <2> QED
    BY <1>1, <1>2, <2>3, <2>4, <2>5, GitFails
<1>3. CASE UNCHANGED repo /\ (End(2, "git failed") \/ Killed)
  BY <1>1, <1>3, SilentEnd DEF EndedSilently
<1> QED
  BY <1>2, <1>3 DEF AbortRebase

-----------------------------------------------------------------------------
(* The theorems.                                                           *)

LEMMA NextInv ==
  ASSUME Inv, [Next]_vars
  PROVE  Inv'
<1>1. CASE UNCHANGED vars
  <2>1. UNCHANGED <<remote, repo, job>>
    BY <1>1 DEF vars
  <2>2. TypeOK' /\ Branches' /\ Leased' /\ StagedOwn' /\ Landing' /\ Safe'
    BY <2>1 DEF Inv, TypeOK, Branches, Leased, StagedOwn, Landing, Safe, Dirty
  <2>3. Heads'
    BY <2>1 DEF Inv, Heads, Own, Placed, Extended, Known, Fetched, Rebased
  <2>4. Worked'
    BY <2>1 DEF Inv, Worked, Dirty, Touched
  <2>5. Promises'
    BY <2>1 DEF Inv, Promises, PushedMeansLanded, NoChangesMeansNone,
                CommitsOnlyTouched, UserChangesStay
  <2> QED
    BY <2>2, <2>3, <2>4, <2>5 DEF Inv
<1>2. CASE DevPush
  BY <1>2, DevPushKeeps
<1>3. CASE Agent
  <2>1. ASSUME NEW p \in Paths, AgentWrites(p) PROVE Inv'
    BY <2>1, AgentWritesKeeps
  <2>2. ASSUME NEW p \in Paths, AgentRemoves(p) PROVE Inv'
    BY <2>2, AgentRemovesKeeps
  <2>3. ASSUME NEW p \in Paths, AgentGitRm(p) PROVE Inv'
    BY <2>3, AgentGitRmKeeps
  <2>4. ASSUME AgentCommits PROVE Inv'
    BY <2>4, AgentCommitsKeeps
  <2>5. ASSUME AgentAmends PROVE Inv'
    BY <2>5, AgentAmendsKeeps
  <2>6. ASSUME AgentResets PROVE Inv'
    BY <2>6, AgentResetsKeeps
  <2>7. ASSUME AgentRebases PROVE Inv'
    BY <2>7, AgentRebasesKeeps
  <2>8. ASSUME AgentEnds PROVE Inv'
    BY <2>8, AgentEndsKeeps
  <2> QED
    BY <1>3, <2>1, <2>2, <2>3, <2>4, <2>5, <2>6, <2>7, <2>8 DEF Agent
<1>4. CASE Workflow
  BY <1>4, CheckoutKeeps, PreflightKeeps, PreparePromptKeeps, ProbeKeeps,
     FinalizeCommitKeeps, PushForceKeeps, PushHeadKeeps, FetchKeeps, RebaseKeeps,
     AbortRebaseKeeps, PushRebasedKeeps DEF Workflow
<1> QED
  BY <1>1, <1>2, <1>3, <1>4 DEF Next

THEOREM Invariance == Spec => []Inv
<1>1. Init => Inv
  BY InitInv
<1>2. Inv /\ [Next]_vars => Inv'
  BY NextInv
<1> QED
  BY <1>1, <1>2, PTL DEF Spec

(* Branches, checkout and run keep their types. *)
THEOREM TypeCorrect == Spec => []TypeOK
<1>1. Inv => TypeOK
  BY DEF Inv
<1> QED
  BY <1>1, Invariance, PTL

(* A reply that says "pushed changes" is true: every path that the agent   *)
(* left different from the checkout is on the pushed branch as the agent   *)
(* left it, also when its commits were replayed on the branch of others.   *)
THEOREM Landed == Spec => []PushedMeansLanded
<1>1. Inv => PushedMeansLanded
  BY DEF Inv, Promises
<1> QED
  BY <1>1, Invariance, PTL

(* If origin has the branch, a reply that says "no changes" leaves no      *)
(* commit of the agent and no change of its own behind: all it can have    *)
(* done is drop commits of the checkout.                                   *)
THEOREM NoneLeft ==
  ASSUME NoBranch \notin Remotes
  PROVE  Spec => []NoChangesMeansNone
<1>1. Inv => NoChangesMeansNone
  BY DEF Inv, Promises
<1> QED
  BY <1>1, Invariance, PTL

(* Unless the user staged changes, the workflow's commit holds only paths  *)
(* the agent touched.                                                      *)
THEOREM OnlyTouched ==
  ASSUME ~Staged
  PROVE  Spec => []CommitsOnlyTouched
<1>1. Inv => CommitsOnlyTouched
  BY DEF Inv, Promises
<1> QED
  BY <1>1, Invariance, PTL

(* What the user changed and the agent did not stays in the checkout, also *)
(* when a commit of the agent took it along and was rebased, or is in the  *)
(* commit a rebase that was stopped halfway can be aborted to.             *)
THEOREM UserKeeps == Spec => []UserChangesStay
<1>1. Inv => UserChangesStay
  BY DEF Inv, Promises
<1> QED
  BY <1>1, Invariance, PTL

(* A step of a run that changes the branch is one of its three pushes.     *)
LEMMA PushSteps ==
  ASSUME Inv, [Next]_vars, Pushes
  PROVE  /\ remote' = repo.head /\ repo.head \in Seq(Commit)
         /\ remote \in Seq(DevCommit) /\ remote \in Seq(Commit)
         /\ job.phase \in {"force", "push", "repush"}
         /\ job.phase = "force" => remote = Lease
         /\ job.phase \in {"push", "repush"} => IsPrefix(remote, repo.head)
<1>1. PushForceWithLease \/ PushHead \/ PushRebased
  <2>1. UNCHANGED vars \/ DevPush => ~Pushes
    BY DEF vars, DevPush, Pushes
  <2>2. Agent => UNCHANGED remote
    BY DEF Agent, AgentWrites, AgentRemoves, AgentGitRm, AgentCommits, AgentAmends,
           AgentResets, AgentRebases, AgentEnds, UseTool
  <2>3. Checkout \/ Preflight \/ PreparePrompt \/ Probe \/ FinalizeCommit \/ Fetch
          \/ Rebase \/ AbortRebase => UNCHANGED remote
    BY DEF Checkout, Preflight, PreparePrompt, Probe, FinalizeCommit, Fetch, Rebase,
           AbortRebase
  <2> QED
    BY <2>1, <2>2, <2>3 DEF Next, Workflow, Pushes
<1>2. job.phase \in {"force", "push", "repush"} /\ remote' # remote /\ remote # NoBranch
  BY <1>1 DEF PushForceWithLease, PushHead, PushRebased, Pushes
<1>3. remote \in Seq(DevCommit) /\ remote \in Seq(Commit) /\ repo.head \in Seq(Commit)
  BY <1>2, OthersCommits DEF Inv, TypeOK, RepoState, Branches
<1>4. Accepted \/ TimesOut
  BY <1>1, <1>2 DEF PushForceWithLease, PushHead, PushRebased
<1>5. remote' = repo.head
  BY <1>2, <1>4 DEF Accepted, TimesOut
<1>6. job.phase = "force" => remote = Lease
  BY <1>1, <1>2 DEF PushForceWithLease, PushHead, PushRebased
<1>7. job.phase \in {"push", "repush"} => IsPrefix(remote, repo.head)
  BY <1>1, <1>2 DEF PushForceWithLease, PushHead, PushRebased, FastForward
<1> QED
  BY <1>2, <1>3, <1>5, <1>6, <1>7

(* If nobody pushes between the checkout and the preflight, a push removes *)
(* no commit that the agent's checkout did not hold.                       *)
THEOREM NothingLost ==
  ASSUME QuietCheckout, "review_comment" \notin Triggers
  PROVE  Spec => UnseenCommitKept
<1> DEFINE Kept == Pushes => ToSet(remote) \ ToSet(remote') \subseteq ToSet(job.seen)
<1>1. ASSUME Inv, [Next]_vars PROVE [Kept]_vars
  <2> SUFFICES ASSUME Pushes
               PROVE  ToSet(remote) \ ToSet(remote') \subseteq ToSet(job.seen)
    OBVIOUS
  <2>1. /\ remote' = repo.head /\ repo.head \in Seq(Commit)
        /\ remote \in Seq(DevCommit) /\ remote \in Seq(Commit)
        /\ job.phase \in {"force", "push", "repush"}
        /\ job.phase = "force" => remote = Lease
        /\ job.phase \in {"push", "repush"} => IsPrefix(remote, repo.head)
    BY <1>1, PushSteps
  <2>2. CASE job.phase = "force"
    <3>1. remote # NoBranch
      BY <2>1, OthersCommits
    <3>2. job.lease # NoBranch /\ job.lease = job.seen
      BY <1>1, <2>2, <3>1 DEF Inv, Leased, Quiet
    <3> QED
      BY <2>1, <2>2, <3>2 DEF Lease
  <2>3. CASE job.phase \in {"push", "repush"}
    BY <2>1, <2>3, PrefixPart
  <2> QED
    BY <2>1, <2>2, <2>3
<1>2. Inv /\ [Next]_vars => [Kept]_vars
  BY <1>1
<1> QED
  BY <1>2, Invariance, PTL DEF Spec, UnseenCommitKept

(* A push brings to the branch no commit of others that came and went while*)
(* the command ran, with or without a rebase, however developers push.     *)
THEOREM NothingRevived == Spec => OnlyKnownCommitsLand
<1> DEFINE Brings == Pushes => \A c \in ToSet(remote') \ ToSet(remote) :
                                 c.by # "dev" \/ c \in ToSet(job.seen)
<1>1. ASSUME Inv, [Next]_vars PROVE [Brings]_vars
  <2> SUFFICES ASSUME Pushes, NEW c \in ToSet(remote') \ ToSet(remote)
               PROVE  c.by # "dev" \/ c \in ToSet(job.seen)
    OBVIOUS
  <2>1. /\ remote' = repo.head /\ repo.head \in Seq(Commit)
        /\ remote \in Seq(DevCommit) /\ remote \in Seq(Commit)
        /\ job.phase \in {"force", "push", "repush"}
        /\ job.phase \in {"push", "repush"} => IsPrefix(remote, repo.head)
    BY <1>1, PushSteps
  <2>2. CASE job.phase \in {"force", "push"}
    <3>1. Known(repo.head, {})
      BY <1>1, <2>1, <2>2, PlacedKnown DEF Inv, Heads, Extending
    <3> QED
      BY <2>1, <3>1 DEF Known
  <2>3. CASE job.phase = "repush"
    <3>1. Fetched /\ Rebased
      BY <1>1, <2>3 DEF Inv, Heads
    <3>2. repo.tracking \in Seq(DevCommit)
      BY <1>1, <3>1 DEF Fetched, Inv, Branches
    <3>3. \A i \in 1..Len(remote) : remote[i] = repo.head[i]
      BY <2>1, <2>3, PrefixPart
    <3>4. \A i \in 1..Len(repo.tracking) : i \in 1..Len(remote) /\ remote[i] = repo.tracking[i]
      BY <2>1, <3>1, <3>2, <3>3 DEF Fetched, Rebased
    <3>5. c \notin ToSet(repo.tracking)
      BY <3>2, <3>4 DEF ToSet
    <3> QED
      BY <2>1, <3>1, <3>5 DEF Rebased, Known
  <2> QED
    BY <2>1, <2>2, <2>3
<1>2. Inv /\ [Next]_vars => [Brings]_vars
  BY <1>1
<1> QED
  BY <1>2, Invariance, PTL DEF Spec, OnlyKnownCommitsLand

-----------------------------------------------------------------------------
(* The workflow implements SharedBranch.                                   *)

(* A command that has landed is over. *)
LandsOnce == job.phase # "done" => job.landed = NoBranch

Taken == IF job.phase = "queued" THEN <<>> ELSE job.seen
seenFrom == <<remote, Taken, Stage>>

(* A step of a run that leaves the branch alone, and one that moves it. *)
StaysOff ==
  /\ job.phase \notin {"queued", "done"} /\ job'.phase # "queued"
  /\ job'.seen = job.seen /\ job'.landed = job.landed
  /\ UNCHANGED remote

Moves ==
  /\ job.phase \in {"force", "push", "repush"} /\ job'.phase = "done"
  /\ job'.seen = job.seen /\ job'.landed = repo.head /\ remote' = repo.head
  /\ IF job.phase = "force" THEN remote = Lease ELSE FastForward(remote, repo.head)

LEMMA StaysOffOrMoves ==
  ASSUME TypeOK, Agent \/ Workflow, ~Checkout
  PROVE  StaysOff \/ Moves
<1>1. job \in JobState
  BY DEF TypeOK
<1>2. Agent => StaysOff
  BY <1>1 DEF Agent, AgentWrites, AgentRemoves, AgentGitRm, AgentCommits, AgentAmends,
     AgentResets, AgentRebases, AgentEnds, UseTool, End, JobState, StaysOff
<1>3. Preflight \/ PreparePrompt \/ Probe => StaysOff
  BY <1>1 DEF Preflight, PreparePrompt, Probe, End, Raise, Killed, JobState, StaysOff
<1>4. FinalizeCommit \/ Fetch \/ Rebase \/ AbortRebase => StaysOff
  BY <1>1 DEF FinalizeCommit, Fetch, Rebase, AbortRebase, End, Raise, Killed, JobState,
     StaysOff
<1>5. PushForceWithLease => StaysOff \/ Moves
  BY <1>1 DEF PushForceWithLease, Accepted, TimesOut, End, Raise, Killed, JobState,
     StaysOff, Moves
<1>6. PushHead => StaysOff \/ Moves
  BY <1>1 DEF PushHead, Accepted, TimesOut, End, Raise, Killed, JobState,
     StaysOff, Moves
<1>7. PushRebased => StaysOff \/ Moves
  BY <1>1 DEF PushRebased, Accepted, TimesOut, End, Raise, Killed, JobState,
     StaysOff, Moves
<1> QED
  BY <1>2, <1>3, <1>4, <1>5, <1>6, <1>7 DEF Workflow

LEMMA LandsOnceNext ==
  ASSUME TypeOK, LandsOnce, [Next]_vars
  PROVE  LandsOnce'
<1>1. CASE UNCHANGED vars \/ DevPush
  BY <1>1 DEF vars, DevPush, LandsOnce
<1>2. CASE Checkout
  BY <1>2 DEF Checkout, TypeOK, JobState, LandsOnce
<1>3. CASE StaysOff \/ Moves
  BY <1>3 DEF StaysOff, Moves, LandsOnce
<1> QED
  BY <1>1, <1>2, <1>3, StaysOffOrMoves DEF Next

(* The operators on sequences that SharedBranch uses are those used here. *)
LEMMA SameOperators ==
  /\ \A s : Branch!ToSet(s) = ToSet(s)
  /\ \A s, t : Branch!IsPrefix(s, t) <=> IsPrefix(s, t)
  BY DEF ToSet, Branch!ToSet, IsPrefix, Branch!IsPrefix

(* Developers share the branch. *)
LEMMA PushesShare ==
  ASSUME Inv, DevPush
  PROVE  Branch!Share
<1>1. remote' \in Seq(DevCommit) /\ remote # NoBranch
  BY DevPushBranch DEF DevPush
<1> QED
  BY <1>1 DEF DevPush, Branch!Share, Stage

(* The checkout takes it, unless it is that of the event of a comment. *)
LEMMA CheckoutTakes ==
  ASSUME Inv, LandsOnce, Quiet, Checkout
  PROVE  Branch!Take
<1>1. job \in JobState
  BY DEF Inv, TypeOK
<1>2. PICK trigger \in Triggers, dry \in DryRuns :
        job' = [job EXCEPT !.phase = "preflight", !.trigger = trigger, !.dry = dry,
                  !.seen = IF trigger = "review_comment" \/ remote = NoBranch
                           THEN Base ELSE remote]
  BY DEF Checkout
<1>3. remote # NoBranch => job'.seen = remote
  BY <1>1, <1>2 DEF Quiet, JobState
<1>4. job'.phase = "preflight" /\ job'.landed = job.landed /\ job.phase = "queued"
  BY <1>1, <1>2 DEF JobState, Checkout
<1>5. job.landed = NoBranch
  BY <1>4 DEF LandsOnce
<1>6. Stage = "given" /\ Stage' = "working"
  BY <1>4, <1>5 DEF Stage
<1> QED
  BY <1>3, <1>4, <1>6 DEF Branch!Take, Checkout

(* What leaves the branch alone is no step of it, or the end. *)
LEMMA StayingOffEnds ==
  ASSUME LandsOnce, StaysOff
  PROVE  Branch!End \/ UNCHANGED seenFrom
<1>1. job.landed = NoBranch /\ Stage = "working"
  BY DEF LandsOnce, StaysOff, Stage
<1>2. Stage' \in {"working", "ended"} /\ Taken' = Taken
  BY <1>1 DEF StaysOff, Stage, Taken
<1> QED
  BY <1>1, <1>2 DEF Branch!End, seenFrom, Taken, StaysOff

(* A push lands. *)
LEMMA MovingLands ==
  ASSUME Inv, LandsOnce, Quiet, Moves
  PROVE  Branch!Land
<1>1. /\ remote \in Seq(DevCommit) \cup {NoBranch}
      /\ repo.head \in Seq(Commit) /\ repo.head # NoBranch
  BY BranchAssumption DEF Inv, TypeOK, RepoState, Branches, Moves
<1>2. Stage = "working" /\ Stage' = "landed"
  BY <1>1 DEF LandsOnce, Moves, Stage
<1>3. remote = NoBranch \/ remote = job.seen \/ IsPrefix(remote, remote')
  <2>1. CASE job.phase = "force"
    BY <2>1 DEF Inv, Leased, Lease, Moves
  <2>2. CASE job.phase # "force"
    BY <2>2 DEF Moves, FastForward
  <2> QED
    BY <2>1, <2>2
<1>4. ASSUME NEW c \in ToSet(repo.head), c \in DevCommit
      PROVE  c \in Branch!Commits(remote) \cup ToSet(job.seen)
  <2>1. c.by = "dev"
    BY <1>4 DEF DevCommit
  <2>2. CASE job.phase \in {"force", "push"}
    <3>1. Known(repo.head, {})
      BY <1>1, <2>2, PlacedKnown DEF Inv, Heads, Extending
    <3> QED
      BY <1>4, <2>1, <3>1 DEF Known
  <2>3. CASE job.phase = "repush"
    <3>1. Fetched /\ Rebased
      BY <2>3 DEF Inv, Heads
    <3>2. repo.tracking \in Seq(DevCommit) /\ remote # NoBranch
      BY <2>3, <3>1 DEF Fetched, Inv, Branches
    <3>3. IsPrefix(remote, repo.head)
      BY <2>3, <3>2 DEF Moves, FastForward
    <3>4. remote \in Seq(Commit)
      BY <1>1, <3>2, OthersCommits
    <3>5. \A i \in 1..Len(remote) : remote[i] = repo.head[i]
      BY <1>1, <3>3, <3>4, PrefixPart
    <3>6. \A i \in 1..Len(repo.tracking) : i \in 1..Len(remote) /\ remote[i] = repo.tracking[i]
      BY <1>1, <3>1, <3>2, <3>5 DEF Fetched, Rebased
    <3>7. ToSet(repo.tracking) \subseteq ToSet(remote)
      BY <3>2, <3>4, <3>6 DEF ToSet
    <3> QED
      BY <1>4, <2>1, <3>1, <3>2, <3>7, SameOperators DEF Rebased, Known, Branch!Commits
  <2> QED
    BY <2>2, <2>3 DEF Moves
<1>5. job.phase # "queued" /\ job'.phase # "queued" /\ job'.seen = job.seen
      /\ remote' = repo.head
  BY DEF Moves
<1> QED
  BY <1>1, <1>2, <1>3, <1>4, <1>5, SameOperators DEF Branch!Land, Branch!Commits

(* If nobody pushes between the checkout and the preflight, and no command *)
(* is a comment on a diff line, the workflow implements SharedBranch: it   *)
(* lands at most once and rewrites only what it took.                      *)
THEOREM ImplementsSharedBranch ==
  ASSUME QuietCheckout, "review_comment" \notin Triggers
  PROVE  Spec => BranchSpec
<1>1. Init => Branch!Init /\ LandsOnce
  BY DEF Init, Branch!Init, Stage, LandsOnce
<1>2. ASSUME Inv, LandsOnce, [Next]_vars
      PROVE  [Branch!Next]_seenFrom
  <2>1. CASE UNCHANGED vars
    BY <2>1 DEF vars, seenFrom, Taken, Stage
  <2>2. CASE DevPush
    BY <1>2, <2>2, PushesShare DEF Branch!Next
  <2>3. CASE Checkout
    BY <1>2, <2>3, CheckoutTakes DEF Branch!Next, Quiet
  <2>4. CASE StaysOff
    BY <1>2, <2>4, StayingOffEnds DEF Branch!Next
  <2>5. CASE Moves
    BY <1>2, <2>5, MovingLands DEF Branch!Next, Quiet
  <2> QED
    BY <1>2, <2>1, <2>2, <2>3, <2>4, <2>5, StaysOffOrMoves DEF Next, Inv
<1>3. Inv /\ LandsOnce /\ [Next]_vars => LandsOnce' /\ [Branch!Next]_seenFrom
  BY <1>2, LandsOnceNext DEF Inv
<1> QED
  BY <1>1, <1>3, Invariance, PTL DEF Spec, BranchSpec, Branch!Spec, seenFrom, Taken
=============================================================================
