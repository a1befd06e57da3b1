-------------------------- MODULE DiffAnchorsProofs --------------------------
(***************************************************************************)
(* Proofs that the parser's line numbers, added lines and hunks are those  *)
(* of the file, for every script and every number of context lines, and    *)
(* that every finding is then placed on lines that the diff has.           *)
(***************************************************************************)
EXTENDS DiffAnchors, FiniteSetTheorems, WellFoundedInduction, TLAPS

(* No line of the file has a character inside that splitlines takes for the*)
(* end of a line and that what follows then begins like a line of a patch. *)
QuietTails == \A i \in Items : i.tail \notin {" ", "+"}

-----------------------------------------------------------------------------
(* Numbers.                                                                *)

LEMMA LeastOf ==
  ASSUME NEW S \in SUBSET Nat, S # {}
  PROVE  \E x \in S : \A y \in S : x <= y
<1>1. PICK x \in S : \A y \in S : ~ (<<y, x>> \in OpToRel(<, Nat))
  BY NatLessThanWellFounded, WFMin
<1>2. \A y \in S : ~ (y < x)
  BY <1>1 DEF OpToRel
<1> QED BY <1>2

LEMMA NearestIsOne ==
  ASSUME NEW S \in SUBSET Nat, S # {}, NEW t \in Nat
  PROVE  /\ NearestOf(t, S) \in S
         /\ t \in S => NearestOf(t, S) = t
<1> DEFINE Nearer(x, y) ==
             Gap(x, t) < Gap(y, t) \/ (Gap(x, t) = Gap(y, t) /\ x <= y)
           Gaps == {Gap(x, t) : x \in S}
<1>1. ASSUME NEW x \in S PROVE Gap(x, t) \in Nat
  BY DEF Gap
<1>2. PICK x0 \in S : \A y \in S : Gap(x0, t) <= Gap(y, t)
  <2>1. Gaps \in SUBSET Nat /\ Gaps # {}
    BY <1>1
  <2>2. PICK g \in Gaps : \A h \in Gaps : g <= h
    BY <2>1, LeastOf
  <2> QED BY <2>2
<1> DEFINE Close == {x \in S : Gap(x, t) = Gap(x0, t)}
<1>3. PICK x1 \in Close : \A y \in Close : x1 <= y
  <2>1. Close \in SUBSET Nat /\ Close # {}
    BY <1>2
  <2> QED BY <2>1, LeastOf
<1>4. \A y \in S : Nearer(x1, y)
  <2> TAKE y \in S
  <2>1. Gap(x1, t) = Gap(x0, t) /\ Gap(x1, t) \in Nat /\ Gap(y, t) \in Nat /\ x1 \in S
    BY <1>1, <1>3
  <2>2. CASE Gap(y, t) = Gap(x0, t)
    BY <1>3, <2>1, <2>2
  <2>3. CASE Gap(y, t) # Gap(x0, t)
    BY <1>2, <2>1, <2>3
  <2> QED BY <2>2, <2>3
<1>5. NearestOf(t, S) \in S /\ \A y \in S : Nearer(NearestOf(t, S), y)
  <2>1. \E x \in S : \A y \in S : Nearer(x, y)
    BY <1>3, <1>4
  <2> QED BY <2>1 DEF NearestOf
<1>6. ASSUME t \in S PROVE NearestOf(t, S) = t
  <2>1. Nearer(NearestOf(t, S), t)
    BY <1>5, <1>6
  <2>2. Gap(t, t) = 0
    BY DEF Gap
  <2>3. NearestOf(t, S) \in Nat /\ Gap(NearestOf(t, S), t) \in Nat
    BY <1>1, <1>5
  <2>4. Gap(NearestOf(t, S), t) = 0
    BY <2>1, <2>2, <2>3
  <2> QED BY <2>3, <2>4 DEF Gap
<1> QED BY <1>5, <1>6

-----------------------------------------------------------------------------
(* Numbers of lines.                                                       *)

LEMMA NumberType ==
  ASSUME NEW k \in Nat
  PROVE  Number(k) \in Nat
<1>1. IsFiniteSet(1..k)
  BY FS_Interval
<1>2. {j \in 1..k : OnHead(j)} \in SUBSET (1..k)
  OBVIOUS
<1>3. IsFiniteSet({j \in 1..k : OnHead(j)})
  BY <1>1, <1>2, FS_Subset
<1> QED BY <1>3, FS_CardinalityType DEF Number

LEMMA NumberOfNone == Number(0) = 0
<1>1. {j \in 1..0 : OnHead(j)} = {}
  OBVIOUS
<1> QED BY <1>1, FS_EmptySet DEF Number

LEMMA NumberOfNext ==
  ASSUME NEW k \in Nat, k > 0
  PROVE  Number(k) = IF OnHead(k) THEN Number(k - 1) + 1 ELSE Number(k - 1)
<1> DEFINE A == {j \in 1..k : OnHead(j)}
           B == {j \in 1..(k - 1) : OnHead(j)}
<1>1. IsFiniteSet(B)
  <2>1. IsFiniteSet(1..(k - 1)) /\ B \in SUBSET (1..(k - 1))
    BY FS_Interval
  <2> QED BY <2>1, FS_Subset
<1>2. CASE OnHead(k)
  <2>1. A = B \cup {k} /\ k \notin B
    BY <1>2
  <2>2. Cardinality(A) = Cardinality(B) + 1
    BY <1>1, <2>1, FS_AddElement
  <2> QED BY <1>2, <2>2 DEF Number
<1>3. CASE ~ OnHead(k)
  <2>1. A = B
    BY <1>3
  <2> QED BY <1>3, <2>1 DEF Number
<1> QED BY <1>2, <1>3

LEMMA NumberGrows ==
  ASSUME NEW k \in Nat, NEW l \in Nat, k <= l
  PROVE  /\ Number(k) <= Number(l)
         /\ k < l /\ OnHead(l) => Number(k) < Number(l)
<1> DEFINE A == {j \in 1..k : OnHead(j)}
           B == {j \in 1..l : OnHead(j)}
<1>1. IsFiniteSet(1..l) /\ B \in SUBSET (1..l) /\ A \in SUBSET B
  BY FS_Interval
<1>2. IsFiniteSet(B)
  BY <1>1, FS_Subset
<1>3. Cardinality(A) <= Cardinality(B) /\ (Cardinality(B) = Cardinality(A) => B = A)
  BY <1>1, <1>2, FS_Subset
<1>4. Number(k) \in Nat /\ Number(l) \in Nat
  BY NumberType
<1>5. ASSUME k < l, OnHead(l) PROVE B # A
  <2>1. l \in B /\ l \notin A
    BY <1>5
  <2> QED BY <2>1
<1> QED BY <1>3, <1>4, <1>5 DEF Number

(* Lines of the head have different numbers, in their order.               *)
LEMMA NumberOrders ==
  ASSUME NEW k \in Nat, NEW l \in Nat, OnHead(k), OnHead(l)
  PROVE  /\ Number(k) = Number(l) => k = l
         /\ Number(k) < Number(l) <=> k < l
         /\ Number(k) <= Number(l) <=> k <= l
<1>1. Number(k) \in Nat /\ Number(l) \in Nat
  BY NumberType
<1>2. k < l => Number(k) < Number(l)
  BY NumberGrows
<1>3. l < k => Number(l) < Number(k)
  BY NumberGrows
<1> QED BY <1>1, <1>2, <1>3

(* No number is passed over.                                               *)
LEMMA NumberReached ==
  ASSUME NEW l \in Nat, NEW n \in Nat, 0 < n, n <= Number(l)
  PROVE  \E m \in 1..l : OnHead(m) /\ Number(m) = n
<1> DEFINE S == {j \in 0..l : n <= Number(j)}
<1>1. S \in SUBSET Nat /\ S # {}
  <2>1. l \in S
    OBVIOUS
  <2> QED BY <2>1
<1>2. PICK m \in S : \A j \in S : m <= j
  BY <1>1, LeastOf
<1>3. m \in 1..l
  <2>1. m # 0
    BY <1>2, NumberOfNone
  <2> QED BY <1>2, <2>1
<1>4. m - 1 \in 0..l /\ Number(m - 1) \in Nat /\ Number(m) \in Nat
  BY <1>3, NumberType
<1>5. Number(m - 1) < n
  BY <1>2, <1>3, <1>4
<1>6. Number(m) = IF OnHead(m) THEN Number(m - 1) + 1 ELSE Number(m - 1)
  BY <1>3, NumberOfNext
<1> QED BY <1>2, <1>3, <1>4, <1>5, <1>6

-----------------------------------------------------------------------------
(* Lines of the patch.                                                     *)

ScriptOK == script \in Seq(Items)

LEMMA ScriptLines ==
  ASSUME ScriptOK
  PROVE  Len(script) \in Nat /\ DOMAIN script = 1..Len(script)
BY DEF ScriptOK

LEMMA HeadTags ==
  ASSUME ScriptOK, NEW k \in DOMAIN script
  PROVE  /\ script[k] \in Item
         /\ OnHead(k) <=> script[k].tag \in {" ", "+"}
<1>1. script[k] \in Item
  BY AnchorAssumption DEF ScriptOK
<1>2. script[k].tag \in {" ", "+", "-"}
  BY <1>1 DEF Item
<1> QED BY <1>1, <1>2 DEF OnHead

LEMMA PatchLines ==
  ASSUME ScriptOK, NEW k \in DOMAIN script
  PROVE  /\ <<k, 0>> \in Patch <=> Opens(k)
         /\ <<k, 1>> \in Patch <=> Shown(k)
BY DEF Patch

LEMMA LinesAreNumbered ==
  ASSUME ScriptOK, NEW l \in Patch
  PROVE  \E k \in DOMAIN script : \E n \in {0, 1, 2} : l = <<k, n>>
BY DEF Patch

(* The hunk of a shown line has a line that opens it.                      *)
LEMMA Opener ==
  ASSUME ScriptOK, NEW k \in DOMAIN script, Shown(k)
  PROVE  \E o \in DOMAIN script : o <= k /\ Opens(o)
<1> DEFINE T == {j \in 1..k : \A i \in j..k : Shown(i)}
<1>1. k \in Nat /\ 1 <= k /\ k <= Len(script) /\ Len(script) \in Nat
  BY ScriptLines
<1>2. T \in SUBSET Nat /\ T # {}
  <2>1. k \in T
    <3>1. \A i \in k..k : i = k
      BY <1>1
    <3> QED BY <1>1, <3>1
  <2> QED BY <2>1, <1>1
<1>3. PICK o \in T : \A j \in T : o <= j
  <2> HIDE DEF T
  <2> QED BY <1>2, LeastOf
<1>4. o \in DOMAIN script /\ o <= k /\ Shown(o)
  BY <1>1, <1>3, ScriptLines
<1>5. CASE o = 1
  BY <1>4, <1>5 DEF Opens
<1>6. CASE o # 1
  <2>1. o - 1 \in 1..k /\ o - 1 \notin T
    BY <1>1, <1>3, <1>6
  <2>2. PICK i \in (o - 1)..k : ~ Shown(i)
    BY <2>1
  <2>3. i = o - 1
    BY <1>1, <1>3, <2>2
  <2> QED BY <1>4, <2>2, <2>3 DEF Opens
<1> QED BY <1>4, <1>5, <1>6

(* Between lines of two hunks one opens.                                   *)
LEMMA OpensBetween ==
  ASSUME ScriptOK, NEW k \in DOMAIN script, NEW l \in DOMAIN script, k <= l, Shown(k), Shown(l),
         ~ OneHunk(k, l)
  PROVE  \E o \in DOMAIN script : k < o /\ o <= l /\ Opens(o)
<1>1. k \in Nat /\ l \in Nat /\ 1 <= k /\ l <= Len(script) /\ Len(script) \in Nat
  BY ScriptLines
<1>2. PICK m \in k..l : ~ Shown(m)
  <2>1. \A m \in l..k : m = k \/ m = l
    BY <1>1
  <2> QED BY <1>1, <2>1 DEF OneHunk
<1> DEFINE T == {j \in m..l : \A i \in j..l : Shown(i)}
<1>3. T \in SUBSET Nat /\ T # {}
  <2>1. l \in T
    <3>1. \A i \in l..l : i = l
      BY <1>1
    <3> QED BY <1>1, <1>2, <3>1
  <2> QED BY <1>1, <1>2, <2>1
<1>4. PICK o \in T : \A j \in T : o <= j
  <2> HIDE DEF T
  <2> QED BY <1>3, LeastOf
<1>5. o # m
  BY <1>1, <1>2, <1>4
<1>6. o - 1 \in m..l /\ o - 1 \notin T
  BY <1>1, <1>2, <1>4, <1>5
<1>7. PICK i \in (o - 1)..l : ~ Shown(i)
  BY <1>6
<1>8. i = o - 1
  BY <1>1, <1>2, <1>4, <1>7
<1>9. o \in DOMAIN script /\ k < o /\ o <= l /\ Shown(o)
  BY <1>1, <1>2, <1>4, <1>5, ScriptLines
<1> QED BY <1>7, <1>8, <1>9 DEF Opens

LEMMA NotBetween ==
  ASSUME ScriptOK, NEW k \in DOMAIN script, NEW l \in DOMAIN script, NEW o \in DOMAIN script,
         k < o, o <= l, Opens(o)
  PROVE  ~ OneHunk(k, l) /\ ~ OneHunk(l, k)
<1>1. k \in Nat /\ l \in Nat /\ o \in Nat /\ 1 <= k
  BY ScriptLines
<1>2. o - 1 \in k..l /\ o # 1
  BY <1>1
<1> QED BY <1>1, <1>2 DEF Opens, OneHunk

(* Nothing that is said of the script changes.                             *)
LEMMA SameScript ==
  ASSUME UNCHANGED script
  PROVE  /\ \A k : Changed(k)' = Changed(k) /\ OnHead(k)' = OnHead(k)
         /\ \A k : Shown(k)' = Shown(k)
         /\ \A k : Number(k)' = Number(k)
         /\ Patch' = Patch
         /\ HeadItems' = HeadItems
<1>1. \A k : Changed(k)' = Changed(k) /\ OnHead(k)' = OnHead(k)
  BY DEF Changed, OnHead
<1>2. \A k : Shown(k)' = Shown(k)
  BY DEF Changed, Shown
<1>3. \A k : Number(k)' = Number(k)
  BY DEF Number, OnHead
<1>4. Patch' = Patch
  BY DEF Patch, Opens, Shown, Changed
<1>5. HeadItems' = HeadItems
  BY DEF HeadItems, OnHead, Shown, Changed
<1> QED BY <1>1, <1>2, <1>3, <1>4, <1>5

LEMMA SameHunks ==
  ASSUME UNCHANGED script
  PROVE  /\ \A k, l : OneHunk(k, l)' = OneHunk(k, l)
         /\ \A k : Opens(k)' = Opens(k)
BY DEF OneHunk, Opens, Shown, Changed

-----------------------------------------------------------------------------
(* What the parser has made of the lines it has read.                      *)

ReadItems == {k \in HeadItems : <<k, 1>> \notin unread}

(* The first item to be read, with its hunk's header behind it.            *)
Upcoming(k) ==
  /\ k \in DOMAIN script /\ <<k, 1>> \in unread
  /\ \A j \in DOMAIN script : j < k => <<j, 1>> \notin unread
  /\ \A o \in DOMAIN script : o <= k => <<o, 0>> \notin unread

(* The hunk has a line at the head, from the k-th item on.                 *)
Ahead(k) == \E l \in k..Len(script) : OneHunk(k, l) /\ OnHead(l)

(* What has been read of the last hunk.                                    *)
Current == {k \in ReadItems : \A o \in DOMAIN script : Opens(o) /\ k < o => <<o, 0>> \in unread}

Ordered == \A l \in Patch \ unread, m \in unread : Precedes(l, m)

Opened == unread # Patch => inHunk

Counted ==
  /\ parsed.valid = NumbersOf(ReadItems)
  /\ parsed.added = NumbersOf({k \in ReadItems : Changed(k)})
  /\ parsed.nonblank = NumbersOf({k \in ReadItems : ~ script[k].blank})

Positioned == \A k \in DOMAIN script : Upcoming(k) /\ Ahead(k) => headLine = Number(k - 1)

Bounded ==
  \/ bounds = NoBounds /\ Current = {}
  \/ \E k, l \in Current : /\ bounds = <<Number(k), Number(l)>>
                           /\ \A j \in Current : k <= j /\ j <= l

IsHunk(h) == \E k, l \in HeadItems : OneHunk(k, l) /\ h = <<Number(k), Number(l)>>

HunksReal == \A h \in parsed.hunks : IsHunk(h)

Holds(h, k, l) ==
  /\ h[1] <= Number(k) /\ Number(k) <= h[2]
  /\ h[1] <= Number(l) /\ Number(l) <= h[2]

HunksClosed ==
  \A k, l \in ReadItems \ Current : OneHunk(k, l) => \E h \in parsed.hunks : Holds(h, k, l)

Parsing == Ordered /\ Opened /\ Counted /\ Positioned /\ Bounded /\ HunksReal /\ HunksClosed

TypesOK ==
  /\ ScriptOK
  /\ unread \subseteq Patch
  /\ headLine \in Nat
  /\ parsed \in [valid : SUBSET Nat, added : SUBSET Nat, nonblank : SUBSET Nat,
                 hunks : SUBSET (Nat \X Nat)]

LEMMA HeadItemsAre ==
  ASSUME ScriptOK, NEW k \in HeadItems
  PROVE  k \in DOMAIN script /\ k \in Nat /\ 1 <= k /\ Shown(k) /\ OnHead(k) /\ <<k, 1>> \in Patch
<1>1. k \in DOMAIN script /\ Shown(k) /\ OnHead(k)
  BY DEF HeadItems
<1>2. <<k, 1>> \in Patch
  BY <1>1, PatchLines
<1>3. k \in Nat /\ 1 <= k
  BY <1>1, ScriptLines
<1> QED BY <1>1, <1>2, <1>3

LEMMA OneHunkWithin ==
  ASSUME ScriptOK, NEW k \in Nat, NEW l \in Nat, NEW i \in Nat, NEW j \in Nat,
         OneHunk(k, l), k <= i, i <= l, k <= j, j <= l
  PROVE  OneHunk(i, j)
BY DEF OneHunk

LEMMA OneHunkTurned ==
  ASSUME NEW k, NEW l
  PROVE  OneHunk(k, l) <=> OneHunk(l, k)
BY DEF OneHunk

(* What has been read of the last hunk is in one hunk, and what was read   *)
(* before it is in another.                                                *)
LEMMA CurrentIsOne ==
  ASSUME TypesOK, Ordered, NEW k \in Current, NEW l \in Current
  PROVE  OneHunk(k, l)
<1>1. ASSUME NEW i \in Current, NEW j \in Current, i <= j PROVE OneHunk(i, j)
  <2>1. i \in HeadItems /\ j \in HeadItems /\ <<j, 1>> \notin unread
    BY DEF Current, ReadItems
  <2>2. /\ i \in DOMAIN script /\ i \in Nat /\ Shown(i)
        /\ j \in DOMAIN script /\ j \in Nat /\ Shown(j) /\ <<j, 1>> \in Patch
    BY <2>1, HeadItemsAre DEF TypesOK
  <2>3. SUFFICES ASSUME ~ OneHunk(i, j) PROVE FALSE
    OBVIOUS
  <2>4. PICK o \in DOMAIN script : i < o /\ o <= j /\ Opens(o)
    BY <1>1, <2>2, <2>3, OpensBetween DEF TypesOK
  <2>5. <<o, 0>> \in unread
    BY <2>4 DEF Current
  <2>6. Precedes(<<j, 1>>, <<o, 0>>)
    BY <2>1, <2>2, <2>5 DEF Ordered
  <2>7. o \in Nat
    BY ScriptLines DEF TypesOK
  <2> QED BY <2>2, <2>4, <2>6, <2>7 DEF Precedes
<1>2. k \in HeadItems /\ l \in HeadItems
  BY DEF Current, ReadItems
<1>3. k \in Nat /\ l \in Nat
  BY <1>2, HeadItemsAre DEF TypesOK
<1>4. CASE k <= l
  BY <1>1, <1>4
<1>5. CASE l <= k
  BY <1>1, <1>5, OneHunkTurned
<1> QED BY <1>3, <1>4, <1>5

LEMMA CurrentIsApart ==
  ASSUME TypesOK, Ordered, NEW k \in ReadItems \ Current, NEW l \in Current
  PROVE  ~ OneHunk(k, l) /\ ~ OneHunk(l, k)
<1>1. k \in HeadItems /\ l \in HeadItems
  BY DEF Current, ReadItems
<1>2. /\ k \in DOMAIN script /\ k \in Nat
      /\ l \in DOMAIN script /\ l \in Nat /\ <<l, 1>> \in Patch
  BY <1>1, HeadItemsAre DEF TypesOK
<1>3. PICK o \in DOMAIN script : Opens(o) /\ k < o /\ <<o, 0>> \notin unread
  BY DEF Current
<1>4. o \in Nat
  BY ScriptLines DEF TypesOK
<1>5. o <= l
  <2>1. ~ (l < o)
    BY <1>3 DEF Current
  <2> QED BY <1>2, <1>4, <2>1
<1> QED BY <1>2, <1>3, <1>5, NotBetween DEF TypesOK

-----------------------------------------------------------------------------
(* Reading.                                                                *)

LEMMA ReadsInOrder ==
  ASSUME TypesOK, Ordered, NEW l, Reads(l)
  PROVE  /\ unread' \subseteq Patch'
         /\ Ordered'
<1>1. UNCHANGED script /\ Patch' = Patch
  BY SameScript DEF Reads
<1>2. l \in unread /\ unread' = unread \ {l}
  BY DEF Reads
<1>3. ASSUME NEW a \in Patch \ unread', NEW b \in unread' PROVE Precedes(a, b)
  <2>1. CASE a = l
    BY <1>2, <1>3, <2>1 DEF Reads
  <2>2. CASE a # l
    BY <1>2, <1>3, <2>2 DEF Ordered
  <2> QED BY <2>1, <2>2
<1>4. \A a \in Patch' \ unread', b \in unread' : Precedes(a, b)
  BY <1>1, <1>3
<1> QED BY <1>1, <1>2, <1>4 DEF TypesOK, Ordered, Precedes

(* What is read after the header of a hunk is the line that opens it.      *)
LEMMA UpcomingAfterHeader ==
  ASSUME TypesOK, Ordered, NEW o \in DOMAIN script, Reads(<<o, 0>>),
         NEW k \in DOMAIN script, Upcoming(k)'
  PROVE  k = o /\ Opens(o)
<1>1. UNCHANGED script
  BY DEF Reads
<1>2. <<o, 0>> \in unread /\ unread' = unread \ {<<o, 0>>}
  BY DEF Reads
<1>3. o \in Nat /\ k \in Nat
  BY ScriptLines DEF TypesOK
<1>4. Opens(o) /\ <<o, 1>> \in Patch
  <2>1. Opens(o)
    BY <1>2, PatchLines DEF TypesOK
  <2>2. Shown(o)
    BY <2>1 DEF Opens
  <2> QED BY <2>1, <2>2, PatchLines DEF TypesOK
<1>5. <<o, 1>> \in unread
  <2>1. ~ Precedes(<<o, 1>>, <<o, 0>>)
    BY <1>3 DEF Precedes
  <2> QED BY <1>2, <1>4, <2>1 DEF Ordered
<1>6. <<o, 1>> \in unread'
  BY <1>2, <1>5
<1>7. ~ (o < k)
  BY <1>1, <1>6 DEF Upcoming
<1>8. ~ (k < o)
  <2>1. <<k, 1>> \in unread /\ <<k, 1>> # <<o, 0>>
    BY <1>2 DEF Upcoming
  <2>2. Precedes(<<o, 0>>, <<k, 1>>)
    BY <2>1 DEF Reads
  <2> QED BY <1>3, <2>2 DEF Precedes
<1> QED BY <1>3, <1>4, <1>7, <1>8

(* What is read after a line is the next one, unless a header comes first. *)
LEMMA UpcomingAfterLine ==
  ASSUME TypesOK, Ordered, NEW k \in DOMAIN script, Reads(<<k, 1>>),
         NEW n \in DOMAIN script, Upcoming(n)'
  PROVE  n = k + 1
<1>1. UNCHANGED script
  BY DEF Reads
<1>2. <<k, 1>> \in unread /\ unread' = unread \ {<<k, 1>>}
  BY DEF Reads
<1>3. n \in 1..Len(script) /\ k \in 1..Len(script) /\ Len(script) \in Nat
  BY ScriptLines DEF TypesOK
<1>4. <<n, 1>> \in unread /\ <<n, 1>> # <<k, 1>>
  BY <1>2 DEF Upcoming
<1>5. k < n
  <2>1. Precedes(<<k, 1>>, <<n, 1>>)
    BY <1>4 DEF Reads
  <2> QED BY <1>3, <2>1 DEF Precedes
<1>6. ASSUME NEW l \in Patch, l \notin unread', l # <<k, 1>> PROVE Precedes(l, <<k, 1>>)
  BY <1>2, <1>6 DEF Ordered
<1>7. ~ Opens(n)
  <2>1. SUFFICES ASSUME Opens(n) PROVE FALSE
    OBVIOUS
  <2>2. <<n, 0>> \in Patch
    BY <2>1, PatchLines DEF TypesOK
  <2>3. <<n, 0>> \notin unread'
    BY <1>1, <1>3 DEF Upcoming
  <2>4. Precedes(<<n, 0>>, <<k, 1>>)
    BY <1>6, <2>2, <2>3
  <2> QED BY <1>3, <1>5, <2>4 DEF Precedes
<1>8. n - 1 \in DOMAIN script /\ Shown(n - 1)
  <2>1. Shown(n)
    BY <1>4, PatchLines DEF TypesOK
  <2>2. n - 1 \in 1..Len(script)
    BY <1>3, <1>5
  <2>3. n - 1 \in DOMAIN script
    BY <2>2, ScriptLines DEF TypesOK
  <2> QED BY <1>7, <2>1, <2>3 DEF Opens
<1>9. <<n - 1, 1>> \in Patch
  BY <1>8, PatchLines DEF TypesOK
<1>10. CASE n - 1 = k
  BY <1>3, <1>10
<1>11. CASE n - 1 # k
  <2>1. n - 1 < n
    BY <1>3
  <2>2. <<n - 1, 1>> \notin unread'
    BY <1>1, <1>8, <2>1 DEF Upcoming
  <2>3. Precedes(<<n - 1, 1>>, <<k, 1>>)
    BY <1>6, <1>9, <1>11, <2>2
  <2> QED BY <1>3, <1>5, <1>11, <2>3 DEF Precedes
<1> QED BY <1>10, <1>11

LEMMA UpcomingIs ==
  ASSUME TypesOK, Ordered, NEW k \in DOMAIN script, Reads(<<k, 1>>)
  PROVE  Upcoming(k) /\ Shown(k) /\ unread # Patch
<1>1. <<k, 1>> \in unread /\ \A m \in unread : <<k, 1>> = m \/ Precedes(<<k, 1>>, m)
  BY DEF Reads
<1>2. DOMAIN script \in SUBSET Nat
  BY ScriptLines DEF TypesOK
<1>3. ASSUME NEW j \in DOMAIN script, j < k PROVE <<j, 1>> \notin unread
  BY <1>1, <1>2, <1>3 DEF Precedes
<1>4. ASSUME NEW o \in DOMAIN script, o <= k PROVE <<o, 0>> \notin unread
  BY <1>1, <1>2, <1>4 DEF Precedes
<1>5. Shown(k)
  BY <1>1, PatchLines DEF TypesOK
<1>6. unread # Patch
  <2>1. PICK o \in DOMAIN script : o <= k /\ Opens(o)
    BY <1>5, Opener DEF TypesOK
  <2>2. <<o, 0>> \in Patch
    BY <2>1, PatchLines DEF TypesOK
  <2> QED BY <1>4, <2>1, <2>2
<1> QED BY <1>1, <1>3, <1>4, <1>5, <1>6 DEF Upcoming

LEMMA HeadNumber ==
  ASSUME ScriptOK, NEW k \in HeadItems
  PROVE  Number(k) \in Nat /\ Number(k) > 0
<1>1. k \in Nat /\ 1 <= k
  BY HeadItemsAre
<1>2. OnHead(k)
  BY DEF HeadItems
<1>3. 0 \in Nat /\ 0 <= k /\ 0 < k
  BY <1>1
<1>4. Number(0) < Number(k)
  BY <1>1, <1>2, <1>3, NumberGrows
<1> QED BY <1>1, <1>4, NumberOfNone, NumberType

(* A hunk that is closed has all that was read of it.                      *)
LEMMA ClosedHunks ==
  ASSUME TypesOK, Ordered, Opened, Bounded, HunksReal, HunksClosed
  PROVE  /\ Closed.valid = parsed.valid
         /\ Closed.added = parsed.added
         /\ Closed.nonblank = parsed.nonblank
         /\ \A h \in Closed.hunks : IsHunk(h)
         /\ \A k, l \in ReadItems : OneHunk(k, l) => \E h \in Closed.hunks : Holds(h, k, l)
<1>1. /\ Closed.valid = parsed.valid
      /\ Closed.added = parsed.added
      /\ Closed.nonblank = parsed.nonblank
      /\ Closed.hunks = IF inHunk /\ bounds # NoBounds THEN parsed.hunks \cup {bounds}
                        ELSE parsed.hunks
  BY DEF TypesOK, Closed
<1>2. ASSUME NEW k \in ReadItems
      PROVE  /\ k \in HeadItems /\ k \in Nat /\ k \in DOMAIN script
             /\ Number(k) \in Nat /\ Number(k) > 0 /\ inHunk
  <2>1. k \in HeadItems /\ <<k, 1>> \notin unread
    BY DEF ReadItems
  <2>2. k \in Nat /\ k \in DOMAIN script /\ <<k, 1>> \in Patch /\ Number(k) \in Nat /\ Number(k) > 0
    BY <2>1, HeadItemsAre, HeadNumber DEF TypesOK
  <2>3. unread # Patch
    BY <2>1, <2>2
  <2> QED BY <2>1, <2>2, <2>3 DEF Opened
<1>3. Current \subseteq ReadItems
  BY DEF Current
<1>4. ASSUME bounds # NoBounds PROVE IsHunk(bounds)
  <2>1. PICK k \in Current, l \in Current : bounds = <<Number(k), Number(l)>>
    BY <1>4 DEF Bounded
  <2>2. OneHunk(k, l) /\ k \in HeadItems /\ l \in HeadItems
    BY <1>2, <1>3, CurrentIsOne
  <2> QED BY <2>1, <2>2 DEF IsHunk
<1>5. \A h \in Closed.hunks : IsHunk(h)
  BY <1>1, <1>4 DEF HunksReal
<1>6. ASSUME NEW k \in ReadItems, NEW l \in ReadItems, OneHunk(k, l)
      PROVE  \E h \in Closed.hunks : Holds(h, k, l)
  <2>1. CASE k \in Current /\ l \in Current
    <3>1. PICK a \in Current, b \in Current :
            bounds = <<Number(a), Number(b)>> /\ \A j \in Current : a <= j /\ j <= b
      BY <2>1 DEF Bounded
    <3>2. Number(a) \in Nat /\ Number(a) > 0 /\ Number(b) \in Nat
      BY <1>2, <1>3
    <3>3. bounds # NoBounds
      BY <3>1, <3>2 DEF NoBounds
    <3>4. bounds \in Closed.hunks
      BY <1>1, <1>2, <3>3
    <3>5. /\ Number(a) <= Number(k) /\ Number(k) <= Number(b)
          /\ Number(a) <= Number(l) /\ Number(l) <= Number(b)
      <4>1. a <= k /\ k <= b /\ a <= l /\ l <= b
        BY <2>1, <3>1
      <4>2. a \in Nat /\ b \in Nat /\ k \in Nat /\ l \in Nat
        BY <1>2, <1>3
      <4> QED BY <4>1, <4>2, NumberGrows
    <3> QED BY <3>1, <3>4, <3>5 DEF Holds
  <2>2. CASE k \notin Current /\ l \notin Current
    <3>1. PICK h \in parsed.hunks : Holds(h, k, l)
      BY <1>6, <2>2 DEF HunksClosed
    <3> QED BY <1>1, <3>1
  <2>3. CASE k \notin Current /\ l \in Current
    BY <1>6, <2>3, CurrentIsApart
  <2>4. CASE k \in Current /\ l \notin Current
    BY <1>6, <2>4, CurrentIsApart
  <2> QED BY <2>1, <2>2, <2>3, <2>4
<1> QED BY <1>1, <1>5, <1>6

LEMMA HeaderKeeps ==
  ASSUME TypesOK, Parsing, NEW o \in DOMAIN script, ReadHeader(o)
  PROVE  Parsing'
<1> USE DEF Parsing
<1>1. Reads(<<o, 0>>)
  BY DEF ReadHeader
<1>2. /\ UNCHANGED script /\ HeadItems' = HeadItems /\ Patch' = Patch
      /\ \A k : Number(k)' = Number(k) /\ Changed(k)' = Changed(k) /\ OnHead(k)' = OnHead(k)
  BY <1>1, SameScript DEF Reads
<1>3. /\ \A k, l : OneHunk(k, l)' = OneHunk(k, l)
      /\ \A k : Opens(k)' = Opens(k)
  BY <1>2, SameHunks
<1>4. <<o, 0>> \in unread /\ unread' = unread \ {<<o, 0>>}
  BY <1>1 DEF Reads
<1>5. /\ parsed' = Closed /\ inHunk' /\ bounds' = NoBounds
      /\ headLine' = IF HeadStart(o) > 0 THEN HeadStart(o) - 1 ELSE 0
  BY DEF ReadHeader
<1>6. ReadItems' = ReadItems
  <2>1. \A k : <<k, 1>> \in unread' <=> <<k, 1>> \in unread
    BY <1>4
  <2> QED BY <1>2, <2>1 DEF ReadItems
<1>7. Current' = {}
  <2>1. SUFFICES ASSUME NEW k \in Current' PROVE FALSE
    OBVIOUS
  <2>2. k \in ReadItems
    BY <1>6 DEF Current
  <2>3. k \in HeadItems /\ <<k, 1>> \notin unread
    BY <2>2 DEF ReadItems
  <2>4. k \in Nat /\ <<k, 1>> \in Patch
    BY <2>3, HeadItemsAre DEF TypesOK
  <2>5. Precedes(<<k, 1>>, <<o, 0>>)
    BY <1>4, <2>3, <2>4 DEF Ordered
  <2>6. o \in Nat
    BY ScriptLines DEF TypesOK
  <2>7. k < o
    BY <2>4, <2>5, <2>6 DEF Precedes
  <2>8. Opens(o)
    <3>1. <<o, 0>> \in Patch
      BY <1>4 DEF TypesOK
    <3> QED BY <3>1, PatchLines DEF TypesOK
  <2>9. <<o, 0>> \in unread'
    BY <1>2, <1>3, <2>7, <2>8 DEF Current
  <2> QED BY <1>4, <2>9
<1>8. /\ Closed.valid = parsed.valid
      /\ Closed.added = parsed.added
      /\ Closed.nonblank = parsed.nonblank
      /\ \A h \in Closed.hunks : IsHunk(h)
      /\ \A k, l \in ReadItems : OneHunk(k, l) => \E h \in Closed.hunks : Holds(h, k, l)
  BY ClosedHunks
<1>9. Ordered'
  BY <1>1, ReadsInOrder
<1>10. Opened'
  BY <1>5 DEF Opened
<1>11. Counted'
  BY <1>2, <1>5, <1>6, <1>8 DEF Counted, NumbersOf
<1>12. Positioned'
  <2>1. SUFFICES ASSUME NEW k \in DOMAIN script, Upcoming(k)', Ahead(k)'
                 PROVE  headLine' = Number(k - 1)
    BY <1>2 DEF Positioned
  <2>2. k = o
    BY <1>1, <2>1, UpcomingAfterHeader
  <2>3. Ahead(o)
    BY <1>2, <1>3, <2>1, <2>2 DEF Ahead
  <2>4. HeadStart(o) = Number(o - 1) + 1
    BY <2>3 DEF HeadStart, Ahead
  <2>5. o - 1 \in Nat
    BY ScriptLines DEF TypesOK
  <2>6. Number(o - 1) \in Nat
    BY <2>5, NumberType
  <2> QED BY <1>5, <2>2, <2>4, <2>6
<1>13. Bounded'
  BY <1>5, <1>7 DEF Bounded, NoBounds
<1>14. HunksReal'
  BY <1>2, <1>3, <1>5, <1>8 DEF HunksReal, IsHunk
<1>15. HunksClosed'
  BY <1>2, <1>3, <1>5, <1>6, <1>8 DEF HunksClosed, Holds
<1> QED BY <1>9, <1>10, <1>11, <1>12, <1>13, <1>14, <1>15

LEMMA LineKeeps ==
  ASSUME TypesOK, Parsing, NEW k \in DOMAIN script, ReadLine(k)
  PROVE  Parsing'
<1> USE DEF Parsing
<1>1. Reads(<<k, 1>>) /\ Count(script[k].tag, script[k].blank)
  BY DEF ReadLine
<1>2. /\ UNCHANGED script /\ HeadItems' = HeadItems /\ Patch' = Patch
      /\ \A j : Number(j)' = Number(j) /\ Changed(j)' = Changed(j) /\ OnHead(j)' = OnHead(j)
  BY <1>1, SameScript DEF Reads
<1>3. /\ \A i, j : OneHunk(i, j)' = OneHunk(i, j)
      /\ \A j : Opens(j)' = Opens(j)
  BY <1>2, SameHunks
<1>4. <<k, 1>> \in unread /\ unread' = unread \ {<<k, 1>>}
  BY <1>1 DEF Reads
<1>5. Upcoming(k) /\ Shown(k) /\ inHunk
  BY <1>1, UpcomingIs DEF Opened
<1>6. k \in 1..Len(script) /\ Len(script) \in Nat
  BY ScriptLines DEF TypesOK
<1>7. k \in Nat /\ k > 0 /\ Number(k) \in Nat /\ Number(k - 1) \in Nat
      /\ Number(k) = IF OnHead(k) THEN Number(k - 1) + 1 ELSE Number(k - 1)
  <2>1. k \in Nat /\ k > 0 /\ k - 1 \in Nat
    BY <1>6
  <2>2. Number(k) \in Nat /\ Number(k - 1) \in Nat
    BY <2>1, NumberType
  <2> QED BY <2>1, <2>2, NumberOfNext
<1>8. Ordered'
  BY <1>1, ReadsInOrder
<1>9. ASSUME NEW n \in DOMAIN script, Upcoming(n)', Ahead(n)'
      PROVE  n = k + 1 /\ Ahead(k)
  <2>1. n = k + 1
    BY <1>1, <1>9, UpcomingAfterLine
  <2>2. PICK l \in n..Len(script) : OneHunk(n, l) /\ OnHead(l)
    BY <1>2, <1>3, <1>9 DEF Ahead
  <2>3. l \in k..Len(script)
    BY <1>6, <2>1
  <2>4. OneHunk(k, l)
    <3>1. ASSUME NEW m \in (k..l) \cup (l..k) PROVE Shown(m)
      <4>1. m = k \/ m \in n..l
        BY <1>6, <2>1, <2>2
      <4> QED BY <1>5, <2>2, <4>1 DEF OneHunk
    <3> QED BY <3>1 DEF OneHunk
  <2> QED BY <2>1, <2>2, <2>3, <2>4 DEF Ahead
<1>10. \A o : <<o, 0>> \in unread' <=> <<o, 0>> \in unread
  BY <1>4
<1>11. \A j : j # k => (<<j, 1>> \in unread' <=> <<j, 1>> \in unread)
  BY <1>4
<1>12. \A n \in DOMAIN script : n = k + 1 => n - 1 = k
  BY <1>6
<1>13. CASE ~ OnHead(k)
  <2>1. UNCHANGED <<inHunk, headLine, bounds, parsed>>
    <3>1. ~ (script[k].tag \in {" ", "+"})
      BY <1>13, HeadTags DEF TypesOK
    <3> QED BY <1>1, <3>1 DEF Count
  <2>2. k \notin HeadItems
    BY <1>13 DEF HeadItems
  <2>3. ReadItems' = ReadItems
    BY <1>2, <1>11, <2>2 DEF ReadItems
  <2>4. Current' = Current
    BY <1>2, <1>3, <1>10, <2>3 DEF Current
  <2>5. Opened'
    BY <1>5, <2>1 DEF Opened
  <2>6. Counted'
    BY <1>2, <2>1, <2>3 DEF Counted, NumbersOf
  <2>7. Positioned'
    <3>1. SUFFICES ASSUME NEW n \in DOMAIN script, Upcoming(n)', Ahead(n)'
                   PROVE  headLine = Number(n - 1)
      BY <1>2, <2>1 DEF Positioned
    <3>2. n = k + 1 /\ Ahead(k)
      BY <1>9, <3>1
    <3>3. headLine = Number(k - 1)
      BY <1>5, <3>2 DEF Positioned
    <3> QED BY <1>7, <1>12, <1>13, <3>2, <3>3
  <2>8. Bounded'
    BY <1>2, <2>1, <2>4 DEF Bounded, NoBounds
  <2>9. HunksReal'
    BY <1>2, <1>3, <2>1 DEF HunksReal, IsHunk
  <2>10. HunksClosed'
    BY <1>2, <1>3, <2>1, <2>3, <2>4 DEF HunksClosed, Holds
  <2> QED BY <1>8, <2>5, <2>6, <2>7, <2>8, <2>9, <2>10
<1>14. CASE OnHead(k)
  <2> DEFINE line == headLine + 1
  <2>1. /\ headLine' = line
        /\ parsed' = [parsed EXCEPT
             !.valid = @ \cup {line},
             !.added = IF script[k].tag = "+" THEN @ \cup {line} ELSE @,
             !.nonblank = IF script[k].blank THEN @ \ {line} ELSE @ \cup {line}]
        /\ bounds' = Expanded(line)
        /\ UNCHANGED inHunk
    <3>1. script[k].tag \in {" ", "+"}
      BY <1>14, HeadTags DEF TypesOK
    <3> QED BY <1>1, <1>5, <3>1 DEF Count
  <2>2. headLine = Number(k - 1) /\ line = Number(k)
    <3>1. Ahead(k)
      <4>1. k \in k..Len(script)
        BY <1>6
      <4>2. \A m \in (k..k) \cup (k..k) : m = k
        BY <1>6
      <4>3. OneHunk(k, k)
        BY <1>5, <4>2 DEF OneHunk
      <4> QED BY <1>14, <4>1, <4>3 DEF Ahead
    <3>2. headLine = Number(k - 1)
      BY <1>5, <3>1 DEF Positioned
    <3> QED BY <1>7, <1>14, <3>2
  <2> HIDE DEF line
  <2>3. k \in HeadItems /\ k \notin ReadItems
    BY <1>4, <1>5, <1>14 DEF HeadItems, ReadItems
  <2>4. ReadItems' = ReadItems \cup {k}
    <3>1. <<k, 1>> \notin unread'
      BY <1>4
    <3> QED BY <1>2, <1>11, <2>3, <3>1 DEF ReadItems
  <2>5. Current' = Current \cup {k}
    <3>1. ASSUME NEW o \in DOMAIN script, Opens(o), k < o PROVE <<o, 0>> \in unread
      <4>1. <<o, 0>> \in Patch
        BY <3>1, PatchLines DEF TypesOK
      <4>2. o \in Nat
        BY ScriptLines DEF TypesOK
      <4>3. ~ Precedes(<<o, 0>>, <<k, 1>>)
        BY <1>6, <3>1, <4>2 DEF Precedes
      <4> QED BY <1>4, <4>1, <4>3 DEF Ordered
    <3> QED BY <1>2, <1>3, <1>10, <2>4, <3>1 DEF Current
  <2>6. ASSUME NEW j \in ReadItems PROVE j \in Nat /\ j < k /\ j \in HeadItems
    <3>1. j \in HeadItems /\ <<j, 1>> \notin unread
      BY DEF ReadItems
    <3>2. j \in Nat /\ <<j, 1>> \in Patch
      BY <3>1, HeadItemsAre DEF TypesOK
    <3>3. Precedes(<<j, 1>>, <<k, 1>>)
      BY <1>4, <3>1, <3>2 DEF Ordered
    <3> QED BY <1>6, <3>1, <3>2, <3>3 DEF Precedes
  <2>7. Opened'
    BY <1>5, <2>1 DEF Opened
  <2>8. Counted'
    <3>1. parsed'.valid = parsed.valid \cup {line}
      BY <2>1 DEF TypesOK
    <3>2. parsed'.added = IF script[k].tag = "+" THEN parsed.added \cup {line} ELSE parsed.added
      BY <2>1 DEF TypesOK
    <3>3. parsed'.nonblank = IF script[k].blank THEN parsed.nonblank \ {line}
                             ELSE parsed.nonblank \cup {line}
      BY <2>1 DEF TypesOK
    <3>4. parsed'.valid = NumbersOf(ReadItems)'
      BY <1>2, <2>2, <2>4, <3>1 DEF Counted, NumbersOf
    <3>5. Changed(k) <=> script[k].tag = "+"
      <4>1. script[k].tag \in {" ", "+"}
        BY <1>14, HeadTags DEF TypesOK
      <4> QED BY <4>1 DEF Changed
    <3>6. parsed'.added = NumbersOf({j \in ReadItems : Changed(j)})'
      BY <1>2, <2>2, <2>4, <3>2, <3>5 DEF Counted, NumbersOf
    <3>7. line \notin NumbersOf(ReadItems)
      <4>1. ASSUME NEW j \in ReadItems PROVE Number(j) # Number(k)
        <5>1. OnHead(j) /\ j \in Nat /\ j # k
          BY <1>6, <2>6 DEF HeadItems
        <5> QED BY <1>7, <1>14, <5>1, NumberOrders
      <4> QED BY <2>2, <4>1 DEF NumbersOf
    <3>8. parsed'.nonblank = NumbersOf({j \in ReadItems : ~ script[j].blank})'
      <4>1. line \notin parsed.nonblank
        BY <3>7 DEF Counted, NumbersOf
      <4> QED BY <1>2, <2>2, <2>4, <3>3, <4>1 DEF Counted, NumbersOf
    <3> QED BY <3>4, <3>6, <3>8 DEF Counted
  <2>9. Positioned'
    <3>1. SUFFICES ASSUME NEW n \in DOMAIN script, Upcoming(n)', Ahead(n)'
                   PROVE  line = Number(n - 1)
      BY <1>2, <2>1 DEF Positioned
    <3> QED BY <1>9, <1>12, <2>2, <3>1
  <2>10. Bounded'
    <3>1. CASE bounds = NoBounds /\ Current = {}
      <4>1. bounds' = <<Number(k), Number(k)>> /\ Current' = {k}
        BY <2>1, <2>2, <2>5, <3>1 DEF Expanded
      <4>2. k <= k
        BY <1>6
      <4> QED BY <1>2, <4>1, <4>2 DEF Bounded
    <3>2. CASE \E a, b \in Current : /\ bounds = <<Number(a), Number(b)>>
                                     /\ \A j \in Current : a <= j /\ j <= b
      <4>1. PICK a \in Current, b \in Current :
              bounds = <<Number(a), Number(b)>> /\ \A j \in Current : a <= j /\ j <= b
        BY <3>2
      <4>2. a \in ReadItems /\ b \in ReadItems
        BY DEF Current
      <4>3. /\ Number(a) \in Nat /\ Number(a) > 0 /\ Number(b) \in Nat
            /\ Number(a) <= Number(k) /\ Number(b) < Number(k)
        <5>1. a \in HeadItems /\ a \in Nat /\ a < k /\ b \in HeadItems /\ b \in Nat /\ b < k
          BY <2>6, <4>2
        <5>2. Number(a) \in Nat /\ Number(a) > 0 /\ Number(b) \in Nat
          BY <5>1, HeadNumber DEF TypesOK
        <5>3. Number(a) <= Number(k)
          BY <1>6, <5>1, NumberGrows
        <5>4. Number(b) < Number(k)
          BY <1>6, <1>14, <5>1, NumberGrows
        <5> QED BY <5>2, <5>3, <5>4
      <4>4. bounds' = <<Number(a), Number(k)>>
        <5>1. bounds[1] = Number(a) /\ bounds[2] = Number(b) /\ bounds # NoBounds
          BY <4>1, <4>3 DEF NoBounds
        <5>2. ~ (line < bounds[1]) /\ line > bounds[2]
          BY <1>7, <2>2, <4>3, <5>1
        <5> QED BY <2>1, <2>2, <5>1, <5>2 DEF Expanded
      <4>5. ASSUME NEW j \in Current' PROVE a <= j /\ j <= k
        <5>1. CASE j = k
          BY <1>6, <2>6, <4>2, <5>1
        <5>2. CASE j \in Current
          <6>1. j \in ReadItems
            BY <5>2 DEF Current
          <6>2. j \in Nat /\ j < k /\ a <= j
            BY <2>6, <4>1, <5>2, <6>1
          <6> QED BY <1>6, <6>2
        <5> QED BY <2>5, <5>1, <5>2
      <4>6. a \in Current' /\ k \in Current'
        BY <2>5
      <4> QED BY <1>2, <4>4, <4>5, <4>6 DEF Bounded
    <3> QED BY <3>1, <3>2 DEF Bounded
  <2>11. parsed'.hunks = parsed.hunks
    BY <2>1 DEF TypesOK
  <2>12. HunksReal'
    BY <1>2, <1>3, <2>11 DEF HunksReal, IsHunk
  <2>13. HunksClosed'
    <3>1. (ReadItems \ Current)' \subseteq ReadItems \ Current
      BY <2>4, <2>5
    <3> QED BY <1>2, <1>3, <2>11, <3>1 DEF HunksClosed, Holds
  <2> QED BY <1>8, <2>7, <2>8, <2>9, <2>10, <2>12, <2>13
<1> QED BY <1>13, <1>14

LEMMA TailKeeps ==
  ASSUME QuietTails, TypesOK, Parsing, NEW k \in DOMAIN script, ReadTail(k)
  PROVE  Parsing'
<1> USE DEF Parsing
<1>1. Reads(<<k, 2>>) /\ Count(script[k].tail, FALSE)
  BY DEF ReadTail
<1>2. /\ UNCHANGED script /\ HeadItems' = HeadItems /\ Patch' = Patch
      /\ \A j : Number(j)' = Number(j) /\ Changed(j)' = Changed(j) /\ OnHead(j)' = OnHead(j)
  BY <1>1, SameScript DEF Reads
<1>3. /\ \A i, j : OneHunk(i, j)' = OneHunk(i, j)
      /\ \A j : Opens(j)' = Opens(j)
  BY <1>2, SameHunks
<1>4. <<k, 2>> \in unread /\ unread' = unread \ {<<k, 2>>}
  BY <1>1 DEF Reads
<1>5. UNCHANGED <<inHunk, headLine, bounds, parsed>>
  <2>1. script[k] \in Items
    BY DEF TypesOK, ScriptOK
  <2>2. ~ (script[k].tail \in {" ", "+"})
    BY <2>1 DEF QuietTails
  <2> QED BY <1>1, <2>2 DEF Count
<1>6. /\ \A o : <<o, 0>> \in unread' <=> <<o, 0>> \in unread
      /\ \A j : <<j, 1>> \in unread' <=> <<j, 1>> \in unread
  BY <1>4
<1>7. ReadItems' = ReadItems
  BY <1>2, <1>6 DEF ReadItems
<1>8. Current' = Current
  BY <1>2, <1>3, <1>6, <1>7 DEF Current
<1>9. Ordered'
  BY <1>1, ReadsInOrder
<1>10. Opened'
  <2>1. unread # Patch
    <3>1. DOMAIN script \in SUBSET Nat
      BY ScriptLines DEF TypesOK
    <3>2. <<k, 1>> \notin unread
      <4>1. ~ Precedes(<<k, 2>>, <<k, 1>>)
        BY <3>1 DEF Precedes
      <4> QED BY <1>1, <4>1 DEF Reads
    <3>3. <<k, 1>> \in Patch
      <4>1. <<k, 2>> \in Patch
        BY <1>4 DEF TypesOK
      <4>2. Shown(k)
        BY <4>1 DEF Patch
      <4> QED BY <4>2, PatchLines DEF TypesOK
    <3> QED BY <3>2, <3>3
  <2> QED BY <1>5, <2>1 DEF Opened
<1>11. Counted'
  BY <1>2, <1>5, <1>7 DEF Counted, NumbersOf
<1>12. Positioned'
  <2>1. SUFFICES ASSUME NEW n \in DOMAIN script, Upcoming(n)', Ahead(n)'
                 PROVE  headLine = Number(n - 1)
    BY <1>2, <1>5 DEF Positioned
  <2>2. Upcoming(n)
    BY <1>2, <1>6, <2>1 DEF Upcoming
  <2>3. Ahead(n)
    BY <1>2, <1>3, <2>1 DEF Ahead
  <2> QED BY <2>2, <2>3 DEF Positioned
<1>13. Bounded'
  BY <1>2, <1>5, <1>8 DEF Bounded, NoBounds
<1>14. HunksReal'
  BY <1>2, <1>3, <1>5 DEF HunksReal, IsHunk
<1>15. HunksClosed'
  BY <1>2, <1>3, <1>5, <1>7, <1>8 DEF HunksClosed, Holds
<1> QED BY <1>9, <1>10, <1>11, <1>12, <1>13, <1>14, <1>15

(* Two lines in a hunk that was read are in one hunk of the patch.         *)
LEMMA HunkHolds ==
  ASSUME ScriptOK, NEW h, IsHunk(h), NEW k \in HeadItems, NEW l \in HeadItems, Holds(h, k, l)
  PROVE  OneHunk(k, l)
<1>1. PICK a \in HeadItems, b \in HeadItems : OneHunk(a, b) /\ h = <<Number(a), Number(b)>>
  BY DEF IsHunk
<1>2. \A x \in HeadItems : x \in Nat
  BY HeadItemsAre
<1>3. \A x \in HeadItems : OnHead(x)
  BY DEF HeadItems
<1>4. /\ Number(a) <= Number(k) /\ Number(k) <= Number(b)
      /\ Number(a) <= Number(l) /\ Number(l) <= Number(b)
  BY <1>1 DEF Holds
<1>5. a <= k /\ k <= b /\ a <= l /\ l <= b
  BY <1>2, <1>3, <1>4, NumberOrders
<1> QED BY <1>1, <1>2, <1>5, OneHunkWithin

Written ==
  /\ parsed.valid = NumbersOf(HeadItems)
  /\ parsed.added = NumbersOf({k \in HeadItems : Changed(k)})
  /\ parsed.nonblank = NumbersOf({k \in HeadItems : ~ script[k].blank})
  /\ \A k, l \in HeadItems : OneHunk(k, l) <=> \E h \in parsed.hunks : Holds(h, k, l)

LEMMA WrittenIs == ParsedAsWritten <=> (outcome.place # "reading" => Written)
BY DEF ParsedAsWritten, Written, Holds

LEMMA EndIsWritten ==
  ASSUME TypesOK, Parsing, EndPatch
  PROVE  Written'
<1> USE DEF Parsing
<1>1. UNCHANGED script /\ unread = {} /\ parsed' = Closed
  BY DEF EndPatch
<1>2. /\ HeadItems' = HeadItems
      /\ \A k : Number(k)' = Number(k) /\ Changed(k)' = Changed(k)
      /\ \A k, l : OneHunk(k, l)' = OneHunk(k, l)
  BY <1>1, SameScript, SameHunks
<1>3. ReadItems = HeadItems
  BY <1>1 DEF ReadItems
<1>4. /\ Closed.valid = parsed.valid
      /\ Closed.added = parsed.added
      /\ Closed.nonblank = parsed.nonblank
      /\ \A h \in Closed.hunks : IsHunk(h)
      /\ \A k, l \in ReadItems : OneHunk(k, l) => \E h \in Closed.hunks : Holds(h, k, l)
  BY ClosedHunks
<1>5. /\ Closed.valid = NumbersOf(HeadItems)
      /\ Closed.added = NumbersOf({k \in HeadItems : Changed(k)})
      /\ Closed.nonblank = NumbersOf({k \in HeadItems : ~ script[k].blank})
  BY <1>3, <1>4 DEF Counted
<1>6. ASSUME NEW k \in HeadItems, NEW l \in HeadItems
      PROVE  OneHunk(k, l) <=> \E h \in Closed.hunks : Holds(h, k, l)
  <2>1. ASSUME NEW h \in Closed.hunks, Holds(h, k, l) PROVE OneHunk(k, l)
    BY <1>4, <2>1, HunkHolds DEF TypesOK
  <2>2. ASSUME OneHunk(k, l) PROVE \E h \in Closed.hunks : Holds(h, k, l)
    BY <1>3, <1>4, <2>2
  <2> QED BY <2>1, <2>2
<1> QED BY <1>1, <1>2, <1>5, <1>6 DEF Written, NumbersOf, Holds

-----------------------------------------------------------------------------
(* Placing.                                                                *)

LEMMA HeadNumbers ==
  ASSUME ScriptOK, NEW S \in SUBSET HeadItems, NEW n \in NumbersOf(S)
  PROVE  n \in Nat /\ \E k \in S : n = Number(k)
BY HeadNumber DEF NumbersOf

LEMMA OneNumber ==
  ASSUME ScriptOK, NEW k \in HeadItems, NEW l \in HeadItems
  PROVE  /\ Number(k) = Number(l) => k = l
         /\ Number(k) < Number(l) <=> k < l
         /\ Number(k) <= Number(l) <=> k <= l
<1>1. k \in Nat /\ l \in Nat
  BY HeadItemsAre
<1>2. OnHead(k) /\ OnHead(l)
  BY DEF HeadItems
<1> QED BY <1>1, <1>2, NumberOrders

(* The lines of one hunk are all in the patch.                             *)
LEMMA HunkIsValid ==
  ASSUME ScriptOK, NEW k \in HeadItems, NEW l \in HeadItems, OneHunk(k, l)
  PROVE  Number(k)..Number(l) \subseteq NumbersOf(HeadItems)
<1>1. SUFFICES ASSUME NEW n \in Number(k)..Number(l) PROVE n \in NumbersOf(HeadItems)
  OBVIOUS
<1>2. /\ Number(k) \in Nat /\ Number(k) > 0 /\ Number(l) \in Nat
      /\ k \in Nat /\ l \in Nat
  BY HeadNumber, HeadItemsAre
<1>3. n \in Nat /\ 0 < n /\ n <= Number(l)
  BY <1>2
<1>4. PICK m \in 1..l : OnHead(m) /\ Number(m) = n
  BY <1>2, <1>3, NumberReached
<1>5. k <= m
  <2>1. OnHead(k) /\ m \in Nat /\ Number(k) <= Number(m)
    BY <1>2, <1>4 DEF HeadItems
  <2> QED BY <1>2, <1>4, <2>1, NumberOrders
<1>6. m \in k..l
  BY <1>2, <1>4, <1>5
<1>7. Shown(m)
  BY <1>6 DEF OneHunk
<1>8. m \in DOMAIN script
  <2>1. l \in DOMAIN script
    BY DEF HeadItems
  <2> QED BY <1>2, <1>4, <2>1, ScriptLines
<1> QED BY <1>4, <1>7, <1>8 DEF HeadItems, NumbersOf

TextItems == {k \in HeadItems : ~ script[k].blank}

AddedItems == {k \in HeadItems : Changed(k) /\ ~ script[k].blank}

LEMMA AddedNonblankIs ==
  ASSUME ScriptOK, Written
  PROVE  AddedNonblank = NumbersOf(AddedItems) /\ parsed.nonblank = NumbersOf(TextItems)
<1>1. ASSUME NEW n \in AddedNonblank PROVE n \in NumbersOf(AddedItems)
  <2>1. /\ n \in NumbersOf({k \in HeadItems : Changed(k)})
        /\ n \in NumbersOf({k \in HeadItems : ~ script[k].blank})
    BY <1>1 DEF Written, AddedNonblank
  <2>2. PICK k \in HeadItems : Changed(k) /\ n = Number(k)
    BY <2>1 DEF NumbersOf
  <2>3. PICK l \in HeadItems : ~ script[l].blank /\ n = Number(l)
    BY <2>1 DEF NumbersOf
  <2>4. k = l
    BY <2>2, <2>3, OneNumber
  <2> QED BY <2>2, <2>3, <2>4 DEF NumbersOf, AddedItems
<1>2. ASSUME NEW n \in NumbersOf(AddedItems) PROVE n \in AddedNonblank
  BY <1>2 DEF Written, AddedNonblank, NumbersOf, AddedItems
<1> QED BY <1>1, <1>2 DEF Written, TextItems

LEMMA NearestIs ==
  ASSUME ScriptOK, Written, TextItems # {}, NEW t \in Nat
  PROVE  /\ Nearest(t) \in NumbersOf(TextItems)
         /\ t \in NumbersOf(AddedItems) => Nearest(t) = t
<1>1. /\ NumbersOf(AddedItems) \in SUBSET Nat /\ NumbersOf(TextItems) \in SUBSET Nat
      /\ NumbersOf(AddedItems) \subseteq NumbersOf(TextItems)
  <2>1. AddedItems \in SUBSET HeadItems /\ TextItems \in SUBSET HeadItems
    BY DEF AddedItems, TextItems
  <2>2. AddedItems \subseteq TextItems
    BY DEF AddedItems, TextItems
  <2> QED BY <2>1, <2>2, HeadNumbers DEF NumbersOf
<1>2. NumbersOf(TextItems) # {}
  BY DEF NumbersOf
<1>3. AddedNonblank = NumbersOf(AddedItems) /\ parsed.nonblank = NumbersOf(TextItems)
  BY AddedNonblankIs
<1>4. CASE NumbersOf(AddedItems) # {}
  <2>1. Nearest(t) = NearestOf(t, NumbersOf(AddedItems))
    BY <1>3, <1>4 DEF Nearest
  <2> QED BY <1>1, <1>4, <2>1, NearestIsOne
<1>5. CASE NumbersOf(AddedItems) = {}
  <2>1. Nearest(t) = NearestOf(t, NumbersOf(TextItems))
    BY <1>3, <1>5 DEF Nearest
  <2> QED BY <1>1, <1>2, <1>5, <2>1, NearestIsOne
<1> QED BY <1>4, <1>5

(* The place of a finding, as items of the script.                         *)
Wide(f, k, l) ==
  /\ f.suggestion /\ k < l /\ OneHunk(k, l)
  /\ Number(l) - Number(k) < Span

LEMMA ContiguousIs ==
  ASSUME TypesOK, Written, Span \in Nat,
         NEW k \in HeadItems, NEW l \in HeadItems, k <= l
  PROVE  Contiguous(Number(k), Number(l)) <=> OneHunk(k, l) /\ Number(l) - Number(k) < Span
<1>1. Number(k) \in Nat /\ Number(l) \in Nat /\ Number(k) <= Number(l)
  <2>1. Number(k) \in Nat /\ Number(l) \in Nat
    BY HeadNumber DEF TypesOK
  <2> QED BY <2>1, OneNumber DEF TypesOK
<1>2. ASSUME NEW h \in parsed.hunks
      PROVE  Holds(h, k, l) <=> h[1] <= Number(k) /\ Number(l) <= h[2]
  <2>1. h \in Nat \X Nat
    BY <1>2 DEF TypesOK
  <2>2. h[1] \in Nat /\ h[2] \in Nat
    BY <2>1
  <2> QED BY <1>1, <2>2 DEF Holds
<1>3. OneHunk(k, l) <=> \E h \in parsed.hunks : h[1] <= Number(k) /\ Number(l) <= h[2]
  BY <1>2 DEF Written
<1>4. OneHunk(k, l) => Number(k)..Number(l) \subseteq parsed.valid
  BY HunkIsValid DEF Written, TypesOK
<1>5. Number(l) - Number(k) + 1 <= Span <=> Number(l) - Number(k) < Span
  BY <1>1
<1> QED BY <1>3, <1>4, <1>5 DEF Contiguous

LEMMA AnchorIs ==
  ASSUME TypesOK, Written, TextItems # {}, NEW f \in Finding
  PROVE  \E k, l \in TextItems :
           /\ k <= l
           /\ Number(k) = Lower(Nearest(Lower(f.start, f.end)), Nearest(Upper(f.start, f.end)))
           /\ Number(l) = Upper(Nearest(Lower(f.start, f.end)), Nearest(Upper(f.start, f.end)))
           /\ Anchor(f) = IF Wide(f, k, l)
                          THEN [place |-> "inline", from |-> Number(k), to |-> Number(l),
                                fence |-> TRUE]
                          ELSE [place |-> "inline", from |-> Number(k), to |-> Number(k),
                                fence |-> FALSE]
<1> DEFINE s == Nearest(Lower(f.start, f.end))
           e == Nearest(Upper(f.start, f.end))
<1>1. Lower(f.start, f.end) \in Nat /\ Upper(f.start, f.end) \in Nat
  <2>1. f.start \in Nat /\ f.end \in Nat
    BY AnchorAssumption DEF Finding
  <2> QED BY <2>1 DEF Lower, Upper
<1>2. s \in NumbersOf(TextItems) /\ e \in NumbersOf(TextItems)
  BY <1>1, NearestIs DEF TypesOK
<1>3. PICK ks \in TextItems : s = Number(ks)
  BY <1>2 DEF NumbersOf
<1>4. PICK ke \in TextItems : e = Number(ke)
  BY <1>2 DEF NumbersOf
<1>5. TextItems \subseteq HeadItems
  BY DEF TextItems
<1>6. ks \in Nat /\ ke \in Nat /\ s \in Nat /\ e \in Nat
  <2>1. ks \in HeadItems /\ ke \in HeadItems
    BY <1>3, <1>4, <1>5
  <2>2. ks \in Nat /\ ke \in Nat
    BY <2>1, HeadItemsAre DEF TypesOK
  <2> QED BY <1>3, <1>4, <2>1, <2>2, HeadNumber DEF TypesOK
<1>7. /\ Anchor(f) = IF /\ f.suggestion /\ Lower(s, e) # Upper(s, e)
                        /\ Contiguous(Lower(s, e), Upper(s, e))
                     THEN [place |-> "inline", from |-> Lower(s, e), to |-> Upper(s, e),
                           fence |-> TRUE]
                     ELSE [place |-> "inline", from |-> Lower(s, e), to |-> Lower(s, e),
                           fence |-> FALSE]
  BY DEF Anchor
<1> HIDE DEF s, e
<1>8. PICK k \in TextItems, l \in TextItems : k <= l /\ Number(k) = Lower(s, e) /\ Number(l) = Upper(s, e)
  <2>1. CASE s <= e
    <3>1. Lower(s, e) = Number(ks) /\ Upper(s, e) = Number(ke)
      BY <1>3, <1>4, <2>1 DEF Lower, Upper
    <3>2. ks <= ke
      BY <1>3, <1>4, <1>5, <2>1, OneNumber DEF TypesOK
    <3> QED BY <3>1, <3>2
  <2>2. CASE ~ (s <= e)
    <3>1. Lower(s, e) = Number(ke) /\ Upper(s, e) = Number(ks)
      BY <1>3, <1>4, <2>2 DEF Lower, Upper
    <3>2. e <= s
      BY <1>6, <2>2
    <3>3. ke <= ks
      BY <1>3, <1>4, <1>5, <3>2, OneNumber DEF TypesOK
    <3> QED BY <3>1, <3>3
  <2> QED BY <2>1, <2>2
<1>9. k \in HeadItems /\ l \in HeadItems
  BY <1>5
<1>10. k < l <=> Number(k) # Number(l)
  <2>1. k \in Nat /\ l \in Nat
    BY <1>9, HeadItemsAre DEF TypesOK
  <2>2. k = l \/ k < l
    BY <1>8, <2>1
  <2>3. Number(k) = Number(l) => k = l
    BY <1>9, OneNumber DEF TypesOK
  <2> QED BY <2>1, <2>2, <2>3
<1>11. Contiguous(Number(k), Number(l)) <=> OneHunk(k, l) /\ Number(l) - Number(k) < Span
  BY <1>8, <1>9, ContiguousIs, AnchorAssumption
<1>12. Wide(f, k, l) <=> /\ f.suggestion /\ Lower(s, e) # Upper(s, e)
                         /\ Contiguous(Lower(s, e), Upper(s, e))
  BY <1>8, <1>10, <1>11 DEF Wide
<1> QED BY <1>7, <1>8, <1>12 DEF s, e

LEMMA ValidateIsPlaced ==
  ASSUME TypesOK, Written, Validate
  PROVE  WellPlaced'
<1>1. /\ UNCHANGED script /\ UNCHANGED parsed
      /\ finding' \in Finding /\ outcome' = Validated(finding')
  BY DEF Validate
<1>2. PICK f \in Finding : f = finding'
  BY <1>1
<1>3. /\ HeadItems' = HeadItems
      /\ \A k : Number(k)' = Number(k) /\ Changed(k)' = Changed(k)
      /\ \A k, l : OneHunk(k, l)' = OneHunk(k, l)
  BY <1>1, SameScript, SameHunks
<1>4. parsed.nonblank = NumbersOf(TextItems)
  BY AddedNonblankIs DEF TypesOK
<1>5. CASE AtHead(f.file) = Path /\ parsed.nonblank # {}
  <2> DEFINE lo == Lower(f.start, f.end)
             hi == Upper(f.start, f.end)
  <2>1. TextItems # {}
    BY <1>4, <1>5 DEF NumbersOf
  <2>2. outcome' = Anchor(f)
    BY <1>1, <1>2, <1>5 DEF Validated
  <2>3. PICK k \in TextItems, l \in TextItems :
           /\ k <= l
           /\ Number(k) = Lower(Nearest(lo), Nearest(hi))
           /\ Number(l) = Upper(Nearest(lo), Nearest(hi))
           /\ Anchor(f) = IF Wide(f, k, l)
                          THEN [place |-> "inline", from |-> Number(k), to |-> Number(l),
                                fence |-> TRUE]
                          ELSE [place |-> "inline", from |-> Number(k), to |-> Number(k),
                                fence |-> FALSE]
    BY <2>1, AnchorIs
  <2>4. k \in HeadItems /\ l \in HeadItems /\ ~ script[k].blank /\ ~ script[l].blank
    BY DEF TextItems
  <2>5. k \in Nat /\ l \in Nat /\ Number(k) \in Nat /\ Number(l) \in Nat
    BY <2>4, HeadItemsAre, HeadNumber DEF TypesOK
  <2>6. outcome'.place = "inline" /\ outcome'.from = Number(k)
    BY <2>2, <2>3
  <2>7. Wide(f, k, l) => outcome'.to = Number(l) /\ outcome'.fence = TRUE
    BY <2>2, <2>3
  <2>8. ~ Wide(f, k, l) => outcome'.to = Number(k) /\ outcome'.fence = FALSE
    BY <2>2, <2>3
  <2>9. Accepted'
    <3>1. CASE Wide(f, k, l)
      <4>1. k < l /\ OneHunk(k, l) /\ Number(l) - Number(k) < Span
        BY <3>1 DEF Wide
      <4>2. outcome'.to - outcome'.from < Span
        BY <2>6, <2>7, <3>1, <4>1
      <4> QED BY <1>1, <1>3, <2>3, <2>4, <2>6, <2>7, <3>1, <4>1, <4>2 DEF Accepted
    <3>2. CASE ~ Wide(f, k, l)
      <4>1. OneHunk(k, k)
        <5>1. Shown(k)
          BY <2>4 DEF HeadItems
        <5>2. \A m \in (k..k) \cup (k..k) : m = k
          BY <2>5
        <5> QED BY <5>1, <5>2 DEF OneHunk
      <4>2. k <= k /\ ~ (k < k)
        BY <2>5
      <4> QED BY <1>1, <1>3, <2>4, <2>6, <2>8, <3>2, <4>1, <4>2 DEF Accepted
    <3> QED BY <3>1, <3>2
  <2>10. Kept'
    <3>1. SUFFICES ASSUME {lo, hi} \subseteq NumbersOf(AddedItems)
                   PROVE  /\ outcome'.from = lo
                          /\ outcome'.to = hi <=>
                               \/ lo = hi
                               \/ /\ f.suggestion /\ hi - lo < Span
                                  /\ \E a, b \in AddedItems : /\ Number(a) = lo /\ Number(b) = hi
                                                              /\ OneHunk(a, b)
      BY <1>1, <1>2, <1>3 DEF Kept, AddedItems, NumbersOf, Lower, Upper
    <3>2. lo \in Nat /\ hi \in Nat /\ lo <= hi
      <4>1. f.start \in Nat /\ f.end \in Nat
        BY AnchorAssumption DEF Finding
      <4> QED BY <4>1 DEF Lower, Upper
    <3>3. Nearest(lo) = lo /\ Nearest(hi) = hi
      BY <2>1, <3>1, <3>2, NearestIs DEF TypesOK
    <3>4. Number(k) = lo /\ Number(l) = hi
      BY <2>3, <3>2, <3>3 DEF Lower, Upper
    <3> HIDE DEF lo, hi
    <3>5. AddedItems \subseteq HeadItems
      BY DEF AddedItems
    <3>6. ASSUME NEW a \in AddedItems, NEW b \in HeadItems, Number(a) = Number(b) PROVE a = b
      BY <3>5, <3>6, OneNumber DEF TypesOK
    <3>7. k \in AddedItems /\ l \in AddedItems
      <4>1. PICK a \in AddedItems : lo = Number(a)
        BY <3>1 DEF NumbersOf
      <4>2. PICK b \in AddedItems : hi = Number(b)
        BY <3>1 DEF NumbersOf
      <4>3. a = k /\ b = l
        BY <2>4, <3>4, <3>6, <4>1, <4>2
      <4> QED BY <4>3
    <3>8. (\E a, b \in AddedItems : Number(a) = lo /\ Number(b) = hi /\ OneHunk(a, b)) <=> OneHunk(k, l)
      <4>1. ASSUME NEW a \in AddedItems, NEW b \in AddedItems, Number(a) = lo, Number(b) = hi
            PROVE  a = k /\ b = l
        BY <2>4, <3>4, <3>6, <4>1
      <4> QED BY <3>4, <3>7, <4>1
    <3>9. k < l <=> lo # hi
      <4>1. lo = hi => k = l
        BY <2>4, <3>4, OneNumber DEF TypesOK
      <4> QED BY <2>3, <2>5, <3>4, <4>1
    <3>10. Wide(f, k, l) <=> f.suggestion /\ lo # hi /\ OneHunk(k, l) /\ hi - lo < Span
      BY <3>4, <3>9 DEF Wide
    <3>11. CASE Wide(f, k, l)
      BY <2>6, <2>7, <3>4, <3>8, <3>10, <3>11
    <3>12. CASE ~ Wide(f, k, l)
      BY <2>6, <2>8, <3>4, <3>8, <3>10, <3>12
    <3> QED BY <3>11, <3>12
  <2> QED BY <2>6, <2>9, <2>10 DEF WellPlaced
<1>6. CASE ~ (AtHead(f.file) = Path /\ parsed.nonblank # {})
  <2>1. outcome' = Nowhere(IF f.words THEN "general" ELSE "dropped")
    BY <1>1, <1>2, <1>6 DEF Validated
  <2>2. outcome'.place # "inline"
    BY <2>1 DEF Nowhere
  <2>3. AtHead(finding'.file) # Path \/ \A k \in HeadItems : script[k].blank
    BY <1>2, <1>4, <1>6 DEF NumbersOf, TextItems
  <2> QED BY <1>1, <1>3, <2>2, <2>3 DEF WellPlaced, AtHead
<1> QED BY <1>5, <1>6

-----------------------------------------------------------------------------
(* Types.                                                                  *)

LEMMA TypesAre == TypeOK => TypesOK
BY DEF TypeOK, TypesOK, ScriptOK

LEMMA NearestType ==
  ASSUME TypesOK, parsed.nonblank # {}, NEW t \in Nat
  PROVE  Nearest(t) \in Nat
<1>1. parsed.nonblank \in SUBSET Nat /\ AddedNonblank \in SUBSET Nat
  BY DEF TypesOK, AddedNonblank
<1> QED BY <1>1, NearestIsOne DEF Nearest

LEMMA ClosedType ==
  ASSUME TypeOK
  PROVE  Closed \in [valid : SUBSET Nat, added : SUBSET Nat, nonblank : SUBSET Nat,
                     hunks : SUBSET (Nat \X Nat)]
BY DEF TypeOK, Closed

LEMMA CountType ==
  ASSUME TypeOK, NEW tag, NEW blank, Count(tag, blank)
  PROVE  /\ inHunk' \in BOOLEAN /\ headLine' \in Nat /\ bounds' \in Nat \X Nat
         /\ parsed' \in [valid : SUBSET Nat, added : SUBSET Nat, nonblank : SUBSET Nat,
                         hunks : SUBSET (Nat \X Nat)]
<1>1. CASE inHunk /\ tag \in {" ", "+"}
  <2> DEFINE line == headLine + 1
  <2>1. /\ headLine' = line
        /\ parsed' = [parsed EXCEPT
             !.valid = @ \cup {line},
             !.added = IF tag = "+" THEN @ \cup {line} ELSE @,
             !.nonblank = IF blank THEN @ \ {line} ELSE @ \cup {line}]
        /\ bounds' = Expanded(line)
        /\ UNCHANGED inHunk
    BY <1>1 DEF Count
  <2>2. line \in Nat
    BY DEF TypeOK
  <2> HIDE DEF line
  <2>3. Expanded(line) \in Nat \X Nat
    <3>1. bounds[1] \in Nat /\ bounds[2] \in Nat
      BY DEF TypeOK
    <3> QED BY <2>2, <3>1 DEF Expanded
  <2>4. /\ parsed.valid \cup {line} \in SUBSET Nat
        /\ (IF tag = "+" THEN parsed.added \cup {line} ELSE parsed.added) \in SUBSET Nat
        /\ (IF blank THEN parsed.nonblank \ {line} ELSE parsed.nonblank \cup {line}) \in SUBSET Nat
    BY <2>2 DEF TypeOK
  <2> QED BY <2>1, <2>2, <2>3, <2>4 DEF TypeOK
<1>2. CASE ~ (inHunk /\ tag \in {" ", "+"})
  BY <1>2 DEF Count, TypeOK
<1> QED BY <1>1, <1>2

LEMMA ReadsType ==
  ASSUME TypeOK, NEW l, Reads(l)
  PROVE  /\ script' \in Seq(Items) /\ unread' \subseteq Patch'
         /\ finding' \in Finding \cup {NoFinding}
         /\ outcome' \in [place : {"reading", "ready", "inline", "general", "dropped"},
                          from : Nat, to : Nat, fence : BOOLEAN]
<1>1. UNCHANGED script /\ Patch' = Patch
  BY SameScript DEF Reads
<1> QED BY <1>1 DEF TypeOK, Reads

LEMMA HeadStartType ==
  ASSUME TypeOK, NEW k \in DOMAIN script
  PROVE  HeadStart(k) \in Nat
<1>1. k - 1 \in Nat
  BY ScriptLines, TypesAre DEF TypesOK
<1>2. Number(k - 1) \in Nat
  BY <1>1, NumberType
<1> QED BY <1>2 DEF HeadStart

LEMMA AnchorType ==
  ASSUME TypeOK, parsed.nonblank # {}, NEW f \in Finding
  PROVE  Anchor(f) \in [place : {"inline"}, from : Nat, to : Nat, fence : BOOLEAN]
<1> DEFINE s == Nearest(Lower(f.start, f.end))
           e == Nearest(Upper(f.start, f.end))
<1>1. Lower(f.start, f.end) \in Nat /\ Upper(f.start, f.end) \in Nat
  <2>1. f.start \in Nat /\ f.end \in Nat
    BY AnchorAssumption DEF Finding
  <2> QED BY <2>1 DEF Lower, Upper
<1>2. s \in Nat /\ e \in Nat
  BY <1>1, TypesAre, NearestType
<1>3. Anchor(f) = IF /\ f.suggestion /\ Lower(s, e) # Upper(s, e)
                     /\ Contiguous(Lower(s, e), Upper(s, e))
                  THEN [place |-> "inline", from |-> Lower(s, e), to |-> Upper(s, e),
                        fence |-> TRUE]
                  ELSE [place |-> "inline", from |-> Lower(s, e), to |-> Lower(s, e),
                        fence |-> FALSE]
  BY DEF Anchor
<1> HIDE DEF s, e
<1>4. Lower(s, e) \in Nat /\ Upper(s, e) \in Nat
  BY <1>2 DEF Lower, Upper
<1> QED BY <1>3, <1>4

LEMMA ScriptAtFirst == Init => script \in Seq(Items)
<1> SUFFICES ASSUME Init PROVE script \in Seq(Items)
  OBVIOUS
<1>1. script \in UNION {[1..n -> Items] : n \in 1..MaxItems}
  BY DEF Init, Scripts
<1>2. PICK n \in 1..MaxItems : script \in [1..n -> Items]
  BY <1>1
<1>3. n \in Nat
  BY AnchorAssumption
<1> QED BY <1>2, <1>3

(* The variables keep their types.                                         *)
THEOREM TypeCorrect == Spec => []TypeOK
<1>1. Init => TypeOK
  <2> SUFFICES ASSUME Init PROVE TypeOK
    OBVIOUS
  <2>1. script \in Seq(Items)
    BY ScriptAtFirst
  <2>2. bounds \in Nat \X Nat
    BY DEF Init, NoBounds
  <2>3. parsed \in [valid : SUBSET Nat, added : SUBSET Nat, nonblank : SUBSET Nat,
                    hunks : SUBSET (Nat \X Nat)]
    BY DEF Init, Blank
  <2> QED BY <2>1, <2>2, <2>3 DEF Init, TypeOK, Nowhere
<1>2. TypeOK /\ [Next]_vars => TypeOK'
  <2> SUFFICES ASSUME TypeOK, [Next]_vars PROVE TypeOK'
    OBVIOUS
  <2>1. ASSUME NEW k \in DOMAIN script, ReadHeader(k) PROVE TypeOK'
    <3>1. HeadStart(k) \in Nat
      BY HeadStartType
    <3>2. headLine' \in Nat
      BY <2>1, <3>1 DEF ReadHeader
    <3>3. bounds' \in Nat \X Nat
      BY <2>1 DEF ReadHeader, NoBounds
    <3> QED BY <2>1, <3>2, <3>3, ReadsType, ClosedType DEF ReadHeader, TypeOK
  <2>2. ASSUME NEW k \in DOMAIN script, ReadLine(k) PROVE TypeOK'
    BY <2>2, ReadsType, CountType DEF ReadLine, TypeOK
  <2>3. ASSUME NEW k \in DOMAIN script, ReadTail(k) PROVE TypeOK'
    BY <2>3, ReadsType, CountType DEF ReadTail, TypeOK
  <2>4. CASE EndPatch
    <3>1. Patch' = Patch
      BY <2>4, SameScript DEF EndPatch
    <3> QED BY <2>4, <3>1, ClosedType DEF EndPatch, TypeOK, Nowhere
  <2>5. CASE Validate
    <3>1. Patch' = Patch
      BY <2>5, SameScript DEF Validate
    <3>2. outcome' \in [place : {"reading", "ready", "inline", "general", "dropped"},
                        from : Nat, to : Nat, fence : BOOLEAN]
      <4>1. finding' \in Finding /\ outcome' = Validated(finding')
        BY <2>5 DEF Validate
      <4>2. CASE AtHead(finding'.file) = Path /\ parsed.nonblank # {}
        BY <4>1, <4>2, AnchorType DEF Validated
      <4>3. CASE ~ (AtHead(finding'.file) = Path /\ parsed.nonblank # {})
        BY <4>1, <4>3 DEF Validated, Nowhere
      <4> QED BY <4>2, <4>3
    <3> QED BY <2>5, <3>1, <3>2 DEF Validate, TypeOK
  <2>6. CASE UNCHANGED vars
    <3>1. Patch' = Patch
      BY <2>6, SameScript DEF vars
    <3> QED BY <2>6, <3>1 DEF vars, TypeOK
  <2> QED BY <2>1, <2>2, <2>3, <2>4, <2>5, <2>6 DEF Next
<1> QED BY <1>1, <1>2, PTL DEF Spec

-----------------------------------------------------------------------------
(* The invariant.                                                          *)

Sound ==
  /\ outcome.place = "reading" => Parsing
  /\ outcome.place # "reading" => Written /\ unread = {}
  /\ WellPlaced

LEMMA SoundAtFirst == Init => Sound
<1> SUFFICES ASSUME Init PROVE Sound
  OBVIOUS
<1>1. script \in Seq(Items)
  BY ScriptAtFirst
<1>2. ScriptOK
  BY <1>1 DEF ScriptOK
<1>3. unread = Patch /\ parsed = Blank /\ bounds = NoBounds /\ outcome.place = "reading"
  BY DEF Init, Nowhere
<1>4. ReadItems = {}
  <2>1. SUFFICES ASSUME NEW k \in ReadItems PROVE FALSE
    OBVIOUS
  <2>2. k \in HeadItems /\ <<k, 1>> \notin Patch
    BY <1>3 DEF ReadItems
  <2> QED BY <1>2, <2>2, HeadItemsAre
<1>5. Current = {}
  BY <1>4 DEF Current
<1>6. ASSUME NEW k \in DOMAIN script, Upcoming(k) PROVE FALSE
  <2>1. <<k, 1>> \in Patch
    BY <1>3, <1>6 DEF Upcoming
  <2>2. Shown(k)
    BY <1>2, <2>1, PatchLines
  <2>3. PICK o \in DOMAIN script : o <= k /\ Opens(o)
    BY <1>2, <2>2, Opener
  <2>4. <<o, 0>> \in Patch
    BY <1>2, <2>3, PatchLines
  <2> QED BY <1>3, <1>6, <2>3, <2>4 DEF Upcoming
<1>7. Ordered /\ Opened
  BY <1>3 DEF Ordered, Opened
<1>8. Counted
  BY <1>3, <1>4 DEF Counted, NumbersOf, Blank
<1>9. Positioned
  BY <1>6 DEF Positioned
<1>10. Bounded /\ HunksReal /\ HunksClosed
  BY <1>3, <1>4, <1>5 DEF Bounded, HunksReal, HunksClosed, Blank
<1> QED BY <1>3, <1>7, <1>8, <1>9, <1>10 DEF Sound, Parsing, WellPlaced

LEMMA SoundAlways ==
  ASSUME QuietTails, TypeOK, Sound, [Next]_vars
  PROVE  Sound'
<1>1. TypesOK
  BY TypesAre
<1>2. ASSUME NEW l, Reads(l)
      PROVE  Parsing /\ (Parsing' => Sound')
  <2>1. outcome.place = "reading" /\ UNCHANGED outcome
    BY <1>2 DEF Reads, Sound
  <2>2. WellPlaced'
    BY <2>1 DEF WellPlaced
  <2> QED BY <2>1, <2>2 DEF Sound
<1>3. ASSUME NEW k \in DOMAIN script, ReadHeader(k) PROVE Sound'
  BY <1>1, <1>2, <1>3, HeaderKeeps DEF ReadHeader
<1>4. ASSUME NEW k \in DOMAIN script, ReadLine(k) PROVE Sound'
  BY <1>1, <1>2, <1>4, LineKeeps DEF ReadLine
<1>5. ASSUME NEW k \in DOMAIN script, ReadTail(k) PROVE Sound'
  BY <1>1, <1>2, <1>5, TailKeeps DEF ReadTail
<1>6. CASE EndPatch
  <2>1. Written'
    BY <1>1, <1>6, EndIsWritten DEF EndPatch, Sound
  <2>2. outcome'.place = "ready" /\ unread' = {}
    BY <1>6 DEF EndPatch, Nowhere
  <2> QED BY <2>1, <2>2 DEF Sound, WellPlaced
<1>7. ASSUME UNCHANGED <<script, parsed>>, Written PROVE Written'
  <2>1. /\ HeadItems' = HeadItems
        /\ \A k : Number(k)' = Number(k) /\ Changed(k)' = Changed(k)
        /\ \A k, l : OneHunk(k, l)' = OneHunk(k, l)
    BY <1>7, SameScript, SameHunks
  <2> QED BY <1>7, <2>1 DEF Written, NumbersOf, Holds
<1>8. CASE Validate
  <2>1. outcome.place # "reading" /\ Written /\ unread = {}
    BY <1>8 DEF Validate, Sound
  <2>2. WellPlaced'
    BY <1>1, <1>8, <2>1, ValidateIsPlaced
  <2>3. Written' /\ unread' = {}
    BY <1>7, <1>8, <2>1 DEF Validate
  <2>4. outcome'.place # "reading"
    <3>1. finding' \in Finding /\ outcome' = Validated(finding')
      BY <1>8 DEF Validate
    <3>2. Anchor(finding').place = "inline"
      BY DEF Anchor
    <3> QED BY <3>1, <3>2 DEF Validated, Nowhere
  <2> QED BY <2>2, <2>3, <2>4 DEF Sound
<1>9. CASE UNCHANGED vars
  <2>1. UNCHANGED <<script, unread, inHunk, headLine, bounds, parsed, finding, outcome>>
    BY <1>9 DEF vars
  <2>2. /\ HeadItems' = HeadItems /\ Patch' = Patch
        /\ \A k : Number(k)' = Number(k) /\ Changed(k)' = Changed(k) /\ OnHead(k)' = OnHead(k)
        /\ \A k, l : OneHunk(k, l)' = OneHunk(k, l)
        /\ \A k : Opens(k)' = Opens(k)
    BY <2>1, SameScript, SameHunks
  <2>3. ReadItems' = ReadItems
    BY <2>1, <2>2 DEF ReadItems
  <2>4. Current' = Current
    BY <2>1, <2>2, <2>3 DEF Current
  <2>5. Parsing => Parsing'
    <3> SUFFICES ASSUME Parsing PROVE Parsing'
      OBVIOUS
    <3>1. Ordered' /\ Opened'
      BY <2>1, <2>2 DEF Parsing, Ordered, Opened, Precedes
    <3>2. Counted'
      BY <2>1, <2>2, <2>3 DEF Parsing, Counted, NumbersOf
    <3>3. Positioned'
      BY <2>1, <2>2 DEF Parsing, Positioned, Upcoming, Ahead
    <3>4. Bounded'
      BY <2>1, <2>2, <2>4 DEF Parsing, Bounded, NoBounds
    <3>5. HunksReal' /\ HunksClosed'
      BY <2>1, <2>2, <2>3, <2>4 DEF Parsing, HunksReal, HunksClosed, IsHunk, Holds
    <3> QED BY <3>1, <3>2, <3>3, <3>4, <3>5 DEF Parsing
  <2>6. Written => Written'
    BY <1>7, <2>1
  <2>7. WellPlaced => WellPlaced'
    BY <2>1, <2>2 DEF WellPlaced, Accepted, Kept, NumbersOf, AtHead, Lower, Upper
  <2> QED BY <2>1, <2>5, <2>6, <2>7 DEF Sound
<1> QED BY <1>3, <1>4, <1>5, <1>6, <1>8, <1>9 DEF Next

(* Whatever the script and the number of context lines, what the parser has*)
(* made of the patch is what the script has, as long as no line holds a    *)
(* character that splitlines cuts it at.                                   *)
THEOREM ParserCorrect ==
  ASSUME QuietTails
  PROVE  Spec => []ParsedAsWritten
<1>1. Sound => ParsedAsWritten
  BY WrittenIs DEF Sound
<1>2. Init => Sound
  BY SoundAtFirst
<1>3. TypeOK /\ Sound /\ [Next]_vars => Sound'
  BY SoundAlways
<1> QED BY <1>1, <1>2, <1>3, TypeCorrect, PTL DEF Spec

(* Then every finding is put where GitHub accepts it, a finding on added   *)
(* lines stays there, and none is put elsewhere while the diff has a place.*)
THEOREM PlaceCorrect ==
  ASSUME QuietTails
  PROVE  Spec => []WellPlaced
<1>1. Sound => WellPlaced
  BY DEF Sound
<1>2. Init => Sound
  BY SoundAtFirst
<1>3. TypeOK /\ Sound /\ [Next]_vars => Sound'
  BY SoundAlways
<1> QED BY <1>1, <1>2, <1>3, TypeCorrect, PTL DEF Spec
=============================================================================
