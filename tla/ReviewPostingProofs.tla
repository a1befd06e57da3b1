------------------------- MODULE ReviewPostingProofs -------------------------
(***************************************************************************)
(* Proofs about ReviewPosting, for every set of issues, roster and prompt  *)
(* limit.                                                                  *)
(***************************************************************************)
EXTENDS ReviewPosting, FiniteSetTheorems, SequenceTheorems, WellFoundedInduction, TLAPS

(* The parts of the type invariant that speak of the threads.              *)
ThreadsOfJob ==
  /\ job.live \cup job.prior \subseteq DOMAIN threads
  /\ \A c \in job.carried : c[2] \in DOMAIN threads
  /\ job.base <= Len(threads) /\ job.gbase <= Len(general)

LEMMA IdleType == Idle \in JobState
<1>1. 1 \in 1..Len(Roster)
  BY PostingAssumption
<1> QED
  BY <1>1 DEF Idle, JobState, Phases

(* Threads are opened at the end of the list, and only their flags change. *)
LEMMA ResolvedThreads ==
  ASSUME threads \in Seq(Thread), NEW k \in DOMAIN threads
  PROVE  LET t == [threads EXCEPT ![k].open = FALSE]
         IN /\ t \in Seq(Thread)
            /\ Len(t) = Len(threads)
            /\ \A j \in 1..Len(threads) :
                 t[j].issue = threads[j].issue /\ (t[j].open => threads[j].open)
<1> DEFINE t == [threads EXCEPT ![k].open = FALSE]
           n == Len(threads)
<1>1. n \in Nat /\ DOMAIN threads = 1..n /\ threads \in [1..n -> Thread]
  OBVIOUS
<1>2. t \in [1..n -> Thread]
  BY <1>1 DEF Thread
<1>3. t \in Seq(Thread) /\ Len(t) = n
  BY <1>1, <1>2
<1>4. ASSUME NEW j \in 1..n
      PROVE  t[j].issue = threads[j].issue /\ (t[j].open => threads[j].open)
  BY <1>1, <1>4 DEF Thread
<1> QED
  BY <1>3, <1>4

LEMMA OpenedThreads ==
  ASSUME threads \in Seq(Thread), NEW s \in Seq(Issues)
  PROVE  LET t == threads \o Opened(s)
         IN /\ t \in Seq(Thread)
            /\ Len(t) = Len(threads) + Len(s)
            /\ \A j \in 1..Len(threads) : t[j] = threads[j]
            /\ \A j \in 1..Len(s) : t[Len(threads) + j].issue = s[j]
<1> DEFINE o == Opened(s)
           n == Len(s)
<1>1. n \in Nat /\ DOMAIN s = 1..n /\ \A j \in 1..n : s[j] \in Issues
  OBVIOUS
<1>2. o \in [1..n -> Thread] /\ \A j \in 1..n : o[j].issue = s[j]
  BY <1>1 DEF Opened, Thread
<1>3. o \in Seq(Thread) /\ Len(o) = n
  BY <1>1, <1>2
<1> HIDE DEF o
<1>4. /\ threads \o o \in Seq(Thread)
      /\ Len(threads \o o) = Len(threads) + Len(o)
      /\ \A j \in 1..Len(threads) + Len(o) :
           (threads \o o)[j] = IF j <= Len(threads) THEN threads[j] ELSE o[j - Len(threads)]
  BY <1>3, ConcatProperties
<1>5. Len(threads) \in Nat
  OBVIOUS
<1>6. ASSUME NEW j \in 1..n
      PROVE  (threads \o o)[Len(threads) + j].issue = s[j]
  <2>1. Len(threads) + j \in 1..Len(threads) + Len(o) /\ ~(Len(threads) + j <= Len(threads))
        /\ (Len(threads) + j) - Len(threads) = j
    BY <1>1, <1>3, <1>5
  <2> QED
    BY <2>1, <1>2, <1>4
<1>7. \A j \in 1..Len(threads) : (threads \o o)[j] = threads[j]
  BY <1>1, <1>3, <1>4, <1>5
<1> QED
  BY <1>3, <1>4, <1>6, <1>7 DEF o

LEMMA OpenedOne ==
  ASSUME threads \in Seq(Thread), NEW i \in Issues
  PROVE  LET t == threads \o Opened(<<i>>)
         IN /\ t \in Seq(Thread)
            /\ Len(t) = Len(threads) + 1
            /\ \A j \in 1..Len(threads) : t[j] = threads[j]
            /\ t[Len(threads) + 1].issue = i
<1> DEFINE s == <<i>>
<1>1. s \in Seq(Issues) /\ Len(s) = 1 /\ s[1] = i
  OBVIOUS
<1> HIDE DEF s
<1> DEFINE t == threads \o Opened(s)
<1>2. /\ t \in Seq(Thread)
      /\ Len(t) = Len(threads) + Len(s)
      /\ \A j \in 1..Len(threads) : t[j] = threads[j]
      /\ \A j \in 1..Len(s) : t[Len(threads) + j].issue = s[j]
  BY <1>1, OpenedThreads
<1>3. Len(t) = Len(threads) + 1 /\ t[Len(threads) + 1].issue = i
  <2>1. 1 \in 1..Len(s)
    BY <1>1
  <2> HIDE DEF t
  <2> QED
    BY <1>1, <1>2, <2>1
<1> QED
  BY <1>2, <1>3 DEF s

LEMMA ListingsAreSequences ==
  ASSUME NEW S \in SUBSET Issues, NEW s \in Listings(S)
  PROVE  /\ s \in Seq(Issues)
         /\ Len(s) = Cardinality(S)
         /\ {s[n] : n \in 1..Len(s)} = S
<1>1. Cardinality(S) \in Nat
  BY PostingAssumption, FS_Subset, FS_CardinalityType
<1> QED
  BY <1>1 DEF Listings

(* What the model's turn makes of the job.                                 *)
AnswerIs(findings, valid, empty, raw) ==
  /\ findings \subseteq job.tree
  /\ \A k \in job.prior : threads[k].issue \notin findings
  /\ valid \subseteq findings /\ empty \subseteq findings \ valid
  /\ job' = [job EXCEPT
               !.phase = "batch", !.findings = findings,
               !.carried = NormalizeCarriedForward(raw),
               !.queue = valid, !.dropped = empty,
               !.remap = findings \ (valid \cup empty)]

LEMMA AnswerExists ==
  ASSUME job \in JobState, RunModel
  PROVE  \E findings, valid, empty \in SUBSET Issues, n \in 0..MaxCarried :
         \E raw \in [1..n -> RawEntry] : AnswerIs(findings, valid, empty, raw)
<1>1. job.tree \subseteq Issues
  BY DEF JobState
<1>2. PICK findings \in SUBSET (job.tree \ {threads[k].issue : k \in job.prior}) :
        \E valid \in SUBSET findings : \E empty \in SUBSET (findings \ valid) :
        \E n \in 0..MaxCarried : \E raw \in [1..n -> RawEntry] :
          job' = [job EXCEPT
                 !.phase = "batch", !.findings = findings,
                 !.carried = NormalizeCarriedForward(raw),
                 !.queue = valid, !.dropped = empty,
                 !.remap = findings \ (valid \cup empty)]
  BY DEF RunModel
<1>3. findings \subseteq job.tree /\ \A k \in job.prior : threads[k].issue \notin findings
  BY <1>2
<1>4. PICK valid \in SUBSET findings :
        \E empty \in SUBSET (findings \ valid) :
        \E n \in 0..MaxCarried : \E raw \in [1..n -> RawEntry] :
          job' = [job EXCEPT
                 !.phase = "batch", !.findings = findings,
                 !.carried = NormalizeCarriedForward(raw),
                 !.queue = valid, !.dropped = empty,
                 !.remap = findings \ (valid \cup empty)]
  BY <1>2
<1>5. PICK empty \in SUBSET (findings \ valid), n \in 0..MaxCarried :
        \E raw \in [1..n -> RawEntry] : AnswerIs(findings, valid, empty, raw)
  BY <1>3, <1>4 DEF AnswerIs
<1> QED
  BY <1>1, <1>3, <1>5

LEMMA NextModelType ==
  ASSUME job \in JobState, ThreadsOfJob
  PROVE  /\ NextModel \in JobState
         /\ NextModel.live \cup NextModel.prior \subseteq DOMAIN threads
         /\ \A c \in NextModel.carried : c[2] \in DOMAIN threads
         /\ NextModel.base <= Len(threads) /\ NextModel.gbase <= Len(general)
<1>1. CASE job.idx < Len(Roster)
  <2>1. job.idx + 1 \in 1..Len(Roster)
    BY <1>1, PostingAssumption DEF JobState
  <2>2. NextModel = [job EXCEPT !.phase = "snapshot", !.idx = job.idx + 1]
    BY <1>1 DEF NextModel
  <2> QED
    BY <2>1, <2>2 DEF JobState, Phases, ThreadsOfJob
<1>2. CASE ~(job.idx < Len(Roster))
  BY <1>2, IdleType DEF NextModel, Idle
<1> QED
  BY <1>1, <1>2

LEMMA TypeStep == TypeOK /\ [Next]_vars => TypeOK'
<1> SUFFICES ASSUME TypeOK, [Next]_vars PROVE TypeOK'
  OBVIOUS
<1>1. /\ job \in JobState /\ ThreadsOfJob
      /\ threads \in Seq(Thread) /\ general \in Seq(Issues)
      /\ Len(threads) \in Nat /\ DOMAIN threads = 1..Len(threads) /\ Len(general) \in Nat
      /\ code \subseteq Issues /\ summaries \subseteq Models /\ jobs \in 0..MaxJobs
  BY DEF TypeOK, ThreadsOfJob
<1>2. CASE Edit
  BY <1>1, <1>2 DEF Edit, TypeOK, ThreadsOfJob
<1>3. ASSUME NEW k \in DOMAIN threads, Resolve(k) PROVE TypeOK'
  <2>1. threads' \in Seq(Thread) /\ Len(threads') = Len(threads) /\ DOMAIN threads' = DOMAIN threads
    BY <1>1, <1>3, ResolvedThreads DEF Resolve
  <2> QED
    BY <1>1, <1>3, <2>1 DEF Resolve, TypeOK, ThreadsOfJob
<1>4. ASSUME NEW dry \in DryRuns, Start(dry) PROVE TypeOK'
  <2>1. jobs' \in 0..MaxJobs /\ dry \in BOOLEAN
    BY <1>1, <1>4, PostingAssumption DEF Start
  <2>2. job' \in JobState
    BY <1>1, <1>4, <2>1, IdleType DEF Start, JobState, Phases
  <2>3. ThreadsOfJob'
    BY <1>1, <1>4 DEF Start, Idle, ThreadsOfJob
  <2> QED
    BY <1>1, <1>4, <2>1, <2>2, <2>3 DEF Start, TypeOK, ThreadsOfJob
<1>5. CASE Abort
  BY <1>1, <1>5, IdleType DEF Abort, Idle, TypeOK
<1>6. CASE CaptureSnapshots
  <2> DEFINE known == summaries # {}
             live == Applicable(known)
  <2>1. /\ known \in BOOLEAN /\ live \subseteq DOMAIN threads /\ Rendered(live) \subseteq live
        /\ live \subseteq Nat
    BY <1>1 DEF Applicable, Rendered
  <2> HIDE DEF known, live
  <2>2. job' = [Idle EXCEPT
                  !.phase = "model", !.idx = job.idx, !.dry = job.dry,
                  !.tree = job.tree, !.known = known, !.live = live,
                  !.prior = Rendered(live),
                  !.base = Len(threads), !.gbase = Len(general)]
    BY <1>6 DEF CaptureSnapshots, known, live
  <2>3. job' \in JobState
    BY <1>1, <2>1, <2>2, IdleType DEF JobState, Phases
  <2>4. /\ job'.live = live /\ job'.prior = Rendered(live) /\ job'.carried = {}
        /\ job'.base = Len(threads) /\ job'.gbase = Len(general)
    BY <2>2 DEF Idle
  <2>5. ThreadsOfJob'
    BY <1>1, <1>6, <2>1, <2>4 DEF CaptureSnapshots, ThreadsOfJob
  <2> QED
    BY <1>1, <1>6, <2>3, <2>5 DEF CaptureSnapshots, TypeOK, ThreadsOfJob
<1>7. CASE RunModel
  <2>1. PICK findings, valid, empty \in SUBSET Issues, n \in 0..MaxCarried :
          \E raw \in [1..n -> RawEntry] : AnswerIs(findings, valid, empty, raw)
    BY <1>1, <1>7, AnswerExists
  <2>2. PICK raw \in [1..n -> RawEntry] : AnswerIs(findings, valid, empty, raw)
    BY <2>1
  <2> DEFINE kept == NormalizeCarriedForward(raw)
  <2>3. \A c \in kept : \E m \in 1..n : c = <<m, raw[m].id>> /\ raw[m].id \in job.live
    BY <2>2 DEF NormalizeCarriedForward, ValidEntry
  <2> HIDE DEF kept
  <2>4. kept \subseteq (1..MaxCarried) \X Nat /\ \A c \in kept : c[2] \in DOMAIN threads
    <3> SUFFICES ASSUME NEW c \in kept
                 PROVE  c \in (1..MaxCarried) \X Nat /\ c[2] \in DOMAIN threads
      OBVIOUS
    <3>1. PICK m \in 1..n : c = <<m, raw[m].id>> /\ raw[m].id \in job.live
      BY <2>3
    <3>2. m \in 1..MaxCarried /\ raw[m].id \in DOMAIN threads /\ raw[m].id \in Nat
      BY <1>1, <3>1, PostingAssumption DEF ThreadsOfJob
    <3> QED
      BY <3>1, <3>2
  <2>5. job' = [job EXCEPT
                 !.phase = "batch", !.findings = findings, !.carried = kept,
                 !.queue = valid, !.dropped = empty,
                 !.remap = findings \ (valid \cup empty)]
    BY <2>2 DEF AnswerIs, kept
  <2>6. job' \in JobState
    BY <1>1, <2>4, <2>5 DEF JobState, Phases
  <2>7. ThreadsOfJob'
    BY <1>1, <1>7, <2>4, <2>5 DEF RunModel, ThreadsOfJob, JobState
  <2> QED
    BY <1>1, <1>7, <2>6, <2>7 DEF RunModel, TypeOK, ThreadsOfJob
<1>8. CASE PostBatch
  <2>1. PICK e \in Effects, s \in Listings(job.queue) :
          /\ threads' = IF e[2] THEN threads \o Opened(s) ELSE threads
          /\ job' = AfterBatch(e[1])
    BY <1>8 DEF PostBatch
  <2>2. s \in Seq(Issues)
    BY <1>1, ListingsAreSequences DEF JobState
  <2>3. threads' \in Seq(Thread) /\ Len(threads') >= Len(threads)
    BY <1>1, <2>1, <2>2, OpenedThreads
  <2>4. job' \in JobState
    BY <1>1, <2>1, IdleType DEF AfterBatch, JobState, Phases
  <2>5. ThreadsOfJob'
    BY <1>1, <1>8, <2>1, <2>3 DEF AfterBatch, PostBatch, JobState, Idle, ThreadsOfJob
  <2> QED
    BY <1>1, <1>8, <2>3, <2>4, <2>5 DEF PostBatch, TypeOK, ThreadsOfJob
<1>9. CASE SkipBatch
  BY <1>1, <1>9 DEF SkipBatch, JobState, Phases, TypeOK, ThreadsOfJob
<1>10. ASSUME NEW i \in Issues, PostInline(i) PROVE TypeOK'
  <2>1. PICK e \in Effects :
          /\ threads' = IF e[2] THEN threads \o Opened(<<i>>) ELSE threads
          /\ job' = AfterOne(i, e[1])
    BY <1>10 DEF PostInline
  <2>2. /\ threads \o Opened(<<i>>) \in Seq(Thread)
        /\ Len(threads \o Opened(<<i>>)) = Len(threads) + 1
    BY <1>1, OpenedOne
  <2>3. threads' \in Seq(Thread) /\ Len(threads') >= Len(threads)
    BY <1>1, <2>1, <2>2
  <2>4. job' \in JobState
    BY <1>1, <2>1, IdleType DEF AfterOne, JobState
  <2>5. ThreadsOfJob'
    BY <1>1, <1>10, <2>1, <2>3 DEF AfterOne, PostInline, JobState, Idle, ThreadsOfJob
  <2> QED
    BY <1>1, <1>10, <2>3, <2>4, <2>5 DEF PostInline, TypeOK, ThreadsOfJob
<1>11. ASSUME NEW i \in Issues, PostGeneral(i) PROVE TypeOK'
  <2>1. PICK e \in Effects :
          /\ general' = IF e[2] THEN Append(general, i) ELSE general
          /\ job' = IF e[1] = "ok"
                    THEN [job EXCEPT !.remap = @ \ {i}, !.remapped = @ \cup {i}]
                    ELSE Idle
    BY <1>11 DEF PostGeneral
  <2>2. general' \in Seq(Issues) /\ Len(general') >= Len(general)
    BY <1>1, <2>1
  <2>3. job' \in JobState
    BY <1>1, <2>1, IdleType DEF JobState
  <2>4. ThreadsOfJob'
    BY <1>1, <1>11, <2>1, <2>2 DEF PostGeneral, JobState, Idle, ThreadsOfJob
  <2> QED
    BY <1>1, <1>11, <2>2, <2>3, <2>4 DEF PostGeneral, TypeOK, ThreadsOfJob
<1>12. CASE PostedInline
  BY <1>1, <1>12 DEF PostedInline, JobState, Phases, TypeOK, ThreadsOfJob
<1>13. CASE PostedGeneral
  <2>1. job' \in JobState /\ ThreadsOfJob'
    BY <1>1, <1>13, NextModelType DEF PostedGeneral, JobState, Phases, ThreadsOfJob
  <2> QED
    BY <1>1, <1>13, <2>1 DEF PostedGeneral, TypeOK, ThreadsOfJob
<1>14. CASE DeletePriorSummary
  BY <1>1, <1>14 DEF DeletePriorSummary, JobState, Phases, TypeOK, ThreadsOfJob
<1>15. CASE CreateSummary
  <2>1. job' \in JobState /\ ThreadsOfJob'
    BY <1>1, <1>15, NextModelType DEF CreateSummary, ThreadsOfJob
  <2>2. Model \in Models
    BY <1>1, PostingAssumption DEF Model, JobState
  <2> QED
    BY <1>1, <1>15, <2>1, <2>2 DEF CreateSummary, TypeOK, ThreadsOfJob
<1>16. CASE UNCHANGED vars
  BY <1>1, <1>16 DEF vars, TypeOK, ThreadsOfJob
<1> QED
  BY <1>2, <1>3, <1>4, <1>5, <1>6, <1>7, <1>8, <1>9, <1>10, <1>11, <1>12, <1>13, <1>14,
     <1>15, <1>16 DEF Next, World, Review

LEMMA InitType == Init => TypeOK
<1> SUFFICES ASSUME Init PROVE TypeOK
  OBVIOUS
<1>1. job \in JobState
  BY IdleType DEF Init
<1>2. ThreadsOfJob
  BY DEF Init, Idle, ThreadsOfJob
<1> QED
  BY <1>1, <1>2, PostingAssumption DEF Init, TypeOK, ThreadsOfJob

(* The variables keep their types.                                         *)
THEOREM TypeCorrect == Spec => []TypeOK
  BY InitType, TypeStep, PTL DEF Spec
-----------------------------------------------------------------------------
(***************************************************************************)
(* The inductive invariant.  The snapshot a running job works from stays   *)
(* true while it runs, because dotbot alone opens threads and nobody       *)
(* reopens one; the findings avoid the threads the model was shown; and    *)
(* between two models of a job there is a summary.                         *)
(***************************************************************************)
Running == job.phase = "model" \/ Posting

SnapshotHolds ==
  Running =>
    /\ job.prior \subseteq job.live /\ job.live \subseteq 1..job.base
    /\ \A k \in job.live : threads[k].issue \in job.tree
    /\ job.known => \A k \in 1..job.base :
         threads[k].open /\ threads[k].issue \in job.tree => k \in job.live

FindingsAreNew ==
  Posting =>
    /\ job.findings \subseteq job.tree
    /\ \A k \in job.prior : threads[k].issue \notin job.findings

Untouched ==
  /\ job.phase = "model" =>
       /\ job.base = Len(threads) /\ job.gbase = Len(general)
       /\ job.prior = Rendered(job.live)
       /\ job.inline = {} /\ job.skipped = {} /\ job.remapped = {}
  /\ job.phase = "batch" => job.inline = {} /\ job.skipped = {}
  /\ job.phase \in {"batch", "each"} => job.remapped = {}
  /\ job.phase = "general" /\ ~job.dry => job.queue = {}

SummaryBetween ==
  job.idx > 1 /\ ~job.dry =>
    /\ job.phase = "snapshot" => summaries # {}
    /\ job.phase = "model" => job.known

IInv ==
  /\ TypeOK
  /\ SnapshotHolds
  /\ FindingsAreNew
  /\ CarriedAreLive
  /\ Untouched
  /\ Accounting
  /\ SummaryBetween

(* The six places, written out.                                            *)
Partitioned(r) ==
  /\ r.findings = r.queue \cup r.remap \cup r.inline \cup r.skipped \cup r.dropped \cup r.remapped
  /\ r.queue \cap (r.remap \cup r.inline \cup r.skipped \cup r.dropped \cup r.remapped) = {}
  /\ r.remap \cap (r.inline \cup r.skipped \cup r.dropped \cup r.remapped) = {}
  /\ r.inline \cap (r.skipped \cup r.dropped \cup r.remapped) = {}
  /\ r.skipped \cap (r.dropped \cup r.remapped) = {}
  /\ r.dropped \cap r.remapped = {}

LEMMA PlacesWrittenOut ==
  ASSUME NEW r
  PROVE  SortedOut(r) <=> Partitioned(r)
<1> DEFINE P == Places(r)
<1>1. /\ DOMAIN P = {1, 2, 3, 4, 5, 6}
      /\ P[1] = r.queue /\ P[2] = r.remap /\ P[3] = r.inline /\ P[4] = r.skipped
      /\ P[5] = r.dropped /\ P[6] = r.remapped
  BY DEF Places
<1> HIDE DEF P
<1>2. SortedOut(r) <=>
        /\ \A i \in r.findings : \E p \in DOMAIN P : i \in P[p]
        /\ \A p \in DOMAIN P : P[p] \subseteq r.findings
        /\ \A p, q \in DOMAIN P : p # q => P[p] \cap P[q] = {}
  BY DEF SortedOut, P
<1>3. ASSUME SortedOut(r) PROVE Partitioned(r)
  <2>1. /\ P[1] \cap P[2] = {} /\ P[1] \cap P[3] = {} /\ P[1] \cap P[4] = {}
        /\ P[1] \cap P[5] = {} /\ P[1] \cap P[6] = {} /\ P[2] \cap P[3] = {}
        /\ P[2] \cap P[4] = {} /\ P[2] \cap P[5] = {} /\ P[2] \cap P[6] = {}
        /\ P[3] \cap P[4] = {} /\ P[3] \cap P[5] = {} /\ P[3] \cap P[6] = {}
        /\ P[4] \cap P[5] = {} /\ P[4] \cap P[6] = {} /\ P[5] \cap P[6] = {}
    BY <1>1, <1>2, <1>3
  <2>2. r.findings = P[1] \cup P[2] \cup P[3] \cup P[4] \cup P[5] \cup P[6]
    BY <1>1, <1>2, <1>3
  <2> QED
    BY <1>1, <2>1, <2>2 DEF Partitioned
<1>4. ASSUME Partitioned(r) PROVE SortedOut(r)
  <2>1. \A i \in r.findings : \E p \in DOMAIN P : i \in P[p]
    BY <1>1, <1>4 DEF Partitioned
  <2>2. \A p \in DOMAIN P : P[p] \subseteq r.findings
    BY <1>1, <1>4 DEF Partitioned
  <2>3. \A p, q \in DOMAIN P : p # q => P[p] \cap P[q] = {}
    BY <1>1, <1>4 DEF Partitioned
  <2> QED
    BY <1>2, <2>1, <2>2, <2>3
<1> QED
  BY <1>3, <1>4

LEMMA Initially == Init => IInv
<1> SUFFICES ASSUME Init PROVE IInv
  OBVIOUS
<1>1. TypeOK
  BY InitType
<1>2. job.phase = "idle" /\ job.idx = 1
  BY DEF Init, Idle
<1> QED
  BY <1>1, <1>2 DEF IInv, SnapshotHolds, FindingsAreNew, CarriedAreLive, Untouched, Accounting,
     SummaryBetween, Running, Posting

(* The idle record, and a step to a next model.                            *)
LEMMA NotRunningNext ==
  ASSUME IInv, TypeOK',
         job' = Idle \/ (job' = NextModel /\ (~job.dry => summaries' # {}))
  PROVE  IInv'
<1>1. CASE job' = Idle
  BY <1>1 DEF Idle, IInv, SnapshotHolds, FindingsAreNew, CarriedAreLive, Untouched, Accounting,
     SummaryBetween, Running, Posting
<1>2. CASE job' = NextModel /\ job.idx < Len(Roster) /\ (~job.dry => summaries' # {})
  <2>1. job' = [job EXCEPT !.phase = "snapshot", !.idx = job.idx + 1]
    BY <1>2 DEF NextModel
  <2>2. job'.phase = "snapshot" /\ job'.dry = job.dry
    BY <2>1 DEF IInv, TypeOK, JobState
  <2> QED
    BY <1>2, <2>2 DEF IInv, SnapshotHolds, FindingsAreNew, CarriedAreLive, Untouched, Accounting,
       SummaryBetween, Running, Posting
<1> QED
  BY <1>1, <1>2 DEF NextModel

(* A step that leaves what the invariant speaks of alone.                  *)
LEMMA Undisturbed ==
  ASSUME IInv, TypeOK', UNCHANGED <<job, general, summaries>>, Len(threads') = Len(threads),
         \A k \in 1..Len(threads) :
           threads'[k].issue = threads[k].issue /\ (threads'[k].open => threads[k].open)
  PROVE  IInv'
<1>1. /\ TypeOK /\ SnapshotHolds /\ FindingsAreNew /\ CarriedAreLive /\ Untouched
      /\ Accounting /\ SummaryBetween
  BY DEF IInv
<1>2. job.base \in Nat /\ Len(threads) \in Nat /\ job.base <= Len(threads)
  BY <1>1 DEF TypeOK, JobState
<1>3. job' = job /\ general' = general /\ summaries' = summaries
  OBVIOUS
<1>4. Running => job.live \subseteq 1..Len(threads) /\ job.prior \subseteq job.live
  BY <1>1, <1>2 DEF SnapshotHolds
<1>5. SnapshotHolds'
  <2> SUFFICES ASSUME Running' PROVE
        /\ job.prior \subseteq job.live /\ job.live \subseteq 1..job.base
        /\ \A k \in job.live : threads'[k].issue \in job.tree
        /\ job.known => \A k \in 1..job.base :
             threads'[k].open /\ threads'[k].issue \in job.tree => k \in job.live
    BY <1>3 DEF SnapshotHolds
  <2>1. Running
    BY <1>3 DEF Running, Posting
  <2> QED
    BY <1>1, <1>2, <1>4, <2>1 DEF SnapshotHolds
<1>6. FindingsAreNew' /\ CarriedAreLive'
  <2> SUFFICES ASSUME Posting' PROVE FindingsAreNew' /\ CarriedAreLive'
    BY DEF FindingsAreNew, CarriedAreLive
  <2>1. Posting /\ Running
    BY <1>3 DEF Running, Posting
  <2>2. \A k \in job.live : threads'[k].issue = threads[k].issue
    BY <1>4, <2>1
  <2> QED
    BY <1>1, <1>3, <1>4, <2>1, <2>2 DEF FindingsAreNew, CarriedAreLive
<1>7. NewThreads' = NewThreads /\ NewGeneral' = NewGeneral
  <2>1. \A k \in (job.base + 1)..Len(threads) : threads'[k].issue = threads[k].issue
    BY <1>2
  <2> QED
    BY <1>3, <2>1 DEF NewThreads, NewGeneral
<1>8. Accounting' /\ Untouched' /\ SummaryBetween'
  BY <1>1, <1>3, <1>7 DEF Accounting, SortedOut, Places, Posting, Untouched, SummaryBetween
<1> QED
  BY <1>5, <1>6, <1>8 DEF IInv

(* A posting step: it may open threads, and keeps those there are, the     *)
(* snapshot and the answer of the model.                                   *)
KeepsSnapshot ==
  /\ Posting' /\ \A k \in 1..Len(threads) : threads'[k] = threads[k]
  /\ job'.tree = job.tree /\ job'.known = job.known /\ job'.live = job.live
  /\ job'.prior = job.prior /\ job'.base = job.base /\ job'.gbase = job.gbase
  /\ job'.idx = job.idx /\ job'.dry = job.dry
  /\ job'.findings = job.findings /\ job'.carried = job.carried

LEMMA SnapshotKept ==
  ASSUME IInv, Posting, KeepsSnapshot
  PROVE  SnapshotHolds' /\ FindingsAreNew' /\ CarriedAreLive' /\ SummaryBetween'
<1>1. /\ SnapshotHolds /\ FindingsAreNew /\ CarriedAreLive
      /\ job.base \in Nat /\ Len(threads) \in Nat /\ job.base <= Len(threads)
  BY DEF IInv, TypeOK, JobState
<1>2. /\ Running /\ job.prior \subseteq job.live /\ job.live \subseteq 1..job.base
      /\ \A k \in 1..job.base : threads'[k] = threads[k]
  BY <1>1 DEF Running, SnapshotHolds, KeepsSnapshot
<1>3. SnapshotHolds'
  BY <1>1, <1>2 DEF SnapshotHolds, KeepsSnapshot
<1>4. FindingsAreNew' /\ CarriedAreLive'
  BY <1>1, <1>2 DEF FindingsAreNew, CarriedAreLive, KeepsSnapshot
<1>5. SummaryBetween'
  BY DEF SummaryBetween, KeepsSnapshot, Posting
<1> QED
  BY <1>3, <1>4, <1>5

LEMMA CaptureKeeps ==
  ASSUME IInv, TypeOK', CaptureSnapshots
  PROVE  IInv'
<1> DEFINE known == summaries # {}
           live == Applicable(known)
<1>1. job' = [Idle EXCEPT
                !.phase = "model", !.idx = job.idx, !.dry = job.dry,
                !.tree = job.tree, !.known = known, !.live = live,
                !.prior = Rendered(live),
                !.base = Len(threads), !.gbase = Len(general)]
  BY DEF CaptureSnapshots
<1>2. /\ job'.phase = "model" /\ job'.idx = job.idx /\ job'.dry = job.dry
      /\ job'.tree = job.tree /\ job'.known = known /\ job'.live = live
      /\ job'.prior = Rendered(live) /\ job'.base = Len(threads) /\ job'.gbase = Len(general)
      /\ job'.inline = {} /\ job'.skipped = {} /\ job'.remapped = {}
      /\ UNCHANGED <<threads, general, summaries>>
  BY <1>1 DEF Idle, CaptureSnapshots
<1>3. DOMAIN threads = 1..Len(threads)
  BY DEF IInv, TypeOK
<1>4. SnapshotHolds'
  BY <1>2, <1>3 DEF SnapshotHolds, Applicable, Rendered
<1>5. SummaryBetween'
  BY <1>2 DEF IInv, SummaryBetween, CaptureSnapshots
<1> QED
  BY <1>2, <1>4, <1>5 DEF IInv, FindingsAreNew, CarriedAreLive, Untouched, Accounting, Posting

LEMMA ModelKeeps ==
  ASSUME IInv, TypeOK', RunModel
  PROVE  IInv'
<1>1. /\ TypeOK /\ SnapshotHolds /\ Untouched /\ job \in JobState /\ job.phase = "model"
      /\ UNCHANGED <<threads, general, summaries>>
  BY DEF IInv, TypeOK, RunModel
<1>2. PICK findings, valid, empty \in SUBSET Issues, n \in 0..MaxCarried :
        \E raw \in [1..n -> RawEntry] : AnswerIs(findings, valid, empty, raw)
  BY <1>1, AnswerExists
<1>3. PICK raw \in [1..n -> RawEntry] : AnswerIs(findings, valid, empty, raw)
  BY <1>2
<1> DEFINE kept == NormalizeCarriedForward(raw)
<1>4. DOMAIN raw = 1..n /\ n \in Nat
  BY <1>3, PostingAssumption
<1>5. /\ \A c \in kept : c[2] \in job.live
      /\ \A c, d \in kept : c[2] = d[2] => c = d
  <2>1. \A c \in kept : \E m \in 1..n :
          /\ c = <<m, raw[m].id>> /\ ValidEntry(raw[m])
          /\ \A l \in 1..(m - 1) : ValidEntry(raw[l]) => raw[l].id # raw[m].id
    BY <1>4 DEF NormalizeCarriedForward
  <2>2. \A c \in kept : c[2] \in job.live
    BY <2>1 DEF ValidEntry
  <2>3. ASSUME NEW c \in kept, NEW d \in kept, c[2] = d[2] PROVE c = d
    <3>1. PICK m \in 1..n :
            /\ c = <<m, raw[m].id>> /\ ValidEntry(raw[m])
            /\ \A l \in 1..(m - 1) : ValidEntry(raw[l]) => raw[l].id # raw[m].id
      BY <2>1
    <3>2. PICK l \in 1..n :
            /\ d = <<l, raw[l].id>> /\ ValidEntry(raw[l])
            /\ \A k \in 1..(l - 1) : ValidEntry(raw[k]) => raw[k].id # raw[l].id
      BY <2>1
    <3>3. raw[m].id = raw[l].id
      BY <2>3, <3>1, <3>2
    <3>4. ~(m < l) /\ ~(l < m)
      BY <1>4, <3>1, <3>2, <3>3
    <3> QED
      BY <1>4, <3>1, <3>2, <3>4
  <2> QED
    BY <2>2, <2>3
<1> HIDE DEF kept
<1>6. job' = [job EXCEPT !.phase = "batch", !.findings = findings, !.carried = kept,
                         !.queue = valid, !.dropped = empty,
                         !.remap = findings \ (valid \cup empty)]
  BY <1>3 DEF AnswerIs, kept
<1>7. /\ job'.phase = "batch" /\ job'.findings = findings /\ job'.carried = kept
      /\ job'.queue = valid /\ job'.dropped = empty
      /\ job'.remap = findings \ (valid \cup empty)
      /\ job'.inline = {} /\ job'.skipped = {} /\ job'.remapped = {}
      /\ job'.base = Len(threads) /\ job'.gbase = Len(general)
      /\ job'.tree = job.tree /\ job'.known = job.known /\ job'.live = job.live
      /\ job'.prior = job.prior
  BY <1>1, <1>6 DEF JobState, Untouched
<1>8. SnapshotHolds'
  BY <1>1, <1>7 DEF SnapshotHolds, Running, Posting, Untouched
<1>9. FindingsAreNew'
  BY <1>1, <1>3, <1>7 DEF FindingsAreNew, AnswerIs
<1>10. CarriedAreLive'
  BY <1>1, <1>5, <1>7 DEF CarriedAreLive, SnapshotHolds, Running
<1>11. Partitioned(job')
  BY <1>3, <1>7 DEF Partitioned, AnswerIs
<1>12. NewThreads' = {} /\ NewGeneral' = {} /\ Cardinality({}) = 0
  BY <1>1, <1>7, FS_EmptySet DEF NewThreads, NewGeneral, TypeOK
<1>13. Accounting'
  <2>1. SortedOut(job')
    BY <1>11, PlacesWrittenOut
  <2> QED
    BY <1>1, <1>7, <1>12, <2>1 DEF Accounting, TypeOK
<1> QED
  BY <1>7, <1>8, <1>9, <1>10, <1>13 DEF IInv, Untouched, SummaryBetween

(* What the threads and the general comments of a run are after one more.  *)
LEMMA BatchArrives ==
  ASSUME TypeOK, Posting, NewThreads = {}, Len(threads) - job.base = 0,
         NEW Q \in SUBSET Issues, NEW s \in Listings(Q),
         threads' = threads \o Opened(s), job'.base = job.base
  PROVE  /\ NewThreads' = Q
         /\ Len(threads') - job'.base = Cardinality(Q)
         /\ \A k \in 1..Len(threads) : threads'[k] = threads[k]
<1> DEFINE n == Len(threads)
           t == threads \o Opened(s)
<1>1. s \in Seq(Issues) /\ Len(s) = Cardinality(Q) /\ {s[m] : m \in 1..Len(s)} = Q
  BY ListingsAreSequences
<1>2. /\ threads \in Seq(Thread) /\ n \in Nat /\ job.base = n /\ Len(s) \in Nat
  BY <1>1 DEF TypeOK, JobState
<1>3. /\ Len(t) = n + Len(s)
      /\ \A j \in 1..n : t[j] = threads[j]
      /\ \A j \in 1..Len(s) : t[n + j].issue = s[j]
  BY <1>1, <1>2, OpenedThreads
<1> HIDE DEF t, n
<1>4. {t[k].issue : k \in (n + 1)..Len(t)} = {s[m] : m \in 1..Len(s)}
  <2>1. ASSUME NEW k \in (n + 1)..Len(t) PROVE k - n \in 1..Len(s) /\ t[k].issue = s[k - n]
    <3>1. k - n \in 1..Len(s) /\ k = n + (k - n)
      BY <1>2, <1>3
    <3> QED
      BY <1>3, <3>1
  <2>2. ASSUME NEW m \in 1..Len(s) PROVE n + m \in (n + 1)..Len(t) /\ t[n + m].issue = s[m]
    BY <1>2, <1>3
  <2>3. {t[k].issue : k \in (n + 1)..Len(t)} \subseteq {s[m] : m \in 1..Len(s)}
    BY <2>1
  <2>4. {s[m] : m \in 1..Len(s)} \subseteq {t[k].issue : k \in (n + 1)..Len(t)}
    BY <2>2
  <2> QED
    BY <2>3, <2>4
<1>5. threads' = t /\ n = Len(threads)
  BY DEF t, n
<1>6. NewThreads' = {t[k].issue : k \in (n + 1)..Len(t)}
  BY <1>2, <1>5 DEF NewThreads
<1>7. Len(threads') - job'.base = Cardinality(Q)
  BY <1>1, <1>2, <1>3, <1>5
<1> QED
  BY <1>1, <1>3, <1>4, <1>5, <1>6, <1>7

LEMMA OneArrives ==
  ASSUME TypeOK, NEW i \in Issues, threads' = threads \o Opened(<<i>>), job'.base = job.base
  PROVE  /\ NewThreads' = NewThreads \cup {i}
         /\ Len(threads') - job'.base = (Len(threads) - job.base) + 1
         /\ \A k \in 1..Len(threads) : threads'[k] = threads[k]
<1> DEFINE n == Len(threads)
           t == threads \o Opened(<<i>>)
<1>1. threads \in Seq(Thread) /\ n \in Nat /\ job.base \in Nat /\ job.base <= n
  BY DEF TypeOK, JobState
<1>2. /\ Len(t) = n + 1
      /\ \A j \in 1..n : t[j] = threads[j]
      /\ t[n + 1].issue = i
  BY <1>1, OpenedOne
<1> HIDE DEF t
<1>3. {t[k].issue : k \in (job.base + 1)..Len(t)}
        = {threads[k].issue : k \in (job.base + 1)..n} \cup {i}
  <2>1. (job.base + 1)..Len(t) = ((job.base + 1)..n) \cup {n + 1}
    BY <1>1, <1>2
  <2>2. \A k \in (job.base + 1)..n : t[k] = threads[k]
    BY <1>1, <1>2
  <2> QED
    BY <1>2, <2>1, <2>2
<1>4. threads' = t
  BY DEF t
<1>5. NewThreads' = {t[k].issue : k \in (job.base + 1)..Len(t)}
  BY <1>4 DEF NewThreads
<1>6. NewThreads = {threads[k].issue : k \in (job.base + 1)..n}
  BY DEF NewThreads
<1>7. Len(threads') - job'.base = (Len(threads) - job.base) + 1
  BY <1>1, <1>2, <1>4
<1> QED
  BY <1>2, <1>3, <1>4, <1>5, <1>6, <1>7

LEMMA GeneralArrives ==
  ASSUME TypeOK, NEW i \in Issues, general' = Append(general, i), job'.gbase = job.gbase
  PROVE  /\ NewGeneral' = NewGeneral \cup {i}
         /\ Len(general') - job'.gbase = (Len(general) - job.gbase) + 1
<1> DEFINE n == Len(general)
           g == Append(general, i)
<1>1. general \in Seq(Issues) /\ n \in Nat /\ job.gbase \in Nat /\ job.gbase <= n
  BY DEF TypeOK, JobState
<1>2. Len(g) = n + 1 /\ (\A j \in 1..n : g[j] = general[j]) /\ g[n + 1] = i
  BY <1>1
<1> HIDE DEF g
<1>3. {g[k] : k \in (job.gbase + 1)..Len(g)} = {general[k] : k \in (job.gbase + 1)..n} \cup {i}
  <2>1. (job.gbase + 1)..Len(g) = ((job.gbase + 1)..n) \cup {n + 1}
    BY <1>1, <1>2
  <2>2. \A k \in (job.gbase + 1)..n : g[k] = general[k]
    BY <1>1, <1>2
  <2> QED
    BY <1>2, <2>1, <2>2
<1>4. general' = g
  BY DEF g
<1>5. NewGeneral' = {g[k] : k \in (job.gbase + 1)..Len(g)}
  BY <1>4 DEF NewGeneral
<1>6. Len(general') - job'.gbase = (Len(general) - job.gbase) + 1
  BY <1>1, <1>2, <1>4
<1> QED
  BY <1>3, <1>5, <1>6 DEF NewGeneral

LEMMA CountOneMore ==
  ASSUME NEW S \in SUBSET Issues, NEW i, i \notin S
  PROVE  Cardinality(S \cup {i}) = Cardinality(S) + 1
  BY PostingAssumption, FS_Subset, FS_AddElement

LEMMA EffectsOfAnswers ==
  ASSUME NEW e \in Effects
  PROVE  /\ e[1] \in {"ok", "422", "error"}
         /\ e[1] = "ok" => e[2]
         /\ e[1] = "422" => ~e[2]
<1>1. CASE e = <<"ok", TRUE>>
  BY <1>1
<1>2. CASE e = <<"422", FALSE>>
  BY <1>2
<1>3. CASE e = <<"error", TRUE>>
  BY <1>3
<1>4. CASE e = <<"error", FALSE>>
  BY <1>4
<1> QED
  BY <1>1, <1>2, <1>3, <1>4 DEF Effects

LEMMA BatchKeeps ==
  ASSUME IInv, TypeOK', PostBatch
  PROVE  IInv'
<1>1. /\ TypeOK /\ job \in JobState /\ Accounting /\ Untouched /\ Posting
      /\ job.phase = "batch" /\ ~job.dry /\ UNCHANGED <<general, summaries>>
  BY DEF IInv, TypeOK, PostBatch, Posting
<1>2. PICK e \in Effects, s \in Listings(job.queue) :
        /\ threads' = IF e[2] THEN threads \o Opened(s) ELSE threads
        /\ job' = AfterBatch(e[1])
  BY DEF PostBatch
<1>3. /\ job.inline = {} /\ job.skipped = {} /\ job.remapped = {} /\ Partitioned(job)
      /\ NewThreads = {} /\ Len(threads) - job.base = 0
      /\ NewGeneral = {} /\ Len(general) - job.gbase = 0 /\ Cardinality({}) = 0
  BY <1>1, PlacesWrittenOut, FS_EmptySet DEF Accounting, Untouched
<1>4. CASE e[1] = "ok"
  <2>1. /\ threads' = threads \o Opened(s)
        /\ job' = [job EXCEPT !.phase = "general", !.inline = job.queue, !.queue = {}]
    BY <1>2, <1>4, EffectsOfAnswers DEF AfterBatch
  <2>2. /\ job'.phase = "general" /\ job'.inline = job.queue /\ job'.queue = {}
        /\ job'.remap = job.remap /\ job'.skipped = {} /\ job'.dropped = job.dropped
        /\ job'.remapped = {} /\ job'.findings = job.findings /\ job'.carried = job.carried
        /\ job'.tree = job.tree /\ job'.known = job.known /\ job'.live = job.live
        /\ job'.prior = job.prior /\ job'.base = job.base /\ job'.gbase = job.gbase
        /\ job'.idx = job.idx /\ job'.dry = job.dry
    BY <1>1, <1>3, <2>1 DEF JobState
  <2>3. /\ NewThreads' = job.queue
        /\ Len(threads') - job'.base = Cardinality(job.queue)
        /\ \A k \in 1..Len(threads) : threads'[k] = threads[k]
    BY <1>1, <1>3, <2>1, <2>2, BatchArrives DEF JobState
  <2>4. SnapshotHolds' /\ FindingsAreNew' /\ CarriedAreLive' /\ SummaryBetween'
    BY <1>1, <2>2, <2>3, SnapshotKept DEF KeepsSnapshot, Posting
  <2>5. SortedOut(job')
    BY <1>3, <2>2, PlacesWrittenOut DEF Partitioned
  <2>6. NewGeneral' = {} /\ Len(general') - job'.gbase = 0
    BY <1>1, <1>3, <2>2 DEF NewGeneral
  <2>7. Accounting'
    BY <1>3, <2>2, <2>3, <2>5, <2>6 DEF Accounting
  <2> QED
    BY <2>2, <2>4, <2>7 DEF IInv, Untouched
<1>5. CASE e[1] = "422"
  <2>1. threads' = threads /\ job' = [job EXCEPT !.phase = "each"]
    BY <1>2, <1>5, EffectsOfAnswers DEF AfterBatch
  <2>2. /\ job'.phase = "each" /\ job'.inline = {} /\ job'.queue = job.queue
        /\ job'.remap = job.remap /\ job'.skipped = {} /\ job'.dropped = job.dropped
        /\ job'.remapped = {} /\ job'.findings = job.findings /\ job'.carried = job.carried
        /\ job'.tree = job.tree /\ job'.known = job.known /\ job'.live = job.live
        /\ job'.prior = job.prior /\ job'.base = job.base /\ job'.gbase = job.gbase
        /\ job'.idx = job.idx /\ job'.dry = job.dry
    BY <1>1, <1>3, <2>1 DEF JobState
  <2>3. SnapshotHolds' /\ FindingsAreNew' /\ CarriedAreLive' /\ SummaryBetween'
    BY <1>1, <2>1, <2>2, SnapshotKept DEF KeepsSnapshot, Posting
  <2>4. SortedOut(job')
    BY <1>3, <2>2, PlacesWrittenOut DEF Partitioned
  <2>5. /\ NewGeneral' = {} /\ Len(general') - job'.gbase = 0
        /\ NewThreads' = {} /\ Len(threads') - job'.base = 0
    BY <1>1, <1>3, <2>1, <2>2 DEF NewGeneral, NewThreads
  <2>6. Accounting'
    BY <1>3, <2>2, <2>4, <2>5 DEF Accounting
  <2> QED
    BY <2>2, <2>3, <2>6 DEF IInv, Untouched
<1>6. CASE e[1] = "error"
  BY <1>2, <1>6, NotRunningNext DEF AfterBatch
<1> QED
  BY <1>4, <1>5, <1>6, EffectsOfAnswers

LEMMA InlineKeeps ==
  ASSUME IInv, TypeOK', NEW i \in Issues, PostInline(i)
  PROVE  IInv'
<1>1. /\ TypeOK /\ job \in JobState /\ Accounting /\ Untouched /\ Posting
      /\ job.phase = "each" /\ i \in job.queue /\ UNCHANGED <<general, summaries>>
  BY DEF IInv, TypeOK, PostInline, Posting
<1>2. PICK e \in Effects :
        /\ threads' = IF e[2] THEN threads \o Opened(<<i>>) ELSE threads
        /\ job' = AfterOne(i, e[1])
  BY DEF PostInline
<1>3. /\ Partitioned(job) /\ job.remapped = {}
      /\ NewThreads = job.inline /\ Len(threads) - job.base = Cardinality(job.inline)
      /\ NewGeneral = job.remapped /\ Len(general) - job.gbase = Cardinality(job.remapped)
  BY <1>1, PlacesWrittenOut DEF Accounting, Untouched
<1>4. CASE e[1] = "ok"
  <2>1. /\ threads' = threads \o Opened(<<i>>)
        /\ job' = [job EXCEPT !.queue = job.queue \ {i}, !.inline = job.inline \cup {i}]
    BY <1>2, <1>4, EffectsOfAnswers DEF AfterOne
  <2>2. /\ job'.phase = "each" /\ job'.inline = job.inline \cup {i}
        /\ job'.queue = job.queue \ {i}
        /\ job'.remap = job.remap /\ job'.skipped = job.skipped /\ job'.dropped = job.dropped
        /\ job'.remapped = job.remapped /\ job'.findings = job.findings
        /\ job'.carried = job.carried
        /\ job'.tree = job.tree /\ job'.known = job.known /\ job'.live = job.live
        /\ job'.prior = job.prior /\ job'.base = job.base /\ job'.gbase = job.gbase
        /\ job'.idx = job.idx /\ job'.dry = job.dry
    BY <1>1, <2>1 DEF JobState
  <2>3. /\ NewThreads' = NewThreads \cup {i}
        /\ Len(threads') - job'.base = (Len(threads) - job.base) + 1
        /\ \A k \in 1..Len(threads) : threads'[k] = threads[k]
    BY <1>1, <2>1, <2>2, OneArrives
  <2>4. i \notin job.inline /\ job.inline \subseteq Issues
    BY <1>1, <1>3 DEF Partitioned, JobState
  <2>5. Cardinality(job'.inline) = Cardinality(job.inline) + 1
    BY <2>2, <2>4, CountOneMore
  <2>6. SnapshotHolds' /\ FindingsAreNew' /\ CarriedAreLive' /\ SummaryBetween'
    BY <1>1, <2>2, <2>3, SnapshotKept DEF KeepsSnapshot, Posting
  <2>7. SortedOut(job')
    BY <1>1, <1>3, <2>2, PlacesWrittenOut DEF Partitioned
  <2>8. NewGeneral' = NewGeneral /\ Len(general') - job'.gbase = Len(general) - job.gbase
    BY <1>1, <2>2 DEF NewGeneral
  <2>9. Accounting'
    BY <1>3, <2>2, <2>3, <2>5, <2>7, <2>8 DEF Accounting
  <2> QED
    BY <1>3, <2>2, <2>6, <2>9 DEF IInv, Untouched
<1>5. CASE e[1] = "422"
  <2>1. /\ threads' = threads
        /\ job' = [job EXCEPT !.queue = job.queue \ {i}, !.skipped = job.skipped \cup {i}]
    BY <1>2, <1>5, EffectsOfAnswers DEF AfterOne
  <2>2. /\ job'.phase = "each" /\ job'.inline = job.inline
        /\ job'.queue = job.queue \ {i}
        /\ job'.remap = job.remap /\ job'.skipped = job.skipped \cup {i}
        /\ job'.dropped = job.dropped
        /\ job'.remapped = job.remapped /\ job'.findings = job.findings
        /\ job'.carried = job.carried
        /\ job'.tree = job.tree /\ job'.known = job.known /\ job'.live = job.live
        /\ job'.prior = job.prior /\ job'.base = job.base /\ job'.gbase = job.gbase
        /\ job'.idx = job.idx /\ job'.dry = job.dry
    BY <1>1, <2>1 DEF JobState
  <2>3. SnapshotHolds' /\ FindingsAreNew' /\ CarriedAreLive' /\ SummaryBetween'
    BY <1>1, <2>1, <2>2, SnapshotKept DEF KeepsSnapshot, Posting
  <2>4. SortedOut(job')
    BY <1>1, <1>3, <2>2, PlacesWrittenOut DEF Partitioned
  <2>5. /\ NewGeneral' = NewGeneral /\ Len(general') - job'.gbase = Len(general) - job.gbase
        /\ NewThreads' = NewThreads /\ Len(threads') - job'.base = Len(threads) - job.base
    BY <1>1, <2>1, <2>2 DEF NewGeneral, NewThreads
  <2>6. Accounting'
    BY <1>3, <2>2, <2>4, <2>5 DEF Accounting
  <2> QED
    BY <1>3, <2>2, <2>3, <2>6 DEF IInv, Untouched
<1>6. CASE e[1] = "error"
  BY <1>2, <1>6, NotRunningNext DEF AfterOne
<1> QED
  BY <1>4, <1>5, <1>6, EffectsOfAnswers

LEMMA GeneralKeeps ==
  ASSUME IInv, TypeOK', NEW i \in Issues, PostGeneral(i)
  PROVE  IInv'
<1>1. /\ TypeOK /\ job \in JobState /\ Accounting /\ Untouched /\ Posting
      /\ job.phase = "general" /\ ~job.dry /\ i \in job.remap
      /\ UNCHANGED <<threads, summaries>>
  BY DEF IInv, TypeOK, PostGeneral, Posting
<1>2. PICK e \in Effects :
        /\ general' = IF e[2] THEN Append(general, i) ELSE general
        /\ job' = IF e[1] = "ok"
                  THEN [job EXCEPT !.remap = job.remap \ {i}, !.remapped = job.remapped \cup {i}]
                  ELSE Idle
  BY DEF PostGeneral
<1>3. /\ Partitioned(job)
      /\ NewThreads = job.inline /\ Len(threads) - job.base = Cardinality(job.inline)
      /\ NewGeneral = job.remapped /\ Len(general) - job.gbase = Cardinality(job.remapped)
      /\ job.queue = {}
  BY <1>1, PlacesWrittenOut DEF Accounting, Untouched
<1>4. CASE e[1] = "ok"
  <2>1. /\ general' = Append(general, i)
        /\ job' = [job EXCEPT !.remap = job.remap \ {i}, !.remapped = job.remapped \cup {i}]
    BY <1>2, <1>4, EffectsOfAnswers
  <2>2. /\ job'.phase = "general" /\ job'.inline = job.inline /\ job'.queue = {}
        /\ job'.remap = job.remap \ {i} /\ job'.skipped = job.skipped
        /\ job'.dropped = job.dropped
        /\ job'.remapped = job.remapped \cup {i} /\ job'.findings = job.findings
        /\ job'.carried = job.carried
        /\ job'.tree = job.tree /\ job'.known = job.known /\ job'.live = job.live
        /\ job'.prior = job.prior /\ job'.base = job.base /\ job'.gbase = job.gbase
        /\ job'.idx = job.idx /\ job'.dry = job.dry
    BY <1>1, <1>3, <2>1 DEF JobState
  <2>3. /\ NewGeneral' = NewGeneral \cup {i}
        /\ Len(general') - job'.gbase = (Len(general) - job.gbase) + 1
    BY <1>1, <2>1, <2>2, GeneralArrives
  <2>4. i \notin job.remapped /\ job.remapped \subseteq Issues
    BY <1>1, <1>3 DEF Partitioned, JobState
  <2>5. Cardinality(job'.remapped) = Cardinality(job.remapped) + 1
    BY <2>2, <2>4, CountOneMore
  <2>6. SnapshotHolds' /\ FindingsAreNew' /\ CarriedAreLive' /\ SummaryBetween'
    BY <1>1, <2>2, SnapshotKept DEF KeepsSnapshot, Posting
  <2>7. SortedOut(job')
    BY <1>1, <1>3, <2>2, PlacesWrittenOut DEF Partitioned
  <2>8. NewThreads' = NewThreads /\ Len(threads') - job'.base = Len(threads) - job.base
    BY <1>1, <2>2 DEF NewThreads
  <2>9. Accounting'
    BY <1>3, <2>2, <2>3, <2>5, <2>7, <2>8 DEF Accounting
  <2> QED
    BY <2>2, <2>6, <2>9 DEF IInv, Untouched
<1>5. CASE e[1] # "ok"
  BY <1>2, <1>5, NotRunningNext
<1> QED
  BY <1>4, <1>5

(* A posting run moves on and nothing else changes.                        *)
LEMMA PhaseKeeps ==
  ASSUME IInv, TypeOK', UNCHANGED <<threads, general>>, Posting,
         NEW p \in {"general", "delete", "create"}, job' = [job EXCEPT !.phase = p],
         p = "general" /\ ~job.dry => job.queue = {},
         p \in {"delete", "create"} => job.queue \cup job.remap = {}
  PROVE  IInv'
<1>1. job \in JobState /\ Accounting /\ Untouched
  BY DEF IInv, TypeOK
<1>2. /\ job'.phase = p /\ job'.inline = job.inline /\ job'.queue = job.queue
      /\ job'.remap = job.remap /\ job'.skipped = job.skipped /\ job'.dropped = job.dropped
      /\ job'.remapped = job.remapped /\ job'.findings = job.findings
      /\ job'.carried = job.carried
      /\ job'.tree = job.tree /\ job'.known = job.known /\ job'.live = job.live
      /\ job'.prior = job.prior /\ job'.base = job.base /\ job'.gbase = job.gbase
      /\ job'.idx = job.idx /\ job'.dry = job.dry
  BY <1>1 DEF JobState
<1>3. SnapshotHolds' /\ FindingsAreNew' /\ CarriedAreLive' /\ SummaryBetween'
  BY <1>2, SnapshotKept DEF KeepsSnapshot, Posting
<1>4. SortedOut(job')
  BY <1>1, <1>2 DEF Accounting, SortedOut, Places
<1>5. Accounting'
  BY <1>1, <1>2, <1>4 DEF Accounting, NewThreads, NewGeneral
<1> QED
  BY <1>2, <1>3, <1>5 DEF IInv, Untouched

LEMMA Step == IInv /\ [Next]_vars => IInv'
<1> SUFFICES ASSUME IInv, [Next]_vars PROVE IInv'
  OBVIOUS
<1>1. TypeOK /\ TypeOK'
  BY TypeStep DEF IInv
<1>2. CASE Edit
  BY <1>1, <1>2, Undisturbed DEF Edit
<1>3. ASSUME NEW k \in DOMAIN threads, Resolve(k) PROVE IInv'
  <2> DEFINE t == [threads EXCEPT ![k].open = FALSE]
  <2>1. /\ Len(t) = Len(threads)
        /\ \A j \in 1..Len(threads) :
             t[j].issue = threads[j].issue /\ (t[j].open => threads[j].open)
    BY <1>1, ResolvedThreads DEF TypeOK
  <2>2. threads' = t /\ UNCHANGED <<job, general, summaries>>
    BY <1>3 DEF Resolve
  <2> HIDE DEF t
  <2> QED
    BY <1>1, <2>1, <2>2, Undisturbed
<1>4. ASSUME NEW dry \in DryRuns, Start(dry) PROVE IInv'
  <2>1. job'.phase = "snapshot" /\ job'.idx = 1
    BY <1>4 DEF Start, Idle
  <2> QED
    BY <1>1, <2>1 DEF IInv, SnapshotHolds, FindingsAreNew, CarriedAreLive, Untouched,
       Accounting, SummaryBetween, Running, Posting
<1>5. CASE Abort
  BY <1>1, <1>5, NotRunningNext DEF Abort
<1>6. CASE CaptureSnapshots
  BY <1>1, <1>6, CaptureKeeps
<1>7. CASE RunModel
  BY <1>1, <1>7, ModelKeeps
<1>8. CASE PostBatch
  BY <1>1, <1>8, BatchKeeps
<1>9. CASE SkipBatch
  BY <1>1, <1>9, PhaseKeeps DEF SkipBatch, Posting
<1>10. ASSUME NEW i \in Issues, PostInline(i) PROVE IInv'
  BY <1>1, <1>10, InlineKeeps
<1>11. ASSUME NEW i \in Issues, PostGeneral(i) PROVE IInv'
  BY <1>1, <1>11, GeneralKeeps
<1>12. CASE PostedInline
  BY <1>1, <1>12, PhaseKeeps DEF PostedInline, Posting
<1>13. CASE PostedGeneral
  <2>1. CASE job.dry
    BY <1>1, <1>13, <2>1, NotRunningNext DEF PostedGeneral
  <2>2. CASE ~job.dry
    <3>1. job.queue \cup job.remap = {} /\ Posting
      BY <1>13, <2>2 DEF PostedGeneral, IInv, Untouched, Posting
    <3> QED
      BY <1>1, <1>13, <2>2, <3>1, PhaseKeeps DEF PostedGeneral
  <2> QED
    BY <2>1, <2>2
<1>14. CASE DeletePriorSummary
  <2>1. job.queue \cup job.remap = {} /\ Posting
    BY <1>14 DEF DeletePriorSummary, IInv, Accounting, Posting
  <2> QED
    BY <1>1, <1>14, <2>1, PhaseKeeps DEF DeletePriorSummary
<1>15. CASE CreateSummary
  <2>1. summaries' # {} /\ job' = NextModel
    BY <1>15 DEF CreateSummary
  <2> QED
    BY <1>1, <2>1, NotRunningNext
<1>16. CASE UNCHANGED vars
  BY <1>1, <1>16, Undisturbed DEF vars
<1> QED
  BY <1>2, <1>3, <1>4, <1>5, <1>6, <1>7, <1>8, <1>9, <1>10, <1>11, <1>12, <1>13, <1>14,
     <1>15, <1>16 DEF Next, World, Review

(* The strengthened invariant, from which the properties follow.           *)
THEOREM Invariant == Spec => []IInv
  BY Initially, Step, PTL DEF Spec
-----------------------------------------------------------------------------
(* Every finding of a run is in exactly one place, and GitHub has got each *)
(* finding that counts as posted exactly once (post_inline_comments,       *)
(* post_remapped_comments).                                                *)
THEOREM AccountingCorrect == Spec => []Accounting
<1>1. IInv => Accounting
  BY DEF IInv
<1> QED
  BY <1>1, Invariant, PTL

(* What a summary carries forward are distinct threads of the snapshot,    *)
(* unresolved when it was taken, whose issue the checkout still has        *)
(* (_normalize_carried_forward).                                           *)
THEOREM CarriedCorrect == Spec => []CarriedAreLive
<1>1. IInv => CarriedAreLive
  BY DEF IInv
<1> QED
  BY <1>1, Invariant, PTL

(* How many of some threads are older than a place in the list.            *)
Older(live, k) == {j \in live : j < k}

LEMMA OlderCount ==
  ASSUME NEW n \in Nat, NEW live \in SUBSET (1..n)
  PROVE  /\ \A k \in Nat : Cardinality(Older(live, k)) \in Nat
         /\ Cardinality(Older(live, 0)) = 0
         /\ \A k \in Nat : Older(live, k + 1) =
                             IF k \in live THEN Older(live, k) \cup {k} ELSE Older(live, k)
         /\ \A k \in Nat : Cardinality(Older(live, k + 1)) =
                             IF k \in live THEN Cardinality(Older(live, k)) + 1
                             ELSE Cardinality(Older(live, k))
         /\ \A j, k \in Nat :
              j <= k => Cardinality(Older(live, j)) <= Cardinality(Older(live, k))
<1>0. \A x \in live : x \in Nat /\ x > 0
  OBVIOUS
<1>1. IsFiniteSet(live)
  <2>1. IsFiniteSet(1..n)
    BY FS_Interval
  <2> QED
    BY <2>1, FS_Subset
<1>2. \A k \in Nat : IsFiniteSet(Older(live, k)) /\ Cardinality(Older(live, k)) \in Nat
  BY <1>1, FS_Subset, FS_CardinalityType DEF Older
<1>3. Cardinality(Older(live, 0)) = 0
  <2>1. \A x \in live : ~ (x < 0)
    BY <1>0
  <2>2. Older(live, 0) = {}
    BY <2>1 DEF Older
  <2> QED
    BY <2>2, FS_EmptySet
<1>4. ASSUME NEW k \in Nat
      PROVE  Older(live, k + 1) =
               IF k \in live THEN Older(live, k) \cup {k} ELSE Older(live, k)
  <2>1. \A j \in live : j < k + 1 <=> (j < k \/ j = k)
    BY <1>0
  <2> QED
    BY <2>1 DEF Older
<1>5. ASSUME NEW k \in Nat
      PROVE  Cardinality(Older(live, k + 1)) =
               IF k \in live THEN Cardinality(Older(live, k)) + 1
               ELSE Cardinality(Older(live, k))
  <2>1. k \notin Older(live, k)
    BY DEF Older
  <2>2. Cardinality(Older(live, k) \cup {k}) = Cardinality(Older(live, k)) + 1
    BY <1>2, <2>1, FS_AddElement
  <2> QED
    BY <1>4, <2>2
<1>6. ASSUME NEW j \in Nat, NEW k \in Nat, j <= k
      PROVE  Cardinality(Older(live, j)) <= Cardinality(Older(live, k))
  <2>1. \A x \in live : x < j => x < k
    BY <1>0, <1>6
  <2>2. Older(live, j) \subseteq Older(live, k)
    BY <2>1 DEF Older
  <2> QED
    BY <1>2, <2>2, FS_Subset
<1> QED
  BY <1>2, <1>3, <1>4, <1>5, <1>6

(* A thread that the prompt leaves out comes after PromptLimit that it     *)
(* shows.                                                                  *)
LEMMA LeftOut ==
  ASSUME NEW n \in Nat, NEW live \in SUBSET (1..n), NEW k \in live,
         k \notin Rendered(live)
  PROVE  /\ Cardinality(Rendered(live)) = PromptLimit
         /\ \A j \in Rendered(live) : j < k
<1> DEFINE c(i) == Cardinality(Older(live, i))
           Full == {i \in Nat : c(i) >= PromptLimit}
<1>1. PromptLimit \in Nat /\ k \in Nat
  BY PostingAssumption
<1>2. /\ \A i \in Nat : c(i) \in Nat
      /\ c(0) = 0
      /\ \A i \in Nat : c(i + 1) = IF i \in live THEN c(i) + 1 ELSE c(i)
      /\ \A i, j \in Nat : i <= j => c(i) <= c(j)
  BY OlderCount
<1>3. \A j : j \in Rendered(live) <=> j \in live /\ c(j) < PromptLimit
  BY DEF Rendered, Older
<1> HIDE DEF c
<1>4. k \in Full
  BY <1>1, <1>2, <1>3
<1>5. PICK i \in Full : \A j \in 0..(i - 1) : j \notin Full
  <2>1. Full \subseteq Nat /\ Full # {}
    BY <1>4
  <2>2. PICK i \in Full : \A j \in Full : ~ (<<j, i>> \in OpToRel(<, Nat))
    BY <2>1, NatLessThanWellFounded, WFMin
  <2>3. \A j \in 0..(i - 1) : j \in Nat /\ <<j, i>> \in OpToRel(<, Nat)
    BY DEF OpToRel
  <2> QED
    BY <2>2, <2>3
<1>6. c(i) = PromptLimit
  <2>1. CASE i = 0
    BY <1>1, <1>2, <1>5, <2>1
  <2>2. CASE i # 0
    <3> DEFINE p == i - 1
    <3>1. i \in Nat /\ c(i) >= PromptLimit
      BY <1>5
    <3>2. p \in Nat /\ p \in 0..(i - 1) /\ p + 1 = i
      BY <2>2, <3>1
    <3>3. c(p) < PromptLimit
      <4>1. p \notin Full
        BY <1>5, <3>2
      <4>2. ~ (c(p) >= PromptLimit)
        BY <3>2, <4>1
      <4>3. c(p) \in Nat
        BY <1>2, <3>2
      <4> QED
        BY <1>1, <4>2, <4>3
    <3>4. c(i) = c(p) + 1 \/ c(i) = c(p)
      <4>1. c(p + 1) = IF p \in live THEN c(p) + 1 ELSE c(p)
        BY <1>2, <3>2
      <4> QED
        BY <3>2, <4>1
    <3>5. c(i) \in Nat /\ c(p) \in Nat
      BY <1>2, <3>1, <3>2
    <3> QED
      BY <1>1, <3>1, <3>3, <3>4, <3>5
  <2> QED
    BY <2>1, <2>2
<1>7. \A j \in live : c(j) < PromptLimit <=> j < i
  <2> TAKE j \in live
  <2>1. j \in Nat /\ i \in Nat
    BY <1>5
  <2>2. CASE j < i
    BY <1>1, <1>2, <1>5, <2>1, <2>2
  <2>3. CASE ~ (j < i)
    <3>1. c(i) <= c(j)
      BY <1>2, <2>1, <2>3
    <3> QED
      BY <1>1, <1>2, <1>6, <2>1, <2>3, <3>1
  <2> QED
    BY <2>2, <2>3
<1>8. Rendered(live) = Older(live, i)
  BY <1>3, <1>7 DEF Older, Rendered
<1>9. ~ (k < i)
  BY <1>3, <1>7
<1>10. Cardinality(Rendered(live)) = PromptLimit
  BY <1>6, <1>8 DEF c
<1>11. ASSUME NEW j \in Rendered(live) PROVE j < k
  <2>0. j \in live /\ j < i
    BY <1>8, <1>11 DEF Older
  <2>1. j \in Nat /\ j < i /\ i \in Nat
    BY <1>5, <2>0
  <2> QED
    BY <1>1, <1>9, <2>1
<1> QED
  BY <1>10, <1>11

(* A later model of a job is shown the unresolved threads the earlier ones *)
(* opened (process_review takes a snapshot for each model of the roster),  *)
(* or as many older ones as the prompt has room for.                       *)
THEOREM LaterModelsSee == Spec => []LaterModelsSeeEarlier
<1>1. IInv => LaterModelsSeeEarlier
  <2> SUFFICES ASSUME IInv, job.phase = "model", job.idx > 1, ~job.dry
               PROVE  /\ job.known
                      /\ \A k \in DOMAIN threads :
                           threads[k].open /\ threads[k].issue \in job.tree =>
                             \/ k \in job.prior
                             \/ /\ Cardinality(job.prior) = PromptLimit
                                /\ \A j \in job.prior : j < k
    BY DEF LaterModelsSeeEarlier
  <2>1. job.known
    BY DEF IInv, SummaryBetween
  <2>2. /\ DOMAIN threads = 1..job.base /\ job.base \in Nat
        /\ job.prior = Rendered(job.live)
    BY DEF IInv, TypeOK, JobState, Untouched
  <2>3. /\ job.live \in SUBSET (1..job.base)
        /\ \A k \in DOMAIN threads :
             threads[k].open /\ threads[k].issue \in job.tree => k \in job.live
    BY <2>1, <2>2 DEF IInv, SnapshotHolds, Running
  <2>4. \A k \in job.live : k \in job.prior \/
          (Cardinality(job.prior) = PromptLimit /\ \A j \in job.prior : j < k)
    BY <2>2, <2>3, LeftOut
  <2> QED
    BY <2>1, <2>3, <2>4
<1> QED
  BY <1>1, Invariant, PTL

(* A waiting finding that an unresolved thread already covers: the thread  *)
(* was there before the run, and the model could not have been shown it.   *)
LEMMA WaitingIsNew ==
  ASSUME IInv, Posting, NEW j \in DOMAIN threads, threads[j].open,
         threads[j].issue \in job.queue
  PROVE  j <= job.base /\ (~job.known \/ job.prior # job.live)
<1>1. /\ job.base \in Nat /\ Len(threads) \in Nat /\ DOMAIN threads = 1..Len(threads)
      /\ j \in 1..Len(threads)
  BY DEF IInv, TypeOK, JobState
<1>2. Partitioned(job) /\ NewThreads = job.inline
  BY PlacesWrittenOut DEF IInv, Accounting
<1>3. j <= job.base
  <2> SUFFICES ASSUME ~(j <= job.base) PROVE FALSE
    OBVIOUS
  <2>1. j \in (job.base + 1)..Len(threads)
    BY <1>1
  <2>2. threads[j].issue \in job.inline
    BY <1>2, <2>1 DEF NewThreads
  <2> QED
    BY <1>2, <2>2 DEF Partitioned
<1>4. ASSUME job.known, job.prior = job.live PROVE FALSE
  <2>1. threads[j].issue \in job.findings /\ threads[j].issue \in job.tree
    BY <1>2 DEF IInv, FindingsAreNew, Partitioned
  <2>2. j \in job.live
    BY <1>1, <1>3, <1>4, <2>1 DEF IInv, SnapshotHolds, Running
  <2> QED
    BY <1>4, <2>1, <2>2 DEF IInv, FindingsAreNew
<1> QED
  BY <1>3, <1>4

LEMMA NewThreadsWaited ==
  ASSUME IInv, [Next]_vars, NEW k \in DOMAIN threads' \ DOMAIN threads
  PROVE  Posting /\ threads'[k].issue \in job.queue
<1>1. /\ TypeOK /\ job \in JobState /\ threads \in Seq(Thread) /\ Len(threads) \in Nat
      /\ DOMAIN threads = 1..Len(threads)
  BY DEF IInv, TypeOK
<1>2. threads' # threads
  OBVIOUS
<1>3. ASSUME NEW j \in DOMAIN threads, Resolve(j) PROVE FALSE
  <2>1. DOMAIN threads' = DOMAIN threads
    BY <1>1, <1>3, ResolvedThreads DEF Resolve
  <2> QED
    BY <2>1
<1>4. CASE PostBatch
  <2>1. PICK s \in Listings(job.queue) : threads' = threads \o Opened(s)
    BY <1>2, <1>4 DEF PostBatch
  <2>2. s \in Seq(Issues) /\ {s[n] : n \in 1..Len(s)} = job.queue /\ Len(s) \in Nat
    BY <1>1, ListingsAreSequences DEF JobState
  <2> DEFINE t == threads \o Opened(s)
  <2>3. /\ t \in Seq(Thread) /\ Len(t) = Len(threads) + Len(s)
        /\ \A j \in 1..Len(s) : t[Len(threads) + j].issue = s[j]
    BY <1>1, <2>2, OpenedThreads
  <2>4. t = threads'
    BY <2>1
  <2> HIDE DEF t
  <2>5. k - Len(threads) \in 1..Len(s) /\ k = Len(threads) + (k - Len(threads))
    BY <1>1, <2>2, <2>3, <2>4
  <2>6. threads'[k].issue = s[k - Len(threads)]
    BY <2>3, <2>4, <2>5
  <2>7. Posting
    BY <1>4 DEF PostBatch, Posting
  <2> QED
    BY <2>2, <2>5, <2>6, <2>7
<1>5. ASSUME NEW i \in Issues, PostInline(i)
      PROVE  Posting /\ threads'[k].issue \in job.queue
  <2> DEFINE t == threads \o Opened(<<i>>)
  <2>1. t = threads'
    BY <1>2, <1>5 DEF PostInline
  <2>2. t \in Seq(Thread) /\ Len(t) = Len(threads) + 1 /\ t[Len(threads) + 1].issue = i
    BY <1>1, OpenedOne
  <2> HIDE DEF t
  <2>3. k = Len(threads) + 1
    BY <1>1, <2>1, <2>2
  <2> QED
    BY <1>5, <2>1, <2>2, <2>3 DEF PostInline, Posting
<1> QED
  BY <1>2, <1>3, <1>4, <1>5 DEF Next, World, Review, vars, Edit, Start, Abort, CaptureSnapshots,
     RunModel, SkipBatch, PostedInline, PostGeneral, PostedGeneral, DeletePriorSummary,
     CreateSummary

(* A thread repeats an unresolved one only when the run could not know that*)
(* one (_capture_review_snapshots, render_prior_dotbot_comments).          *)
THEOREM NoRepeatCorrect == Spec => NoRepeat
<1> DEFINE Fresh == \A k \in DOMAIN threads' \ DOMAIN threads : \A j \in DOMAIN threads :
       threads[j].open /\ threads[j].issue = threads'[k].issue =>
         j <= job.base /\ (~job.known \/ job.prior # job.live)
<1>1. IInv /\ [Next]_vars => [Fresh]_threads
  <2> SUFFICES ASSUME IInv, [Next]_vars,
                      NEW k \in DOMAIN threads' \ DOMAIN threads, NEW j \in DOMAIN threads,
                      threads[j].open, threads[j].issue = threads'[k].issue
               PROVE  j <= job.base /\ (~job.known \/ job.prior # job.live)
    OBVIOUS
  <2>1. Posting /\ threads'[k].issue \in job.queue
    BY NewThreadsWaited
  <2> QED
    BY <2>1, WaitingIsNew
<1> QED
  BY <1>1, Invariant, PTL DEF Spec, NoRepeat
=============================================================================
