---------------------------- MODULE ReviewPosting ----------------------------
(***************************************************************************)
(* What happens to a finding: from the prior comments a model is shown,    *)
(* through validation and the posting ladder, to the published summary.    *)
(*                                                                         *)
(* The models of the roster run one after the other.  Each takes a new     *)
(* snapshot of the pull request's comments, is shown the unresolved        *)
(* threads of dotbot whose code is still in the checkout, and answers with *)
(* new findings and with the shown threads that are still relevant.        *)
(* Findings that fit the diff are submitted as one review; if GitHub       *)
(* refuses it (422) they are submitted one by one.  Findings that fit no   *)
(* line of the diff become general comments.  Then the model's summary is  *)
(* replaced.  Users resolve threads and developers change the code all the *)
(* while.                                                                  *)
(*                                                                         *)
(* A finding is an issue of the code; an issue stands for the snippet that *)
(* its comment quotes under "Current code".  The model is taken to obey    *)
(* the schema prompt in its findings; what it returns as carried forward   *)
(* is arbitrary, because the code checks it.                               *)
(*                                                                         *)
(* Code: cli/workflows/review_workflow.py, cli/review/posting.py,          *)
(* cli/review/comment_validator.py, cli/review/dedupe.py.                  *)
(***************************************************************************)
EXTENDS Integers, Sequences, FiniteSets

CONSTANTS
  Issues,       \* what may be wrong with the code
  Models,       \* reviewer models
  Roster,       \* the models of a job, in order
  DryRuns,      \* the values DRY_RUN may have
  PromptLimit,  \* prior comments shown to a model (200 in the code)
  MaxCarried,   \* bound: entries of a carried_forward list
  MaxJobs       \* bound: jobs started

ASSUME PostingAssumption ==
  /\ IsFiniteSet(Issues)
  /\ Roster \in Seq(Models) \ {<<>>}
  /\ DryRuns \subseteq BOOLEAN
  /\ PromptLimit \in Nat
  /\ MaxCarried \in Nat
  /\ MaxJobs \in Nat

VARIABLES
  code,       \* the issues the branch has
  threads,    \* dotbot's inline review threads, oldest first
  general,    \* issue comments made of remapped findings, oldest first
  summaries,  \* models with a summary comment
  job,        \* the running job
  jobs        \* jobs started

vars == <<code, threads, general, summaries, job, jobs>>

Thread == [issue : Issues, open : BOOLEAN]

Phases == {"idle", "snapshot", "model", "batch", "each", "general", "delete",
           "create"}

(* tree: the issues of the checkout; known: a summary was in the snapshot, *)
(* so dotbot's author is known; live: the applicable prior threads; prior: *)
(* those shown to the model; base, gbase: the threads and general comments *)
(* of the snapshot; carried: the entries of carried_forward that were kept,*)
(* each with its place in the model's list and the thread it names.        *)
(* Findings wait in queue (inline) and remap (general), and end up in      *)
(* inline, skipped, dropped or remapped.                                   *)
JobState ==
  [phase : Phases, idx : 1..Len(Roster), dry : BOOLEAN, tree : SUBSET Issues,
   known : BOOLEAN, live : SUBSET Nat, prior : SUBSET Nat, base : Nat, gbase : Nat,
   findings : SUBSET Issues, carried : SUBSET ((1..MaxCarried) \X Nat),
   queue : SUBSET Issues, remap : SUBSET Issues, inline : SUBSET Issues,
   skipped : SUBSET Issues, dropped : SUBSET Issues, remapped : SUBSET Issues]

Idle ==
  [phase |-> "idle", idx |-> 1, dry |-> FALSE, tree |-> {}, known |-> FALSE,
   live |-> {}, prior |-> {}, base |-> 0, gbase |-> 0,
   findings |-> {}, carried |-> {}, queue |-> {}, remap |-> {}, inline |-> {},
   skipped |-> {}, dropped |-> {}, remapped |-> {}]

TypeOK ==
  /\ code \subseteq Issues
  /\ threads \in Seq(Thread)
  /\ general \in Seq(Issues)
  /\ summaries \subseteq Models
  /\ jobs \in 0..MaxJobs
  /\ job \in JobState
  /\ job.live \cup job.prior \subseteq DOMAIN threads
  /\ \A c \in job.carried : c[2] \in DOMAIN threads
  /\ job.base <= Len(threads) /\ job.gbase <= Len(general)

Init ==
  /\ code \in SUBSET Issues
  /\ threads = <<>>
  /\ general = <<>>
  /\ summaries = {}
  /\ job = Idle
  /\ jobs = 0

-----------------------------------------------------------------------------
(* The rest of the world.                                                  *)

Edit ==
  /\ code' \in SUBSET Issues
  /\ UNCHANGED <<threads, general, summaries, job, jobs>>

Resolve(k) ==
  /\ threads[k].open
  /\ threads' = [threads EXCEPT ![k].open = FALSE]
  /\ UNCHANGED <<code, general, summaries, job, jobs>>

(* A job starts when none is running (dotbot-review.yml cancels an earlier *)
(* one) and may die between any two steps: cancelled, killed, or by an     *)
(* exception of any request.                                               *)
Start(dry) ==
  /\ job.phase = "idle"
  /\ jobs < MaxJobs
  /\ jobs' = jobs + 1
  /\ job' = [Idle EXCEPT !.phase = "snapshot", !.dry = dry, !.tree = code]
  /\ UNCHANGED <<code, threads, general, summaries>>

Abort ==
  /\ job.phase # "idle"
  /\ job' = Idle
  /\ UNCHANGED <<code, threads, general, summaries, jobs>>

-----------------------------------------------------------------------------
(* The snapshot and the model's turn.                                      *)

(* Unresolved threads whose snippet is in the checkout.  Without a summary *)
(* the author of dotbot's comments is not known and there are none.        *)
Applicable(known) ==
  IF known
  THEN {k \in DOMAIN threads : threads[k].open /\ threads[k].issue \in job.tree}
  ELSE {}

(* The prompt has room for the first PromptLimit of them.                  *)
Rendered(live) ==
  {k \in live : Cardinality({j \in live : j < k}) < PromptLimit}

(* Mutant: the snapshot is taken once per job.                             *)
CaptureOnce ==
  /\ job.phase = "snapshot"
  /\ LET first == job.idx = 1
         known == IF first THEN summaries # {} ELSE job.known
         live == IF first THEN Applicable(known) ELSE job.live
     IN job' = [Idle EXCEPT
                  !.phase = "model", !.idx = job.idx, !.dry = job.dry,
                  !.tree = job.tree, !.known = known, !.live = live,
                  !.prior = Rendered(live), !.base = Len(threads), !.gbase = Len(general)]
  /\ UNCHANGED <<code, threads, general, summaries, jobs>>

CaptureSnapshots ==
  /\ job.phase = "snapshot"
  /\ LET known == summaries # {}
         live == Applicable(known)
     IN job' = [Idle EXCEPT
                  !.phase = "model", !.idx = job.idx, !.dry = job.dry,
                  !.tree = job.tree, !.known = known, !.live = live,
                  !.prior = Rendered(live),
                  !.base = Len(threads), !.gbase = Len(general)]
  /\ UNCHANGED <<code, threads, general, summaries, jobs>>

(* An entry of the model's carried_forward is valid when it names an       *)
(* applicable thread (id 0 names none) and copies its snippet exactly.     *)
RawEntry == [id : 0..Len(threads), exact : BOOLEAN]

(* Mutant: the identifier is not looked up.                                *)
ValidEntryAny(e) == e.exact

ValidEntry(e) == e.id \in job.live /\ e.exact

NormalizeCarriedForward(raw) ==
  LET kept == {n \in DOMAIN raw :
                 /\ ValidEntry(raw[n])
                 /\ \A m \in 1..(n - 1) : ValidEntry(raw[m]) => raw[m].id # raw[n].id}
  IN {<<n, raw[n].id>> : n \in kept}

(* The model finds issues of the checkout that no shown thread covers.     *)
(* Validation sorts them: those that anchor in the diff, those that are    *)
(* remapped, and those with nothing to say and no place to say it.         *)
RunModel ==
  /\ job.phase = "model"
  /\ \E findings \in SUBSET (job.tree \ {threads[k].issue : k \in job.prior}) :
     \E valid \in SUBSET findings : \E empty \in SUBSET (findings \ valid) :
     \E n \in 0..MaxCarried : \E raw \in [1..n -> RawEntry] :
       job' = [job EXCEPT
                 !.phase = "batch", !.findings = findings,
                 !.carried = NormalizeCarriedForward(raw),
                 !.queue = valid, !.dropped = empty,
                 !.remap = findings \ (valid \cup empty)]
  /\ UNCHANGED <<code, threads, general, summaries, jobs>>

-----------------------------------------------------------------------------
(* Posting.  GitHub accepts a request, refuses it with 422, or fails in any*)
(* other way, in which case the request may have been carried out.         *)
Effects == {<<"ok", TRUE>>, <<"422", FALSE>>, <<"error", TRUE>>, <<"error", FALSE>>}

Listings(S) == {s \in [1..Cardinality(S) -> S] : S \subseteq {s[n] : n \in DOMAIN s}}

Opened(s) == [n \in DOMAIN s |-> [issue |-> s[n], open |-> TRUE]]

(* Mutant: every failure of the batch is retried one by one.              *)
AfterBatchRetry(answer) ==
  IF answer = "ok" THEN [job EXCEPT !.phase = "general", !.inline = job.queue, !.queue = {}]
  ELSE [job EXCEPT !.phase = "each"]

(* After the batch: all posted, one by one after a 422, or the exception   *)
(* ends the job.                                                           *)
AfterBatch(answer) ==
  CASE answer = "ok"  -> [job EXCEPT !.phase = "general", !.inline = job.queue, !.queue = {}]
    [] answer = "422" -> [job EXCEPT !.phase = "each"]
    [] OTHER          -> Idle

PostBatch ==
  /\ job.phase = "batch"
  /\ ~job.dry /\ job.queue # {}
  /\ \E e \in Effects : \E s \in Listings(job.queue) :
       /\ threads' = IF e[2] THEN threads \o Opened(s) ELSE threads
       /\ job' = AfterBatch(e[1])
  /\ UNCHANGED <<code, general, summaries, jobs>>

(* Nothing to post inline, or a dry run.                                   *)
SkipBatch ==
  /\ job.phase = "batch"
  /\ job.dry \/ job.queue = {}
  /\ job' = [job EXCEPT !.phase = "general"]
  /\ UNCHANGED <<code, threads, general, summaries, jobs>>

AfterOne(i, answer) ==
  CASE answer = "ok"  -> [job EXCEPT !.queue = @ \ {i}, !.inline = @ \cup {i}]
    [] answer = "422" -> [job EXCEPT !.queue = @ \ {i}, !.skipped = @ \cup {i}]
    [] OTHER          -> Idle

PostInline(i) ==
  /\ job.phase = "each"
  /\ i \in job.queue
  /\ \E e \in Effects :
       /\ threads' = IF e[2] THEN threads \o Opened(<<i>>) ELSE threads
       /\ job' = AfterOne(i, e[1])
  /\ UNCHANGED <<code, general, summaries, jobs>>

PostedInline ==
  /\ job.phase = "each"
  /\ job.queue = {}
  /\ job' = [job EXCEPT !.phase = "general"]
  /\ UNCHANGED <<code, threads, general, summaries, jobs>>

(* Every failure of a general comment, a 422 too, ends the job.            *)
PostGeneral(i) ==
  /\ job.phase = "general"
  /\ ~job.dry
  /\ i \in job.remap
  /\ \E e \in Effects :
       /\ general' = IF e[2] THEN Append(general, i) ELSE general
       /\ job' = IF e[1] = "ok"
                 THEN [job EXCEPT !.remap = @ \ {i}, !.remapped = @ \cup {i}]
                 ELSE Idle
  /\ UNCHANGED <<code, threads, summaries, jobs>>

-----------------------------------------------------------------------------
(* The summary, and the next model.                                        *)

Model == Roster[job.idx]

NextModel ==
  IF job.idx < Len(Roster) THEN [job EXCEPT !.phase = "snapshot", !.idx = @ + 1] ELSE Idle

(* A dry run publishes nothing.                                            *)
PostedGeneral ==
  /\ job.phase = "general"
  /\ job.dry \/ job.remap = {}
  /\ job' = IF job.dry THEN NextModel ELSE [job EXCEPT !.phase = "delete"]
  /\ UNCHANGED <<code, threads, general, summaries, jobs>>

(* GitHub may refuse to delete the old summary: a warning.                 *)
DeletePriorSummary ==
  /\ job.phase = "delete"
  /\ summaries' \in {summaries, summaries \ {Model}}
  /\ job' = [job EXCEPT !.phase = "create"]
  /\ UNCHANGED <<code, threads, general, jobs>>

(* Mutant: the new summary is created first and removed with the old ones. *)
CreateThenDelete ==
  /\ job.phase = "create"
  /\ summaries' = summaries \ {Model}
  /\ job' = NextModel
  /\ UNCHANGED <<code, threads, general, jobs>>

CreateSummary ==
  /\ job.phase = "create"
  /\ summaries' = summaries \cup {Model}
  /\ job' = NextModel
  /\ UNCHANGED <<code, threads, general, jobs>>

World == Edit \/ \E k \in DOMAIN threads : Resolve(k)

Review ==
  \/ \E dry \in DryRuns : Start(dry)
  \/ CaptureSnapshots \/ RunModel
  \/ PostBatch \/ SkipBatch
  \/ \E i \in Issues : PostInline(i) \/ PostGeneral(i)
  \/ PostedInline \/ PostedGeneral
  \/ DeletePriorSummary \/ CreateSummary
  \/ Abort

Next == World \/ Review

Spec == Init /\ [][Next]_vars

-----------------------------------------------------------------------------
(* Properties.                                                             *)

Posting == job.phase \in {"batch", "each", "general", "delete", "create"}

(* The places of a finding, of which it is in exactly one.                 *)
Places(r) == <<r.queue, r.remap, r.inline, r.skipped, r.dropped, r.remapped>>

SortedOut(r) ==
  /\ \A i \in r.findings : \E p \in DOMAIN Places(r) : i \in Places(r)[p]
  /\ \A p \in DOMAIN Places(r) : Places(r)[p] \subseteq r.findings
  /\ \A p, q \in DOMAIN Places(r) : p # q => Places(r)[p] \cap Places(r)[q] = {}

(* What GitHub has got since the snapshot.                                 *)
NewThreads == {threads[k].issue : k \in (job.base + 1)..Len(threads)}
NewGeneral == {general[k] : k \in (job.gbase + 1)..Len(general)}

(* Every finding of a run is in exactly one place: waiting, inline,        *)
(* skipped, dropped or a general comment; what the run counts as posted is *)
(* on GitHub exactly once, and nothing else of the run is; when the summary*)
(* is due nothing waits (posting.py:415-533).                              *)
Accounting ==
  Posting =>
    /\ SortedOut(job)
    /\ NewThreads = job.inline /\ Len(threads) - job.base = Cardinality(job.inline)
    /\ NewGeneral = job.remapped /\ Len(general) - job.gbase = Cardinality(job.remapped)
    /\ job.phase \in {"delete", "create"} => job.queue \cup job.remap = {}

(* A thread is opened on an issue that has an unresolved thread only by a  *)
(* run that could not know it: its snapshot had no summary to tell dotbot's*)
(* comments by, or more prior comments than the prompt has room for; and   *)
(* never on one the run itself has opened.                                 *)
NoRepeat ==
  [][\A k \in DOMAIN threads' \ DOMAIN threads : \A j \in DOMAIN threads :
       threads[j].open /\ threads[j].issue = threads'[k].issue =>
         j <= job.base /\ (~job.known \/ job.prior # job.live)]_threads

(* What a summary reports as still relevant: distinct threads among those  *)
(* that the snapshot found unresolved, each on an issue the checkout has   *)
(* (review_workflow.py:759-801).                                           *)
CarriedAreLive ==
  Posting =>
    /\ \A c \in job.carried : c[2] \in job.live /\ threads[c[2]].issue \in job.tree
    /\ \A c, d \in job.carried : c[2] = d[2] => c = d

(* A later model of a job is shown every unresolved thread that an earlier *)
(* one has opened on an issue the checkout has, unless the prompt is full  *)
(* of older ones: "a later model sees the earlier models' posted inline    *)
(* comments as prior dotbot context" (review_workflow.py:861-864), as far  *)
(* as the first 200 reach (dedupe.py:97-98).                               *)
LaterModelsSeeEarlier ==
  job.phase = "model" /\ job.idx > 1 /\ ~job.dry =>
    /\ job.known
    /\ \A k \in DOMAIN threads :
         threads[k].open /\ threads[k].issue \in job.tree =>
           \/ k \in job.prior
           \/ /\ Cardinality(job.prior) = PromptLimit
              /\ \A j \in job.prior : j < k
=============================================================================
