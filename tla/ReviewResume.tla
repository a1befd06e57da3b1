---------------------------- MODULE ReviewResume ----------------------------
(***************************************************************************)
(* How review mode continues an earlier review of a pull request.          *)
(*                                                                         *)
(* A job checks out the commit its event named, reads the newest published *)
(* summary to find the commit reviewed last, restores the cache saved for  *)
(* it, asks GitHub for the pull request's head, and then lets every model of*)
(* the roster review: the whole pull request, or, when a stored thread can *)
(* be resumed, only the commits since the one reviewed last.  Each model   *)
(* posts its findings and replaces its summary; a job that got to the end  *)
(* saves its threads under the commit its event named.                     *)
(*                                                                         *)
(* Code: action.yml, cli/review/prepare_resume_state.py,                   *)
(* cli/review/resume_state.py, cli/workflows/review_workflow.py and        *)
(* cli/clients/openrouter_thread_store.py.                                 *)
(***************************************************************************)
EXTENDS Integers, Sequences

CONSTANTS
  Commits,      \* commits a head of the pull request may point at
  Ancestors,    \* Ancestors[c]: c and every commit reachable from it
  Root,         \* the head the pull request is opened with
  HeadMoves,    \* pairs <<from, to>>: the pushes (forced ones too) that happen
  Models,       \* reviewer models
  Legacy,       \* SHAs of summaries left by a version that named no model
  Rosters,      \* the rosters a job may be configured with
  DryRuns,      \* the values DRY_RUN may have
  Kinds,        \* "action": a GitHub Actions job, "local": the CLI run by hand
  Jobs,         \* jobs that may run at once: one under a concurrency group
  Faults,       \* the failures that may happen, a subset of FaultKinds
  MaxRuns,      \* bound: jobs started
  None,         \* no commit
  NoModel       \* the model of a summary whose metadata names none

FaultKinds ==
  {"abort",     \* a job dies: an exception, a lost runner, a cancellation
   "summaries", \* the prepare step cannot list the issue comments
   "cache",     \* a cache entry is evicted, or cannot be saved
   "git",       \* a git probe of the resume decision fails
   "thread",    \* a thread file cannot be written, or cannot be read back
   "delete",    \* GitHub refuses to delete a summary
   "silent"}    \* a push raises no event (one made with GITHUB_TOKEN)

ASSUME CommitsAssumption ==
  /\ Root \in Commits
  /\ HeadMoves \subseteq Commits \X Commits
  /\ Legacy \subseteq Commits
  /\ None \notin Commits

ASSUME AncestorsAssumption ==
  /\ Ancestors \in [Commits -> SUBSET Commits]
  /\ \A c \in Commits : c \in Ancestors[c]
  /\ \A c, d \in Commits : c \in Ancestors[d] => Ancestors[c] \subseteq Ancestors[d]

ASSUME ConfigAssumption ==
  /\ Rosters \subseteq Seq(Models) \ {<<>>}
  /\ \A R \in Rosters : \A i, k \in DOMAIN R : R[i] = R[k] => i = k
  /\ DryRuns \subseteq BOOLEAN
  /\ Kinds \subseteq {"action", "local"}
  /\ Faults \subseteq FaultKinds
  /\ MaxRuns \in Nat
  /\ NoModel \notin Models

VARIABLES
  head,      \* the pull request's head
  pending,   \* heads named by the events waiting for a job
  comments,  \* summary comments; "at" is their order of creation
  clock,     \* summaries created so far
  caches,    \* entries of the Actions cache, never overwritten
  home,      \* thread directory of local runs
  job,       \* the jobs
  runs,      \* jobs started
  posted,    \* history: the commits each model has posted its findings on
  unread     \* history: commits of a published head that its job was not shown

vars == <<head, pending, comments, clock, caches, home, job, runs, posted, unread>>

(* What a thread of each model has been shown; {} is no thread.            *)
ThreadDir == [Models -> SUBSET Commits]
NoThreads == [m \in Models |-> {}]

Summary == [model : Models \cup {NoModel}, sha : Commits, at : Nat]

Phases == {"idle", "prepare", "restore", "fetch", "resolve", "review",
           "post", "delete", "create", "save"}

(* The phases before get_pr.                                               *)
Window == {"prepare", "restore", "fetch"}

JobRecord ==
  [phase : Phases, kind : {"action", "local"}, roster : Rosters \cup {<<>>},
   dry : BOOLEAN, event : Commits \cup {None}, checkout : Commits \cup {None},
   tip : Commits \cup {None}, prev : Commits \cup {None}, hit : BOOLEAN,
   target : Commits \cup {None}, idx : Nat \ {0}, base : Commits \cup {None},
   dir : ThreadDir]

(* A running job has a roster and a model of it, a checkout, what else its *)
(* clone holds, the event that started it and, once it has read it, the    *)
(* pull request's head.                                                    *)
JobState ==
  {r \in JobRecord :
     r.phase # "idle" =>
       /\ r.roster \in Rosters /\ r.idx \in 1..Len(r.roster)
       /\ r.checkout \in Commits /\ r.tip \in Commits
       /\ r.kind = "action" => r.event \in Commits
       /\ r.phase \notin Window => r.target \in Commits
       /\ r.phase = "save" => r.kind = "action"}

IdleJob == [phase |-> "idle", kind |-> "action", roster |-> <<>>, dry |-> FALSE,
            event |-> None, checkout |-> None, tip |-> None, prev |-> None,
            hit |-> FALSE, target |-> None, idx |-> 1, base |-> None, dir |-> NoThreads]

TypeOK ==
  /\ head \in Commits
  /\ pending \subseteq Commits
  /\ comments \subseteq Summary
  /\ clock \in Nat
  /\ caches \subseteq [model : Models, sha : Commits, dir : ThreadDir]
  /\ home \in ThreadDir
  /\ runs \in 0..MaxRuns
  /\ posted \in [Models -> SUBSET Commits]
  /\ unread \in [Models -> SUBSET Commits]
  /\ job \in [Jobs -> JobState]

Init ==
  /\ head = Root
  /\ pending = {Root}
  /\ \/ comments = {}
     \/ \E c \in Legacy : comments = {[model |-> NoModel, sha |-> c, at |-> 0]}
  /\ clock = 0
  /\ caches = {}
  /\ home = NoThreads
  /\ job = [j \in Jobs |-> IdleJob]
  /\ runs = 0
  /\ posted = NoThreads
  /\ unread = NoThreads

-----------------------------------------------------------------------------
(* The job's helpers.                                                      *)

Becomes(j, record) == job' = [job EXCEPT ![j] = record]

Model(j) == job[j].roster[job[j].idx]

Threads(j) == IF job[j].kind = "local" THEN home ELSE job[j].dir

(* The SHAs found in the newest summary of ANY model: one, or none.        *)
LatestReviewedShas ==
  {c.sha : c \in {d \in comments : \A e \in comments : e.at =< d.at}}

(* _resolve_review_resume_state's first lines: the environment's SHA when  *)
(* the prepare step found one, the newest summary otherwise.               *)
PreviousShas(j) ==
  IF job[j].prev # None THEN {job[j].prev} ELSE LatestReviewedShas

(* git knows the commits fetched with the checkout (fetch-depth 0: all of  *)
(* the repository's branches, which a pull request from a fork is not one of).*)
Fetched(j) == Ancestors[job[j].checkout] \cup Ancestors[job[j].tip]

CanResume(j, base) ==
  /\ job[j].kind = "local" \/ job[j].hit
  /\ job[j].target \in Fetched(j)
  /\ base \in Ancestors[job[j].target]
  /\ Threads(j)[Model(j)] # {}

(* Mutant: the two ends of the range swapped.                              *)
ScopeSwapped(j) ==
  IF job[j].base # None
  THEN Ancestors[job[j].base] \ Ancestors[job[j].target]
  ELSE Ancestors[job[j].checkout]

(* What the model is told to look at: the commits since the base, or       *)
(* `git diff origin/base...HEAD` in the checkout.                          *)
Scope(j) ==
  IF job[j].base # None
  THEN Ancestors[job[j].target] \ Ancestors[job[j].base]
  ELSE Ancestors[job[j].checkout]

(* Commits of the head that the job will publish which a review of an older*)
(* checkout is not shown.                                                  *)
Unread(j) ==
  IF job[j].base # None THEN {}
  ELSE Ancestors[job[j].target] \ Ancestors[job[j].checkout]

-----------------------------------------------------------------------------
(* The pull request and its events.                                        *)

(* A waiting event is replaced by a later one in a concurrency group; with *)
(* no group every event keeps its place.                                   *)
PushHead(c) ==
  /\ <<head, c>> \in HeadMoves
  /\ head' = c
  /\ \/ pending' = IF \E j \in Jobs : Jobs = {j} THEN {c} ELSE pending \cup {c}
     \/ /\ "silent" \in Faults
        /\ pending' = pending
  /\ UNCHANGED <<comments, clock, caches, home, job, runs, posted, unread>>

(* "reopened" or "ready_for_review": an event that moves no head.          *)
Retrigger ==
  /\ pending = {}
  /\ runs < MaxRuns
  /\ pending' = {head}
  /\ UNCHANGED <<head, comments, clock, caches, home, job, runs, posted, unread>>

Start(j, kind, roster, dry, event, checkout) ==
  /\ job[j].phase = "idle"
  /\ runs < MaxRuns
  /\ runs' = runs + 1
  /\ \E tip \in {checkout, head} :
       Becomes(j, [phase |-> IF kind = "action" THEN "prepare" ELSE "fetch",
                   kind |-> kind, roster |-> roster, dry |-> dry, event |-> event,
                   checkout |-> checkout, tip |-> tip, prev |-> None, hit |-> FALSE,
                   target |-> None, idx |-> 1, base |-> None, dir |-> NoThreads])
  /\ UNCHANGED <<head, comments, clock, caches, home, posted, unread>>

(* actions/checkout without a ref takes the event's commit, however long   *)
(* the event has waited.                                                   *)
StartAction(j) ==
  /\ "action" \in Kinds
  /\ \E event \in pending, roster \in Rosters, dry \in DryRuns :
       /\ Start(j, "action", roster, dry, event, event)
       /\ pending' = pending \ {event}

(* By hand, in whatever checkout the user has.                             *)
StartLocal(j) ==
  /\ "local" \in Kinds
  /\ \E checkout \in Commits, roster \in Rosters, dry \in DryRuns :
       Start(j, "local", roster, dry, None, checkout)
  /\ UNCHANGED pending

-----------------------------------------------------------------------------
(* The steps of a job.                                                     *)

(* prepare_resume_state.main                                               *)
Prepare(j) ==
  /\ job[j].phase = "prepare"
  /\ \E sha \in Commits \cup {None} :
       /\ \/ sha \in LatestReviewedShas
          \/ sha = None /\ (LatestReviewedShas = {} \/ "summaries" \in Faults)
       /\ Becomes(j, [job[j] EXCEPT !.prev = sha, !.phase = "restore"])
  /\ UNCHANGED <<head, pending, comments, clock, caches, home, runs, posted, unread>>

(* Mutant: any older cache of the model will do (a restore-keys prefix).   *)
RestoreCacheByPrefix(j) ==
  /\ job[j].phase = "restore"
  /\ \/ \E entry \in caches :
          /\ entry.model = job[j].roster[1]
          /\ Becomes(j, [job[j] EXCEPT !.hit = TRUE, !.dir = entry.dir,
                                !.phase = "fetch"])
     \/ /\ \A entry \in caches : entry.model # job[j].roster[1]
        /\ Becomes(j, [job[j] EXCEPT !.phase = "fetch"])
  /\ UNCHANGED <<head, pending, comments, clock, caches, home, runs, posted, unread>>

(* actions/cache/restore, skipped when there is no restore key.            *)
RestoreCache(j) ==
  /\ job[j].phase = "restore"
  /\ \/ \E entry \in caches :
          /\ <<entry.model, entry.sha>> = <<job[j].roster[1], job[j].prev>>
          /\ Becomes(j, [job[j] EXCEPT !.hit = TRUE, !.dir = entry.dir,
                                !.phase = "fetch"])
     \/ /\ \A entry \in caches : <<entry.model, entry.sha>> # <<job[j].roster[1], job[j].prev>>
        /\ Becomes(j, [job[j] EXCEPT !.phase = "fetch"])
  /\ UNCHANGED <<head, pending, comments, clock, caches, home, runs, posted, unread>>

(* process_review: the head SHA is read once, for the whole roster.        *)
FetchPullRequest(j) ==
  /\ job[j].phase = "fetch"
  /\ Becomes(j, [job[j] EXCEPT !.target = head, !.phase = "resolve"])
  /\ UNCHANGED <<head, pending, comments, clock, caches, home, runs, posted, unread>>

(* Comment snapshot and _resolve_review_resume_state for the next model.   *)
ResolveResume(j) ==
  /\ job[j].phase = "resolve"
  /\ \/ \E base \in PreviousShas(j) :
          /\ CanResume(j, base)
          /\ Becomes(j, [job[j] EXCEPT !.base = base, !.phase = "review"])
     \/ /\ "git" \in Faults \/ \A base \in PreviousShas(j) : ~CanResume(j, base)
        /\ Becomes(j, [job[j] EXCEPT !.base = None, !.phase = "review"])
  /\ UNCHANGED <<head, pending, comments, clock, caches, home, runs, posted, unread>>

(* execute_structured: the turns of the thread, then its file.  A thread   *)
(* that cannot be read back starts empty though its prompt is incremental; *)
(* one that cannot be written leaves the older file, or none that parses.  *)
ExecuteReview(j) ==
  /\ job[j].phase = "review"
  /\ LET old   == Threads(j)[Model(j)]
         local == job[j].kind = "local"
     IN
     \E known \in {IF job[j].base = None THEN {} ELSE old} \cup
                  (IF "thread" \in Faults THEN {{}} ELSE {}) :
     \E kept \in {known \cup Scope(j)} \cup
                 (IF "thread" \in Faults THEN {old, {}} ELSE {}) :
       /\ home' = IF local THEN [home EXCEPT ![Model(j)] = kept] ELSE home
       /\ Becomes(j, [job[j] EXCEPT
            !.phase = "post",
            !.dir = IF local THEN @ ELSE [@ EXCEPT ![Model(j)] = kept]])
  /\ UNCHANGED <<head, pending, comments, clock, caches, runs, posted, unread>>

(* Mutant: an error while posting is logged and the review goes on.        *)
PostResultsLenient(j) ==
  /\ job[j].phase = "post"
  /\ \E S \in {{}, Scope(j)} : posted' = [posted EXCEPT ![Model(j)] = @ \cup S]
  /\ unread' = [unread EXCEPT ![Model(j)] = @ \cup Unread(j)]
  /\ Becomes(j, [job[j] EXCEPT !.phase = "delete"])
  /\ UNCHANGED <<head, pending, comments, clock, caches, home, runs>>

(* _post_results: the findings on what the model was told to look at.      *)
PostResults(j) ==
  /\ job[j].phase = "post"
  /\ posted' = IF job[j].dry THEN posted
               ELSE [posted EXCEPT ![Model(j)] = @ \cup Scope(j)]
  /\ unread' = IF job[j].dry THEN unread
               ELSE [unread EXCEPT ![Model(j)] = @ \cup Unread(j)]
  /\ Becomes(j, [job[j] EXCEPT !.phase = "delete"])
  /\ UNCHANGED <<head, pending, comments, clock, caches, home, runs>>

(* Mutants: every summary, and only one that names the same head.          *)
SupersededAny(j) == comments
SupersededSameHead(j) == {c \in comments : c.model = Model(j) /\ c.sha = job[j].target}

(* _delete_prior_summary: the model's own summaries and unmarked ones; a   *)
(* refused deletion is only a warning.                                     *)
Superseded(j) == {c \in comments : c.model \in {Model(j), NoModel}}

DeletePriorSummary(j) ==
  /\ job[j].phase = "delete"
  /\ \E refused \in SUBSET Superseded(j) :
       /\ refused # {} => "delete" \in Faults
       /\ comments' = IF job[j].dry THEN comments
                      ELSE (comments \ Superseded(j)) \cup refused
  /\ Becomes(j, [job[j] EXCEPT !.phase = "create"])
  /\ UNCHANGED <<head, pending, clock, caches, home, runs, posted, unread>>

(* Mutants: the loop over the roster runs one too far, or returns early.   *)
AfterSummaryBeyond(j) == [job[j] EXCEPT !.idx = @ + 1, !.base = None, !.phase = "resolve"]
AfterSummaryFirst(j) ==
  IF job[j].kind = "action" THEN [job[j] EXCEPT !.base = None, !.phase = "save"] ELSE IdleJob

(* create_comment, then the next model of the roster or the end of the CLI.*)
AfterSummary(j) ==
  IF job[j].idx < Len(job[j].roster)
  THEN [job[j] EXCEPT !.idx = @ + 1, !.base = None, !.phase = "resolve"]
  ELSE IF job[j].kind = "action"
  THEN [job[j] EXCEPT !.base = None, !.phase = "save"]
  ELSE IdleJob

CreateSummary(j) ==
  /\ job[j].phase = "create"
  /\ IF job[j].dry
     THEN UNCHANGED <<comments, clock>>
     ELSE /\ clock' = clock + 1
          /\ comments' = comments \cup
               {[model |-> Model(j), sha |-> job[j].target, at |-> clock + 1]}
  /\ Becomes(j, AfterSummary(j))
  /\ UNCHANGED <<head, pending, caches, home, runs, posted, unread>>

(* actions/cache/save under the event's SHA; an existing entry stays.      *)
SaveCache(j) ==
  /\ job[j].phase = "save"
  /\ LET entry == [model |-> job[j].roster[1], sha |-> job[j].event, dir |-> job[j].dir]
         restored == job[j].hit /\ job[j].prev = job[j].event
         taken == \E e \in caches : <<e.model, e.sha>> = <<entry.model, entry.sha>>
     IN  \/ /\ ~restored /\ ~taken
            /\ caches' = caches \cup {entry}
         \/ /\ restored \/ taken \/ "cache" \in Faults
            /\ caches' = caches
  /\ Becomes(j, IdleJob)
  /\ UNCHANGED <<head, pending, comments, clock, home, runs, posted, unread>>

EvictCache ==
  /\ "cache" \in Faults
  /\ \E entry \in caches : caches' = caches \ {entry}
  /\ UNCHANGED <<head, pending, comments, clock, home, job, runs, posted, unread>>

(* Mutant: the save step runs whatever became of the review.               *)
AbortJobSaving(j) ==
  /\ job[j].phase # "idle"
  /\ "abort" \in Faults
  /\ caches' = IF job[j].kind = "action" /\ job[j].phase \notin Window
               THEN caches \cup {[model |-> job[j].roster[1], sha |-> job[j].event,
                                  dir |-> job[j].dir]}
               ELSE caches
  /\ Becomes(j, IdleJob)
  /\ UNCHANGED <<head, pending, comments, clock, home, runs, posted, unread>>

(* A step that raises ends the job, and so does a lost runner; with one    *)
(* job per pull request a new event cancels the one in progress.           *)
AbortJob(j) ==
  /\ job[j].phase # "idle"
  /\ \/ "abort" \in Faults
     \/ pending # {} /\ job[j].kind = "action" /\ Jobs = {j}
  /\ Becomes(j, IdleJob)
  /\ UNCHANGED <<head, pending, comments, clock, caches, home, runs, posted, unread>>

-----------------------------------------------------------------------------
JobStep(j) ==
  \/ Prepare(j) \/ RestoreCache(j) \/ FetchPullRequest(j) \/ ResolveResume(j)
  \/ ExecuteReview(j) \/ PostResults(j) \/ DeletePriorSummary(j)
  \/ CreateSummary(j) \/ SaveCache(j)

Next ==
  \/ \E c \in Commits : PushHead(c)
  \/ Retrigger
  \/ EvictCache
  \/ \E j \in Jobs : StartAction(j) \/ StartLocal(j) \/ AbortJob(j) \/ JobStep(j)

Spec == Init /\ [][Next]_vars

(* A runner takes the next step of its job and a waiting event gets one.   *)
FairSpec ==
  /\ Spec
  /\ \A j \in Jobs : WF_vars(JobStep(j))
  /\ \A j \in Jobs : WF_vars(StartAction(j))

-----------------------------------------------------------------------------
(* A published summary names the head as get_pr returned it, and later jobs*)
(* skip what it names.  Its model has posted its findings on every commit  *)
(* up to there, in this job or in an earlier one, with one exception: the  *)
(* commits a full review of an older checkout was not shown, pushed after  *)
(* the job's event (or the user's checkout) and before its get_pr          *)
(* (review_workflow.py:871, 915-1017, _resolve_review_resume_state).       *)
NoCommitSkipped ==
  \A c \in comments : c.model \in Models
    => Ancestors[c.sha] \subseteq posted[c.model] \cup unread[c.model]

(* A model is told to skip the commits up to the base of its resumed       *)
(* review only when it posted its findings on all of them itself           *)
(* (README.md:145, review_workflow.py:859-863).                            *)
ResumeBaseCovered ==
  \A j \in Jobs :
    job[j].phase \in {"review", "post"} /\ job[j].base # None
      => Ancestors[job[j].base] \subseteq posted[Model(j)]

(* A resumed thread has itself been shown every commit up to the base: an  *)
(* entry of the cache or the local directory never holds a thread older    *)
(* than the SHA it is found under (README.md:219-221).                     *)
ThreadKnowsBase ==
  \A j \in Jobs :
    job[j].phase = "review" /\ job[j].base # None
      => Ancestors[job[j].base] \subseteq Threads(j)[Model(j)]

(* A model's summary replaces its own earlier one: whatever steps fail or  *)
(* are cut short, no model has two (review_workflow.py:1108-1138).         *)
OneSummaryPerModel ==
  \A c, d \in comments : c.model = d.model => c = d

(* The job's steps, seen through what is posted and published, are steps   *)
(* of CommitCoverage: nothing else is published ahead of its findings and  *)
(* no model withdraws another's summary (review_workflow.py:845-853).      *)
Coverage == INSTANCE CommitCoverage WITH
  published <- {<<c.model, c.sha>> : c \in {d \in comments : d.model \in Models}}

CoverageSpec == Coverage!Spec

(* Once the pushes stop and the last event has got its job, every model of *)
(* the roster ends up with a summary of the pull request's head, whichever *)
(* jobs were cancelled on the way.                                         *)
HeadGetsReviewed ==
  <>[](pending = {} =>
         \E roster \in Rosters : \A i \in DOMAIN roster :
           \E c \in comments : c.model = roster[i] /\ c.sha = head)
=============================================================================
