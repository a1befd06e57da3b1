------------------------- MODULE ReviewResumeProofs -------------------------
(***************************************************************************)
(* Proofs about ReviewResume, for every pull request, roster and number of *)
(* jobs: review mode skips no commit but those its checkout was too old to *)
(* show (of a published summary and of the base of a resumed review), one  *)
(* job at a time keeps one summary per model, and a resumed thread knows   *)
(* what it skips.                                                          *)
(***************************************************************************)
EXTENDS ReviewResume, TLAPS

-----------------------------------------------------------------------------
(* Types.                                                                  *)

(* A job that is not running is a proper job.                              *)
LEMMA IdleJobType == IdleJob \in JobState
  BY DEF IdleJob, JobState, JobRecord, Phases, ThreadDir, NoThreads

(* What each step makes of the job it moves is a proper job again.         *)
LEMMA PrepareType ==
  ASSUME NEW r \in JobState, r.phase = "prepare", NEW sha \in Commits \cup {None}
  PROVE  [r EXCEPT !.prev = sha, !.phase = "restore"] \in JobState
  BY DEF JobState, JobRecord, Phases, Window

LEMMA MissType ==
  ASSUME NEW r \in JobState, r.phase = "restore"
  PROVE  [r EXCEPT !.phase = "fetch"] \in JobState
  BY DEF JobState, JobRecord, Phases, Window

LEMMA HitType ==
  ASSUME NEW r \in JobState, r.phase = "restore", NEW d \in ThreadDir
  PROVE  [r EXCEPT !.hit = TRUE, !.dir = d, !.phase = "fetch"] \in JobState
  BY DEF JobState, JobRecord, Phases, Window

LEMMA FetchType ==
  ASSUME NEW r \in JobState, r.phase = "fetch", NEW c \in Commits
  PROVE  [r EXCEPT !.target = c, !.phase = "resolve"] \in JobState
  BY DEF JobState, JobRecord, Phases, Window

LEMMA ResolveType ==
  ASSUME NEW r \in JobState, r.phase = "resolve", NEW base \in Commits \cup {None}
  PROVE  [r EXCEPT !.base = base, !.phase = "review"] \in JobState
  BY DEF JobState, JobRecord, Phases, Window

LEMMA ExecuteType ==
  ASSUME NEW r \in JobState, r.phase = "review", NEW d \in ThreadDir
  PROVE  [r EXCEPT !.phase = "post", !.dir = d] \in JobState
  BY DEF JobState, JobRecord, Phases, Window

LEMMA PostType ==
  ASSUME NEW r \in JobState, r.phase = "post"
  PROVE  [r EXCEPT !.phase = "delete"] \in JobState
  BY DEF JobState, JobRecord, Phases, Window

LEMMA DeleteType ==
  ASSUME NEW r \in JobState, r.phase = "delete"
  PROVE  [r EXCEPT !.phase = "create"] \in JobState
  BY DEF JobState, JobRecord, Phases, Window

LEMMA NextModelType ==
  ASSUME NEW r \in JobState, r.phase = "create", r.idx + 1 \in 1..Len(r.roster), r.idx + 1 \in Nat \ {0}
  PROVE  [r EXCEPT !.idx = @ + 1, !.base = None, !.phase = "resolve"] \in JobState
  BY DEF JobState, JobRecord, Phases, Window

LEMMA LastModelType ==
  ASSUME NEW r \in JobState, r.phase = "create", r.kind = "action"
  PROVE  [r EXCEPT !.base = None, !.phase = "save"] \in JobState
  BY DEF JobState, JobRecord, Phases, Window

(* A step that turns one job into another proper one changes nothing else. *)
LEMMA JobBecomes ==
  ASSUME job \in [Jobs -> JobState], NEW j \in Jobs, NEW r \in JobState, Becomes(j, r)
  PROVE  /\ job' \in [Jobs -> JobState]
         /\ job'[j] = r
         /\ \A k \in Jobs : k # j => job'[k] = job[k]
  BY DEF Becomes

(* A started job is a proper job.                                          *)
LEMMA StartType ==
  ASSUME NEW j \in Jobs, job \in [Jobs -> JobState], head \in Commits,
         runs \in 0..MaxRuns, NEW kind \in {"action", "local"},
         NEW roster \in Rosters, NEW dry \in DryRuns,
         NEW event \in Commits \cup {None}, kind = "action" => event \in Commits,
         NEW checkout \in Commits,
         Start(j, kind, roster, dry, event, checkout)
  PROVE  job' \in [Jobs -> JobState] /\ runs' \in 0..MaxRuns
<1>0. PICK tip \in {checkout, head} :
        Becomes(j, [phase |-> IF kind = "action" THEN "prepare" ELSE "fetch",
                    kind |-> kind, roster |-> roster, dry |-> dry, event |-> event,
                    checkout |-> checkout, tip |-> tip, prev |-> None, hit |-> FALSE,
                    target |-> None, idx |-> 1, base |-> None, dir |-> NoThreads])
  BY DEF Start
<1> DEFINE r == [phase |-> IF kind = "action" THEN "prepare" ELSE "fetch",
                 kind |-> kind, roster |-> roster, dry |-> dry, event |-> event,
                 checkout |-> checkout, tip |-> tip, prev |-> None, hit |-> FALSE,
                 target |-> None, idx |-> 1, base |-> None, dir |-> NoThreads]
<1>1. dry \in BOOLEAN /\ roster \in Seq(Models) /\ 1 \in 1..Len(roster)
  BY ConfigAssumption
<1>2. NoThreads \in ThreadDir
  BY DEF NoThreads, ThreadDir
<1>3. r \in JobState
  BY <1>1, <1>2 DEF JobState, JobRecord, Phases, Window
<1>4. Becomes(j, r) /\ runs' \in 0..MaxRuns
  BY <1>0, ConfigAssumption DEF Start
<1> HIDE DEF r
<1> QED
  BY <1>3, <1>4, JobBecomes

(* After a model's summary the job goes on with the next model, saves its  *)
(* cache or ends.                                                          *)
LEMMA AfterSummaryType ==
  ASSUME job \in [Jobs -> JobState], NEW j \in Jobs, job[j].phase = "create"
  PROVE  AfterSummary(j) \in JobState
<1>1. CASE job[j].idx < Len(job[j].roster)
  <2>1. /\ job[j] \in JobState
        /\ job[j].idx \in Nat \ {0}
        /\ job[j].roster \in Seq(Models)
    BY ConfigAssumption DEF JobState, JobRecord
  <2>2. job[j].idx + 1 \in 1..Len(job[j].roster) /\ job[j].idx + 1 \in Nat \ {0}
    BY <1>1, <2>1
  <2> QED
    BY <1>1, <2>1, <2>2, NextModelType DEF AfterSummary
<1>2. CASE ~(job[j].idx < Len(job[j].roster)) /\ job[j].kind = "action"
  BY <1>2, LastModelType DEF AfterSummary
<1> QED
  BY <1>1, <1>2, IdleJobType DEF AfterSummary

(* A model of a running job's roster is one of the models.                 *)
LEMMA ModelType ==
  ASSUME job \in [Jobs -> JobState], NEW j \in Jobs, job[j].phase # "idle"
  PROVE  Model(j) \in Models /\ job[j].roster[1] \in Models
<1>1. job[j].roster \in Rosters /\ job[j].idx \in 1..Len(job[j].roster)
  BY DEF JobState
<1>2. job[j].roster \in Seq(Models) /\ 1 \in 1..Len(job[j].roster)
  BY <1>1, ConfigAssumption
<1> QED
  BY <1>1, <1>2 DEF Model

(* The commits a model is told to look at are commits.                     *)
LEMMA ScopeType ==
  ASSUME job \in [Jobs -> JobState], NEW j \in Jobs,
         job[j].phase \in {"review", "post"}
  PROVE  Scope(j) \subseteq Commits
<1>1. job[j].checkout \in Commits /\ job[j].target \in Commits
  BY DEF JobState, Window
<1>2. \A c \in Commits : Ancestors[c] \subseteq Commits
  BY AncestorsAssumption
<1> QED
  BY <1>1, <1>2 DEF Scope

(* So are those it was not shown.                                          *)
LEMMA UnreadType ==
  ASSUME job \in [Jobs -> JobState], NEW j \in Jobs, job[j].phase = "post"
  PROVE  Unread(j) \subseteq Commits
<1>1. job[j].target \in Commits
  BY DEF JobState, Window
<1> QED
  BY <1>1, AncestorsAssumption DEF Unread

(* The SHAs of the newest summaries are commits.                           *)
LEMMA PreviousType ==
  ASSUME TypeOK, NEW j \in Jobs
  PROVE  LatestReviewedShas \subseteq Commits /\ PreviousShas(j) \subseteq Commits
<1>1. LatestReviewedShas \subseteq Commits
  BY DEF TypeOK, LatestReviewedShas, Summary
<1>2. job[j].prev \in Commits \cup {None}
  BY DEF TypeOK, JobState, JobRecord
<1> QED
  BY <1>1, <1>2 DEF PreviousShas

-----------------------------------------------------------------------------
(* Every step of the review leaves the state well typed: a running job has *)
(* a roster of the configuration, an index into it and the commits its     *)
(* phase needs.                                                            *)
THEOREM TypeCorrect == Spec => []TypeOK
<1>1. Init => TypeOK
  <2> SUFFICES ASSUME Init PROVE TypeOK
    OBVIOUS
  <2>1. job \in [Jobs -> JobState]
    BY IdleJobType DEF Init
  <2>2. comments \subseteq Summary
    BY CommitsAssumption DEF Init, Summary
  <2>3. /\ home \in ThreadDir /\ posted \in [Models -> SUBSET Commits]
        /\ unread \in [Models -> SUBSET Commits]
    BY DEF Init, NoThreads, ThreadDir
  <2> QED
    BY <2>1, <2>2, <2>3, CommitsAssumption, ConfigAssumption DEF Init, TypeOK
<1>2. TypeOK /\ [Next]_vars => TypeOK'
  <2> SUFFICES ASSUME TypeOK, [Next]_vars PROVE TypeOK'
    OBVIOUS
  <2>0. /\ job \in [Jobs -> JobState]
        /\ \A j \in Jobs : job[j] \in JobState
    BY DEF TypeOK
  <2>1. ASSUME NEW c \in Commits, PushHead(c) PROVE TypeOK'
    BY <2>1 DEF TypeOK, PushHead
  <2>2. CASE Retrigger
    BY <2>2 DEF TypeOK, Retrigger
  <2>3. CASE EvictCache
    BY <2>3 DEF TypeOK, EvictCache
  <2>4. ASSUME NEW j \in Jobs, StartAction(j) PROVE TypeOK'
    <3>1. PICK event \in pending, roster \in Rosters, dry \in DryRuns :
            /\ Start(j, "action", roster, dry, event, event)
            /\ pending' = pending \ {event}
      BY <2>4 DEF StartAction
    <3>2. event \in Commits
      BY DEF TypeOK
    <3>3. job' \in [Jobs -> JobState] /\ runs' \in 0..MaxRuns
      BY <2>0, <3>1, <3>2, StartType DEF TypeOK
    <3> QED
      BY <3>1, <3>3 DEF TypeOK, Start
  <2>5. ASSUME NEW j \in Jobs, StartLocal(j) PROVE TypeOK'
    <3>1. PICK checkout \in Commits, roster \in Rosters, dry \in DryRuns :
            Start(j, "local", roster, dry, None, checkout)
      BY <2>5 DEF StartLocal
    <3>2. job' \in [Jobs -> JobState] /\ runs' \in 0..MaxRuns
      BY <2>0, <3>1, StartType DEF TypeOK
    <3> QED
      BY <2>5, <3>1, <3>2 DEF TypeOK, StartLocal, Start
  <2>6. ASSUME NEW j \in Jobs, AbortJob(j) PROVE TypeOK'
    <3>1. job' \in [Jobs -> JobState]
      BY <2>0, <2>6, IdleJobType, JobBecomes DEF AbortJob
    <3> QED
      BY <2>6, <3>1 DEF TypeOK, AbortJob
  <2>7. ASSUME NEW j \in Jobs, Prepare(j) PROVE TypeOK'
    <3>1. PICK sha \in Commits \cup {None} :
            Becomes(j, [job[j] EXCEPT !.prev = sha, !.phase = "restore"])
      BY <2>7 DEF Prepare
    <3>2. job' \in [Jobs -> JobState]
      BY <2>0, <2>7, <3>1, PrepareType, JobBecomes DEF Prepare
    <3> QED
      BY <2>7, <3>2 DEF TypeOK, Prepare
  <2>8. ASSUME NEW j \in Jobs, RestoreCache(j) PROVE TypeOK'
    <3>1. job' \in [Jobs -> JobState]
      <4>1. CASE Becomes(j, [job[j] EXCEPT !.phase = "fetch"])
        BY <2>0, <2>8, <4>1, MissType, JobBecomes DEF RestoreCache
      <4>2. ASSUME NEW entry \in caches,
                   Becomes(j, [job[j] EXCEPT !.hit = TRUE, !.dir = entry.dir, !.phase = "fetch"])
            PROVE  job' \in [Jobs -> JobState]
        <5>1. entry.dir \in ThreadDir
          BY DEF TypeOK
        <5> QED
          BY <2>0, <2>8, <4>2, <5>1, HitType, JobBecomes DEF RestoreCache
      <4> QED
        BY <2>8, <4>1, <4>2 DEF RestoreCache
    <3> QED
      BY <2>8, <3>1 DEF TypeOK, RestoreCache
  <2>9. ASSUME NEW j \in Jobs, FetchPullRequest(j) PROVE TypeOK'
    <3>1. head \in Commits
      BY DEF TypeOK
    <3>2. job' \in [Jobs -> JobState]
      BY <2>0, <2>9, <3>1, FetchType, JobBecomes DEF FetchPullRequest
    <3> QED
      BY <2>9, <3>2 DEF TypeOK, FetchPullRequest
  <2>10. ASSUME NEW j \in Jobs, ResolveResume(j) PROVE TypeOK'
    <3>1. PICK base \in Commits \cup {None} :
            Becomes(j, [job[j] EXCEPT !.base = base, !.phase = "review"])
      BY <2>10, PreviousType DEF ResolveResume
    <3>2. job' \in [Jobs -> JobState]
      BY <2>0, <2>10, <3>1, ResolveType, JobBecomes DEF ResolveResume
    <3> QED
      BY <2>10, <3>2 DEF TypeOK, ResolveResume
  <2>11. ASSUME NEW j \in Jobs, ExecuteReview(j) PROVE TypeOK'
    <3>1. job[j].phase = "review" /\ job[j].dir \in ThreadDir
      BY <2>0, <2>11 DEF ExecuteReview, JobState, JobRecord
    <3>2. Threads(j)[Model(j)] \subseteq Commits
      BY <3>1, <2>0, ModelType DEF Threads, TypeOK, ThreadDir
    <3>3. Scope(j) \subseteq Commits
      BY <2>0, <3>1, ScopeType
    <3>4. PICK kept \in SUBSET Commits :
            /\ home' = IF job[j].kind = "local"
                       THEN [home EXCEPT ![Model(j)] = kept] ELSE home
            /\ Becomes(j, [job[j] EXCEPT !.phase = "post",
                 !.dir = IF job[j].kind = "local" THEN @
                         ELSE [@ EXCEPT ![Model(j)] = kept]])
      BY <2>11, <3>2, <3>3 DEF ExecuteReview
    <3>5. home' \in ThreadDir
      BY <3>4 DEF TypeOK, ThreadDir
    <3> DEFINE d == IF job[j].kind = "local" THEN job[j].dir
                    ELSE [job[j].dir EXCEPT ![Model(j)] = kept]
    <3>6. d \in ThreadDir
      BY <3>1 DEF ThreadDir
    <3>7. Becomes(j, [job[j] EXCEPT !.phase = "post", !.dir = d])
      BY <3>4
    <3> HIDE DEF d
    <3>8. job' \in [Jobs -> JobState]
      BY <2>0, <3>1, <3>6, <3>7, ExecuteType, JobBecomes
    <3> QED
      BY <2>11, <3>5, <3>8 DEF TypeOK, ExecuteReview
  <2>12. ASSUME NEW j \in Jobs, PostResults(j) PROVE TypeOK'
    <3>1. job' \in [Jobs -> JobState]
      BY <2>0, <2>12, PostType, JobBecomes DEF PostResults
    <3>2. Scope(j) \subseteq Commits
      BY <2>0, <2>12, ScopeType DEF PostResults
    <3>3. posted' \in [Models -> SUBSET Commits]
      BY <2>12, <3>2 DEF PostResults, TypeOK
    <3>4. Unread(j) \subseteq Commits
      BY <2>0, <2>12, UnreadType DEF PostResults
    <3>5. unread' \in [Models -> SUBSET Commits]
      BY <2>12, <3>4 DEF PostResults, TypeOK
    <3> QED
      BY <2>12, <3>1, <3>3, <3>5 DEF TypeOK, PostResults
  <2>13. ASSUME NEW j \in Jobs, DeletePriorSummary(j) PROVE TypeOK'
    <3>1. job' \in [Jobs -> JobState]
      BY <2>0, <2>13, DeleteType, JobBecomes DEF DeletePriorSummary
    <3>2. comments' \subseteq Summary
      BY <2>13 DEF DeletePriorSummary, Superseded, TypeOK
    <3> QED
      BY <2>13, <3>1, <3>2 DEF TypeOK, DeletePriorSummary
  <2>14. ASSUME NEW j \in Jobs, CreateSummary(j) PROVE TypeOK'
    <3>1. job[j].phase = "create" /\ job[j].target \in Commits
      BY <2>0, <2>14 DEF CreateSummary, JobState, Window
    <3>2. job' \in [Jobs -> JobState]
      BY <2>0, <2>14, <3>1, AfterSummaryType, JobBecomes DEF CreateSummary
    <3>3. Model(j) \in Models
      BY <2>0, <3>1, ModelType
    <3>4. comments' \subseteq Summary /\ clock' \in Nat
      BY <2>14, <3>1, <3>3 DEF CreateSummary, TypeOK, Summary
    <3> QED
      BY <2>14, <3>2, <3>4 DEF TypeOK, CreateSummary
  <2>15. ASSUME NEW j \in Jobs, SaveCache(j) PROVE TypeOK'
    <3>1. job[j].phase = "save" /\ job[j].event \in Commits /\ job[j].dir \in ThreadDir
      BY <2>0, <2>15 DEF SaveCache, JobState, JobRecord
    <3>2. job[j].roster[1] \in Models
      BY <2>0, <3>1, ModelType
    <3>3. caches' \subseteq [model : Models, sha : Commits, dir : ThreadDir]
      BY <2>15, <3>1, <3>2 DEF SaveCache, TypeOK
    <3>4. job' \in [Jobs -> JobState]
      BY <2>0, <2>15, IdleJobType, JobBecomes DEF SaveCache
    <3> QED
      BY <2>15, <3>3, <3>4 DEF TypeOK, SaveCache
  <2>16. CASE UNCHANGED vars
    BY <2>16 DEF TypeOK, vars
  <2> QED
    BY <2>1, <2>2, <2>3, <2>4, <2>5, <2>6, <2>7, <2>8, <2>9, <2>10, <2>11,
       <2>12, <2>13, <2>14, <2>15, <2>16 DEF Next, JobStep
<1> QED
  BY <1>1, <1>2, PTL DEF Spec

-----------------------------------------------------------------------------
(* Coverage.                                                               *)

(* Model m has posted its findings on the whole of the pull request at c.  *)
Posted(m, c) == Ancestors[c] \subseteq posted[m]

(* The same, but for commits that a review of an older checkout left out.  *)
Covered(m, c) == Ancestors[c] \subseteq posted[m] \cup unread[m]

-----------------------------------------------------------------------------
(* One model, any push.                                                    *)

(* What is true of a job all along: it was told of a reviewed commit only  *)
(* when the model really read the summary's commits, and it publishes after*)
(* it has posted.                                                          *)
SoleJob(m, j) ==
  job[j].phase # "idle" =>
    /\ job[j].prev # None => Covered(m, job[j].prev)
    /\ job[j].base # None => Covered(m, job[j].base)
    /\ job[j].phase \in {"delete", "create"} /\ ~job[j].dry => Covered(m, job[j].target)

SoleInv(m) ==
  /\ \A c \in comments : c.model = m /\ Covered(m, c.sha)
  /\ \A j \in Jobs : SoleJob(m, j)

(* The only model is the one at work, and the last of its roster.         *)
LEMMA SoleModel ==
  ASSUME NEW m \in Models, Rosters \subseteq {<<m>>}, job \in [Jobs -> JobState],
         NEW j \in Jobs, job[j].phase # "idle"
  PROVE  /\ Model(j) = m
         /\ ~(job[j].idx < Len(job[j].roster))
<1>1. job[j].roster = <<m>> /\ job[j].idx \in 1..Len(job[j].roster)
  BY DEF JobState
<1> QED
  BY <1>1 DEF Model

(* A job that does not move keeps what is true of it while findings are    *)
(* only added.                                                             *)
LEMMA SoleJobStays ==
  ASSUME NEW m \in Models, NEW k \in Jobs, SoleJob(m, k), job'[k] = job[k],
         posted[m] \subseteq posted'[m], unread[m] \subseteq unread'[m]
  PROVE  SoleJob(m, k)'
  BY DEF SoleJob, Covered

(* One model: whatever is pushed (forced pushes too) and whatever fails,   *)
(* SoleInv is inductive.                                                   *)
THEOREM SoleInvariant ==
  ASSUME NEW m \in Models, Rosters \subseteq {<<m>>}, Legacy = {}
  PROVE  Spec => [](TypeOK /\ SoleInv(m))
<1>1. Init => SoleInv(m)
  BY DEF Init, SoleInv, SoleJob, IdleJob
<1>2. TypeOK /\ SoleInv(m) /\ [Next]_vars => SoleInv(m)'
  <2> SUFFICES ASSUME TypeOK, SoleInv(m), [Next]_vars PROVE SoleInv(m)'
    OBVIOUS
  <2>0. /\ job \in [Jobs -> JobState]
        /\ \A j \in Jobs : job[j] \in JobState
        /\ posted \in [Models -> SUBSET Commits] /\ unread \in [Models -> SUBSET Commits]
    BY DEF TypeOK
  <2>a. \A k \in Jobs : SoleJob(m, k)
    BY DEF SoleInv
  (* A step of job j alone, which adds findings at most and publishes      *)
  (* nothing that is not covered.                                          *)
  <2>b. ASSUME NEW j \in Jobs, NEW r, Becomes(j, r),
               posted[m] \subseteq posted'[m], unread[m] \subseteq unread'[m],
               \A c \in comments' : c \in comments \/ (c.model = m /\ Covered(m, c.sha)'),
               SoleJob(m, j)'
        PROVE  SoleInv(m)'
    <3>1. \A k \in Jobs : k # j => job'[k] = job[k]
      BY <2>0, <2>b DEF Becomes
    <3>2. \A k \in Jobs : SoleJob(m, k)'
      BY <2>a, <2>b, <3>1, SoleJobStays
    <3>3. \A c \in comments' : c.model = m /\ Covered(m, c.sha)'
      BY <2>b DEF SoleInv, Covered
    <3> QED
      BY <3>2, <3>3 DEF SoleInv
  <2>1. ASSUME NEW c \in Commits, PushHead(c) PROVE SoleInv(m)'
    <3>1. \A k \in Jobs : SoleJob(m, k)'
      BY <2>a, <2>1, SoleJobStays DEF PushHead
    <3> QED
      BY <2>1, <3>1 DEF PushHead, SoleInv, Covered
  <2>2. CASE Retrigger
    BY <2>2 DEF Retrigger, SoleInv, SoleJob, Covered
  <2>3. CASE EvictCache
    BY <2>3 DEF EvictCache, SoleInv, SoleJob, Covered
  <2>4. ASSUME NEW j \in Jobs, StartAction(j) \/ StartLocal(j) PROVE SoleInv(m)'
    <3>1. PICK kind, roster, dry, event, checkout :
            Start(j, kind, roster, dry, event, checkout)
      BY <2>4 DEF StartAction, StartLocal
    <3>2. PICK tip :
            Becomes(j, [phase |-> IF kind = "action" THEN "prepare" ELSE "fetch",
                        kind |-> kind, roster |-> roster, dry |-> dry, event |-> event,
                        checkout |-> checkout, tip |-> tip, prev |-> None, hit |-> FALSE,
                        target |-> None, idx |-> 1, base |-> None, dir |-> NoThreads])
      BY <3>1 DEF Start
    <3> DEFINE r == [phase |-> IF kind = "action" THEN "prepare" ELSE "fetch",
                     kind |-> kind, roster |-> roster, dry |-> dry, event |-> event,
                     checkout |-> checkout, tip |-> tip, prev |-> None, hit |-> FALSE,
                     target |-> None, idx |-> 1, base |-> None, dir |-> NoThreads]
    <3>3. /\ Becomes(j, r) /\ job'[j] = r
          /\ UNCHANGED <<comments, posted, unread>>
      BY <2>0, <3>1, <3>2 DEF Start, Becomes
    <3>4. r.prev = None /\ r.base = None /\ r.phase \in {"prepare", "fetch"}
      OBVIOUS
    <3> HIDE DEF r
    <3>5. SoleJob(m, j)'
      BY <3>3, <3>4 DEF SoleJob
    <3> QED
      BY <2>b, <3>3, <3>5
  <2>5. ASSUME NEW j \in Jobs, AbortJob(j) PROVE SoleInv(m)'
    <3>1. SoleJob(m, j)'
      BY <2>0, <2>5 DEF AbortJob, Becomes, SoleJob, IdleJob
    <3> QED
      BY <2>b, <2>5, <3>1 DEF AbortJob
  <2>6. ASSUME NEW j \in Jobs, Prepare(j) PROVE SoleInv(m)'
    <3>1. PICK sha \in Commits \cup {None} :
            /\ sha \in LatestReviewedShas \/ sha = None
            /\ Becomes(j, [job[j] EXCEPT !.prev = sha, !.phase = "restore"])
      BY <2>6 DEF Prepare
    <3>2. sha # None => Covered(m, sha)
      BY <3>1 DEF LatestReviewedShas, SoleInv
    <3>3. /\ job'[j].prev = sha /\ job'[j].phase = "restore"
          /\ job'[j].base = job[j].base
      BY <2>0, <3>1 DEF Becomes, JobState, JobRecord
    <3>4. SoleJob(m, j)'
      BY <2>a, <2>6, <3>2, <3>3 DEF Prepare, SoleJob, Covered
    <3> QED
      BY <2>b, <2>6, <3>1, <3>4 DEF Prepare
  <2>7. ASSUME NEW j \in Jobs, RestoreCache(j) PROVE SoleInv(m)'
    <3>1. PICK hit, dir :
            Becomes(j, [job[j] EXCEPT !.hit = hit, !.dir = dir, !.phase = "fetch"])
      <4>1. CASE Becomes(j, [job[j] EXCEPT !.phase = "fetch"])
        <5>1. [job[j] EXCEPT !.phase = "fetch"]
                = [job[j] EXCEPT !.hit = job[j].hit, !.dir = job[j].dir, !.phase = "fetch"]
          BY <2>0 DEF JobState, JobRecord
        <5> QED
          BY <4>1, <5>1
      <4> QED
        BY <2>7, <4>1 DEF RestoreCache
    <3>2. /\ job'[j].prev = job[j].prev /\ job'[j].phase = "fetch"
          /\ job'[j].base = job[j].base
      BY <2>0, <3>1 DEF Becomes, JobState, JobRecord
    <3>3. SoleJob(m, j)'
      BY <2>a, <2>7, <3>2 DEF RestoreCache, SoleJob, Covered
    <3> QED
      BY <2>b, <2>7, <3>1, <3>3 DEF RestoreCache
  <2>8. ASSUME NEW j \in Jobs, FetchPullRequest(j) PROVE SoleInv(m)'
    <3>1. /\ job'[j].prev = job[j].prev /\ job'[j].phase = "resolve"
          /\ job'[j].base = job[j].base
          /\ job'[j].target = head
      BY <2>0, <2>8 DEF FetchPullRequest, Becomes, JobState, JobRecord
    <3>2. SoleJob(m, j)'
      BY <2>a, <2>8, <3>1 DEF FetchPullRequest, SoleJob, Covered
    <3> QED
      BY <2>b, <2>8, <3>2 DEF FetchPullRequest
  <2>9. ASSUME NEW j \in Jobs, ResolveResume(j) PROVE SoleInv(m)'
    <3>1. PICK base :
            /\ base \in PreviousShas(j) \/ base = None
            /\ Becomes(j, [job[j] EXCEPT !.base = base, !.phase = "review"])
      BY <2>9 DEF ResolveResume
    <3>2. job[j].phase = "resolve"
      BY <2>9 DEF ResolveResume
    <3>3. base # None => Covered(m, base)
      BY <2>a, <3>1, <3>2 DEF PreviousShas, LatestReviewedShas, SoleInv, SoleJob
    <3>4. /\ job'[j].prev = job[j].prev /\ job'[j].phase = "review"
          /\ job'[j].base = base
          /\ job'[j].target = job[j].target
      BY <2>0, <3>1 DEF Becomes, JobState, JobRecord
    <3>5. SoleJob(m, j)'
      BY <2>a, <2>9, <3>2, <3>3, <3>4 DEF ResolveResume, SoleJob, Covered
    <3> QED
      BY <2>b, <2>9, <3>1, <3>5 DEF ResolveResume
  <2>10. ASSUME NEW j \in Jobs, ExecuteReview(j) PROVE SoleInv(m)'
    <3>1. PICK dir : Becomes(j, [job[j] EXCEPT !.phase = "post", !.dir = dir])
      BY <2>10 DEF ExecuteReview
    <3>2. /\ job'[j].prev = job[j].prev /\ job'[j].phase = "post"
          /\ job'[j].base = job[j].base
          /\ job'[j].target = job[j].target
      BY <2>0, <3>1 DEF Becomes, JobState, JobRecord
    <3>3. SoleJob(m, j)'
      BY <2>a, <2>10, <3>2 DEF ExecuteReview, SoleJob, Covered
    <3> QED
      BY <2>b, <2>10, <3>1, <3>3 DEF ExecuteReview
  <2>11. ASSUME NEW j \in Jobs, PostResults(j) PROVE SoleInv(m)'
    <3>1. /\ job'[j].prev = job[j].prev /\ job'[j].phase = "delete"
          /\ job'[j].base = job[j].base
          /\ job'[j].target = job[j].target /\ job'[j].dry = job[j].dry
      BY <2>0, <2>11 DEF PostResults, Becomes, JobState, JobRecord
    <3>2. job[j].phase = "post" /\ Model(j) = m
      BY <2>0, <2>11, SoleModel DEF PostResults
    <3>3. /\ posted[m] \subseteq posted'[m] /\ unread[m] \subseteq unread'[m]
          /\ ~job[j].dry => Scope(j) \subseteq posted'[m] /\ Unread(j) \subseteq unread'[m]
      BY <2>0, <2>11, <3>2 DEF PostResults
    <3>4. ~job[j].dry => Covered(m, job[j].target)'
      BY <2>a, <3>1, <3>2, <3>3 DEF SoleJob, Scope, Unread, Covered
    <3>5. SoleJob(m, j)'
      BY <2>a, <3>1, <3>2, <3>3, <3>4 DEF SoleJob, Covered
    <3> QED
      BY <2>b, <2>11, <3>3, <3>5 DEF PostResults
  <2>12. ASSUME NEW j \in Jobs, DeletePriorSummary(j) PROVE SoleInv(m)'
    <3>1. /\ job'[j].prev = job[j].prev /\ job'[j].phase = "create"
          /\ job'[j].base = job[j].base
          /\ job'[j].target = job[j].target /\ job'[j].dry = job[j].dry
      BY <2>0, <2>12 DEF DeletePriorSummary, Becomes, JobState, JobRecord
    <3>2. SoleJob(m, j)'
      BY <2>a, <2>12, <3>1 DEF DeletePriorSummary, SoleJob, Covered
    <3>3. comments' \subseteq comments
      BY <2>12 DEF DeletePriorSummary, Superseded
    <3> QED
      BY <2>b, <2>12, <3>2, <3>3 DEF DeletePriorSummary
  <2>13. ASSUME NEW j \in Jobs, CreateSummary(j) PROVE SoleInv(m)'
    <3>1. job[j].phase = "create" /\ Model(j) = m /\ ~(job[j].idx < Len(job[j].roster))
      BY <2>0, <2>13, SoleModel DEF CreateSummary
    <3>2. SoleJob(m, j)'
      <4>1. CASE job[j].kind = "action"
        <5>1. /\ job'[j].prev = job[j].prev /\ job'[j].phase = "save"
              /\ job'[j].base = None
              /\ job'[j].target = job[j].target
          BY <2>0, <2>13, <3>1, <4>1 DEF CreateSummary, AfterSummary, Becomes, JobState, JobRecord
        <5> QED
          BY <2>a, <2>13, <3>1, <5>1 DEF CreateSummary, SoleJob, Covered
      <4>2. CASE job[j].kind # "action"
        BY <2>0, <2>13, <3>1, <4>2
           DEF CreateSummary, AfterSummary, Becomes, IdleJob, SoleJob
      <4> QED
        BY <4>1, <4>2
    <3>3. \A c \in comments' : c \in comments \/ (c.model = m /\ Covered(m, c.sha)')
      BY <2>a, <2>13, <3>1 DEF CreateSummary, SoleJob, Covered
    <3> QED
      BY <2>b, <2>13, <3>2, <3>3 DEF CreateSummary
  <2>14. ASSUME NEW j \in Jobs, SaveCache(j) PROVE SoleInv(m)'
    <3>1. SoleJob(m, j)'
      BY <2>0, <2>14 DEF SaveCache, Becomes, SoleJob, IdleJob
    <3> QED
      BY <2>b, <2>14, <3>1 DEF SaveCache
  <2>15. CASE UNCHANGED vars
    BY <2>15 DEF SoleInv, SoleJob, Covered, vars
  <2> QED
    BY <2>1, <2>2, <2>3, <2>4, <2>5, <2>6, <2>7, <2>8, <2>9, <2>10, <2>11,
       <2>12, <2>13, <2>14, <2>15 DEF Next, JobStep
<1> QED
  BY <1>1, <1>2, TypeCorrect, PTL DEF Spec

(* The base of a resumed review is covered, the commits included that an   *)
(* earlier review of an older checkout was not shown.                      *)
ResumeBaseRead ==
  \A j \in Jobs :
    job[j].phase \in {"review", "post"} /\ job[j].base # None
      => Covered(Model(j), job[j].base)

(* With one model, jobs of the action and runs by hand, dry or not, on     *)
(* whatever checkout, publish only what was reviewed or was too new for the*)
(* checkout, and resume only from such a summary.                          *)
THEOREM SoleModelCovered ==
  ASSUME NEW m \in Models, Rosters \subseteq {<<m>>}, Legacy = {}
  PROVE  Spec => [](NoCommitSkipped /\ ResumeBaseRead)
<1>1. TypeOK /\ SoleInv(m) => NoCommitSkipped /\ ResumeBaseRead
  <2> SUFFICES ASSUME TypeOK, SoleInv(m) PROVE NoCommitSkipped /\ ResumeBaseRead
    OBVIOUS
  <2>1. NoCommitSkipped
    BY DEF SoleInv, NoCommitSkipped, Covered
  <2>2. ResumeBaseRead
    BY SoleModel DEF TypeOK, SoleInv, SoleJob, ResumeBaseRead
  <2> QED
    BY <2>1, <2>2
<1> QED
  BY <1>1, SoleInvariant, PTL

-----------------------------------------------------------------------------
(* One roster and fast-forward pushes, any number of jobs at once.         *)

(* Every model of the roster has posted its findings on the whole of c.    *)
AllPosted(R, c) == \A i \in DOMAIN R : Posted(R[i], c)

(* A job's checkout is its event's commit, and the head was pushed on top  *)
(* of it; a restored cache, and with it a base, is a commit that the whole *)
(* roster has posted on; the models before the job's current one have      *)
(* posted on its event's commit.                                           *)
RosterJob(R, j) ==
  job[j].phase # "idle" =>
    /\ job[j].kind = "action" /\ ~job[j].dry /\ job[j].roster = R
    /\ job[j].checkout = job[j].event
    /\ job[j].phase \in Window => job[j].event \in Ancestors[head] /\ job[j].idx = 1
    /\ job[j].phase \notin Window => job[j].event \in Ancestors[job[j].target]
    /\ job[j].phase = "prepare" => ~job[j].hit
    /\ job[j].hit => job[j].prev # None /\ AllPosted(R, job[j].prev)
    /\ job[j].base # None => AllPosted(R, job[j].base)
    /\ \A i \in DOMAIN R : i < job[j].idx => Posted(R[i], job[j].event)
    /\ job[j].phase \in {"delete", "create"}
         => Posted(R[job[j].idx], job[j].event) /\ Covered(R[job[j].idx], job[j].target)
    /\ job[j].phase = "save" => AllPosted(R, job[j].event)

RosterInv(R) ==
  /\ \A c \in comments : c.model \in Models => Covered(c.model, c.sha)
  /\ \A e \in caches : AllPosted(R, e.sha)
  /\ pending \subseteq Ancestors[head]
  /\ \A j \in Jobs : RosterJob(R, j)

(* History only grows.                                                     *)
HistoryGrows ==
  \A m \in Models : posted[m] \subseteq posted'[m] /\ unread[m] \subseteq unread'[m]

(* Steps that add findings keep whatever was covered, and a push on top of *)
(* the head whatever is true of a job that does not move.                  *)
LEMMA RosterJobStays ==
  ASSUME NEW R \in Seq(Models), job \in [Jobs -> JobState], NEW k \in Jobs,
         RosterJob(R, k), job'[k] = job[k], HistoryGrows,
         Ancestors[head] \subseteq Ancestors[head']
  PROVE  RosterJob(R, k)'
<1> SUFFICES ASSUME job[k].phase # "idle" PROVE RosterJob(R, k)'
  BY DEF RosterJob
<1>1. \A i \in DOMAIN R : R[i] \in Models
  OBVIOUS
<1>2. job[k].idx \in DOMAIN R
  BY DEF JobState, RosterJob
<1>3. /\ AllPosted(R, job[k].prev) => AllPosted(R, job[k].prev)'
      /\ AllPosted(R, job[k].base) => AllPosted(R, job[k].base)'
      /\ AllPosted(R, job[k].event) => AllPosted(R, job[k].event)'
      /\ \A i \in DOMAIN R : Posted(R[i], job[k].event) => Posted(R[i], job[k].event)'
      /\ \A i \in DOMAIN R : Covered(R[i], job[k].target) => Covered(R[i], job[k].target)'
  BY <1>1 DEF AllPosted, Posted, Covered, HistoryGrows
<1>4. job[k].phase \in {"delete", "create"}
        => Posted(R[job[k].idx], job[k].event)' /\ Covered(R[job[k].idx], job[k].target)'
  BY <1>2, <1>3 DEF RosterJob
<1> QED
  BY <1>1, <1>3, <1>4 DEF RosterJob

(* The model at work is the one the index names.                           *)
LEMMA RosterModel ==
  ASSUME NEW R \in Seq(Models), Rosters = {R}, job \in [Jobs -> JobState],
         NEW j \in Jobs, job[j].phase # "idle"
  PROVE  Model(j) = R[job[j].idx] /\ job[j].idx \in DOMAIN R
  BY DEF JobState, Model

(* What no step of a running job changes.                                  *)
SameBut(j, phase) ==
  /\ job'[j].phase = phase
  /\ job'[j].kind = job[j].kind /\ job'[j].dry = job[j].dry
  /\ job'[j].roster = job[j].roster /\ job'[j].event = job[j].event
  /\ job'[j].checkout = job[j].checkout

(* One roster: the event of a job is an ancestor of the head it publishes  *)
(* for, so whether a model resumed or not, it has posted on the event's    *)
(* commit, under which the job saves its cache.                            *)
THEOREM RosterInvariant ==
  ASSUME NEW R, Rosters = {R}, DryRuns = {FALSE}, Kinds = {"action"},
         \A move \in HeadMoves : move[1] \in Ancestors[move[2]]
  PROVE  Spec => [](TypeOK /\ RosterInv(R))
<1>0. R \in Seq(Models) /\ \A i \in DOMAIN R : R[i] \in Models
  BY ConfigAssumption
<1>1. Init => RosterInv(R)
  BY CommitsAssumption, AncestorsAssumption, ConfigAssumption
     DEF Init, RosterInv, RosterJob, IdleJob
<1>2. TypeOK /\ RosterInv(R) /\ [Next]_vars => RosterInv(R)'
  <2> SUFFICES ASSUME TypeOK, RosterInv(R), [Next]_vars PROVE RosterInv(R)'
    OBVIOUS
  <2>0. /\ job \in [Jobs -> JobState]
        /\ \A j \in Jobs : job[j] \in JobState
        /\ posted \in [Models -> SUBSET Commits] /\ unread \in [Models -> SUBSET Commits]
        /\ head \in Commits
    BY DEF TypeOK
  <2>a. \A k \in Jobs : RosterJob(R, k)
    BY DEF RosterInv
  (* A step of job j alone, which adds findings at most, publishes and     *)
  (* caches nothing that is not covered, and leaves or takes the event.    *)
  <2>b. ASSUME NEW j \in Jobs, NEW r, Becomes(j, r), head' = head,
               pending' \subseteq pending, HistoryGrows,
               \A c \in comments' : c \in comments \/ (c.model \in Models => Covered(c.model, c.sha)'),
               \A e \in caches' : e \in caches \/ AllPosted(R, e.sha),
               RosterJob(R, j)'
        PROVE  RosterInv(R)'
    <3>1. \A k \in Jobs : k # j => job'[k] = job[k]
      BY <2>0, <2>b DEF Becomes
    <3>2. \A k \in Jobs : RosterJob(R, k)'
      BY <1>0, <2>0, <2>a, <2>b, <3>1, RosterJobStays
    <3>3. \A c \in comments' : c.model \in Models => Covered(c.model, c.sha)'
      BY <2>b DEF RosterInv, Covered, HistoryGrows
    <3>4. \A e \in caches' : AllPosted(R, e.sha)'
      BY <1>0, <2>b DEF RosterInv, AllPosted, Posted, HistoryGrows
    <3>5. pending' \subseteq Ancestors[head']
      BY <2>b DEF RosterInv
    <3> QED
      BY <3>2, <3>3, <3>4, <3>5 DEF RosterInv
  <2>1. ASSUME NEW c \in Commits, PushHead(c) PROVE RosterInv(R)'
    <3>1. Ancestors[head] \subseteq Ancestors[c] /\ c \in Ancestors[c]
      BY <2>0, <2>1, AncestorsAssumption DEF PushHead
    <3>2. \A k \in Jobs : RosterJob(R, k)'
      BY <1>0, <2>0, <2>a, <2>1, <3>1, RosterJobStays DEF PushHead, HistoryGrows
    <3>3. pending' \subseteq Ancestors[head']
      BY <2>1, <3>1 DEF PushHead, RosterInv
    <3>4. /\ \A d \in comments' : d.model \in Models => Covered(d.model, d.sha)'
          /\ \A e \in caches' : AllPosted(R, e.sha)'
      BY <2>1 DEF PushHead, RosterInv, AllPosted, Posted, Covered
    <3> QED
      BY <3>2, <3>3, <3>4 DEF RosterInv
  <2>2. CASE Retrigger
    <3>1. head \in Ancestors[head]
      BY <2>0, AncestorsAssumption
    <3> QED
      BY <2>2, <3>1 DEF Retrigger, RosterInv, RosterJob, AllPosted, Posted, Covered
  <2>3. CASE EvictCache
    BY <2>3 DEF EvictCache, RosterInv, RosterJob, AllPosted, Posted, Covered
  <2>4. ASSUME NEW j \in Jobs, StartAction(j) PROVE RosterInv(R)'
    <3>1. PICK event \in pending :
            /\ Start(j, "action", R, FALSE, event, event)
            /\ pending' = pending \ {event}
      BY <2>4 DEF StartAction
    <3>2. PICK tip :
            Becomes(j, [phase |-> "prepare",
                        kind |-> "action", roster |-> R, dry |-> FALSE, event |-> event,
                        checkout |-> event, tip |-> tip, prev |-> None, hit |-> FALSE,
                        target |-> None, idx |-> 1, base |-> None, dir |-> NoThreads])
      BY <3>1 DEF Start
    <3> DEFINE r == [phase |-> "prepare",
                     kind |-> "action", roster |-> R, dry |-> FALSE, event |-> event,
                     checkout |-> event, tip |-> tip, prev |-> None, hit |-> FALSE,
                     target |-> None, idx |-> 1, base |-> None, dir |-> NoThreads]
    <3>3. /\ Becomes(j, r) /\ job'[j] = r
          /\ UNCHANGED <<head, comments, caches, posted, unread>>
      BY <2>0, <3>1, <3>2 DEF Start, Becomes
    <3>4. /\ r.kind = "action" /\ r.dry = FALSE /\ r.roster = R /\ r.event = event
          /\ r.checkout = event /\ r.idx = 1 /\ r.phase = "prepare"
          /\ r.hit = FALSE /\ r.base = None
      OBVIOUS
    <3>5. event \in Ancestors[head]
      BY DEF RosterInv
    <3> HIDE DEF r
    <3>6. RosterJob(R, j)'
      BY <1>0, <3>3, <3>4, <3>5 DEF RosterJob, Window
    <3> QED
      BY <2>b, <3>1, <3>3, <3>6 DEF HistoryGrows
  <2>5. ASSUME NEW j \in Jobs, StartLocal(j) PROVE RosterInv(R)'
    BY <2>5 DEF StartLocal
  <2>6. ASSUME NEW j \in Jobs, AbortJob(j) PROVE RosterInv(R)'
    <3>1. RosterJob(R, j)'
      BY <2>0, <2>6 DEF AbortJob, Becomes, RosterJob, IdleJob
    <3> QED
      BY <2>b, <2>6, <3>1 DEF AbortJob, HistoryGrows
  <2>7. ASSUME NEW j \in Jobs, Prepare(j) PROVE RosterInv(R)'
    <3>1. PICK sha \in Commits \cup {None} :
            Becomes(j, [job[j] EXCEPT !.prev = sha, !.phase = "restore"])
      BY <2>7 DEF Prepare
    <3>2. /\ job'[j].prev = sha /\ job'[j].phase = "restore"
          /\ SameBut(j, "restore") /\ job'[j].hit = job[j].hit
          /\ job'[j].target = job[j].target /\ job'[j].base = job[j].base
          /\ job'[j].idx = job[j].idx
      BY <2>0, <3>1 DEF SameBut, Becomes, JobState, JobRecord
    <3>3. RosterJob(R, j)'
      BY <2>a, <2>7, <3>2 DEF Prepare, SameBut, RosterJob, Window, Covered, Posted, AllPosted
    <3> QED
      BY <2>b, <2>7, <3>1, <3>3 DEF Prepare, HistoryGrows
  <2>8. ASSUME NEW j \in Jobs, RestoreCache(j) PROVE RosterInv(R)'
    <3>1. PICK hit, dir :
            /\ Becomes(j, [job[j] EXCEPT !.hit = hit, !.dir = dir, !.phase = "fetch"])
            /\ hit = job[j].hit \/ \E e \in caches : e.sha = job[j].prev
      <4>1. CASE Becomes(j, [job[j] EXCEPT !.phase = "fetch"])
        <5>1. [job[j] EXCEPT !.phase = "fetch"]
                = [job[j] EXCEPT !.hit = job[j].hit, !.dir = job[j].dir, !.phase = "fetch"]
          BY <2>0 DEF JobState, JobRecord
        <5> QED
          BY <4>1, <5>1
      <4> QED
        BY <2>8, <4>1 DEF RestoreCache
    <3>2. /\ job'[j].phase = "fetch" /\ job'[j].hit = hit
          /\ SameBut(j, "fetch") /\ job'[j].prev = job[j].prev
          /\ job'[j].target = job[j].target /\ job'[j].base = job[j].base
          /\ job'[j].idx = job[j].idx
      BY <2>0, <3>1 DEF SameBut, Becomes, JobState, JobRecord
    <3>3. job[j].phase = "restore" /\ UNCHANGED <<head, pending, comments, caches, posted, unread>>
      BY <2>8 DEF RestoreCache
    <3>4. hit => job[j].prev # None /\ AllPosted(R, job[j].prev)
      <4>1. \A e \in caches : e.sha # None /\ AllPosted(R, e.sha)
        BY CommitsAssumption DEF RosterInv, TypeOK
      <4> QED
        BY <2>a, <3>1, <3>3, <4>1 DEF RosterJob
    <3>5. RosterJob(R, j)'
      BY <2>a, <3>2, <3>3, <3>4 DEF SameBut, RosterJob, Window, Covered, Posted, AllPosted
    <3> QED
      BY <2>b, <3>1, <3>3, <3>5 DEF HistoryGrows
  <2>9. ASSUME NEW j \in Jobs, FetchPullRequest(j) PROVE RosterInv(R)'
    <3>1. /\ job'[j].phase = "resolve" /\ job'[j].target = head
          /\ SameBut(j, "resolve") /\ job'[j].prev = job[j].prev
          /\ job'[j].hit = job[j].hit /\ job'[j].base = job[j].base
          /\ job'[j].idx = job[j].idx
      BY <2>0, <2>9 DEF FetchPullRequest, SameBut, Becomes, JobState, JobRecord
    <3>2. RosterJob(R, j)'
      BY <1>0, <2>a, <2>9, <3>1
         DEF FetchPullRequest, SameBut, RosterJob, Window, Covered, Posted, AllPosted
    <3> QED
      BY <2>b, <2>9, <3>2 DEF FetchPullRequest, HistoryGrows
  <2>10. ASSUME NEW j \in Jobs, ResolveResume(j) PROVE RosterInv(R)'
    <3>1. job[j].phase = "resolve" /\ UNCHANGED <<head, pending, comments, caches, posted, unread>>
      BY <2>10 DEF ResolveResume
    <3>2. PICK base :
            /\ base = None \/ (base \in PreviousShas(j) /\ CanResume(j, base))
            /\ Becomes(j, [job[j] EXCEPT !.base = base, !.phase = "review"])
      BY <2>10 DEF ResolveResume
    <3>3. base # None => AllPosted(R, base)
      BY <2>a, <3>1, <3>2 DEF PreviousShas, CanResume, RosterJob
    <3>4. /\ job'[j].phase = "review" /\ job'[j].base = base
          /\ SameBut(j, "review") /\ job'[j].prev = job[j].prev
          /\ job'[j].hit = job[j].hit /\ job'[j].target = job[j].target
          /\ job'[j].idx = job[j].idx
      BY <2>0, <3>2 DEF SameBut, Becomes, JobState, JobRecord
    <3>5. RosterJob(R, j)'
      BY <2>a, <3>1, <3>3, <3>4 DEF SameBut, RosterJob, Window, Covered, Posted, AllPosted
    <3> QED
      BY <2>b, <3>1, <3>2, <3>5 DEF HistoryGrows
  <2>11. ASSUME NEW j \in Jobs, ExecuteReview(j) PROVE RosterInv(R)'
    <3>1. job[j].phase = "review" /\ UNCHANGED <<head, pending, comments, caches, posted, unread>>
      BY <2>11 DEF ExecuteReview
    <3>2. PICK dir : Becomes(j, [job[j] EXCEPT !.phase = "post", !.dir = dir])
      BY <2>11 DEF ExecuteReview
    <3>3. /\ job'[j].phase = "post" /\ job'[j].base = job[j].base
          /\ SameBut(j, "post") /\ job'[j].prev = job[j].prev
          /\ job'[j].hit = job[j].hit /\ job'[j].target = job[j].target
          /\ job'[j].idx = job[j].idx
      BY <2>0, <3>2 DEF SameBut, Becomes, JobState, JobRecord
    <3>4. RosterJob(R, j)'
      BY <2>a, <3>1, <3>3 DEF SameBut, RosterJob, Window, Covered, Posted, AllPosted
    <3> QED
      BY <2>b, <3>1, <3>2, <3>4 DEF HistoryGrows
  <2>12. ASSUME NEW j \in Jobs, PostResults(j) PROVE RosterInv(R)'
    <3>1. /\ job[j].phase = "post" /\ UNCHANGED <<head, pending, comments, caches>>
          /\ Model(j) = R[job[j].idx] /\ job[j].idx \in DOMAIN R /\ Model(j) \in Models
      BY <1>0, <2>0, <2>12, RosterModel DEF PostResults
    <3>2. /\ job'[j].phase = "delete" /\ job'[j].base = job[j].base
          /\ SameBut(j, "delete") /\ job'[j].prev = job[j].prev
          /\ job'[j].hit = job[j].hit /\ job'[j].target = job[j].target
          /\ job'[j].idx = job[j].idx
      BY <2>0, <2>12 DEF PostResults, SameBut, Becomes, JobState, JobRecord
    <3>3. /\ HistoryGrows
          /\ Scope(j) \subseteq posted'[Model(j)] /\ Unread(j) \subseteq unread'[Model(j)]
      BY <2>0, <2>a, <2>12, <3>1 DEF PostResults, RosterJob, HistoryGrows
    <3>4. Ancestors[job[j].event] \subseteq Ancestors[job[j].target]
      <4>1. /\ job[j].event \in Ancestors[job[j].target]
            /\ job[j].event \in Commits /\ job[j].target \in Commits
        BY <2>0, <2>a, <3>1 DEF RosterJob, JobState, Window
      <4> QED
        BY <4>1, AncestorsAssumption
    (* A resumed model has now posted on the whole head, another one on its  *)
    (* checkout, and the rest of the head is what it was not shown.          *)
    <3>5. Posted(R[job[j].idx], job[j].event)' /\ Covered(R[job[j].idx], job[j].target)'
      <4>1. CASE job[j].base # None
        <5>1. Ancestors[job[j].base] \subseteq posted'[Model(j)]
          BY <2>a, <3>1, <3>3, <4>1 DEF RosterJob, AllPosted, Posted, HistoryGrows
        <5>2. Ancestors[job[j].target] \subseteq posted'[Model(j)]
          BY <3>3, <4>1, <5>1 DEF Scope
        <5> QED
          BY <3>1, <3>2, <3>4, <5>2 DEF Posted, Covered, SameBut
      <4>2. CASE job[j].base = None
        <5>1. job[j].checkout = job[j].event
          BY <2>a, <3>1 DEF RosterJob
        <5> QED
          BY <3>1, <3>2, <3>3, <4>2, <5>1 DEF Scope, Unread, Posted, Covered, SameBut
      <4> QED
        BY <4>1, <4>2
    <3>6. \A c : \A i \in DOMAIN R : Posted(R[i], c) => Ancestors[c] \subseteq posted'[R[i]]
      BY <1>0, <3>3 DEF Posted, HistoryGrows
    <3>7. RosterJob(R, j)'
      BY <2>a, <3>1, <3>2, <3>5, <3>6 DEF SameBut, RosterJob, Window, Posted, Covered, AllPosted
    <3> QED
      BY <2>b, <2>12, <3>1, <3>3, <3>7 DEF PostResults
  <2>13. ASSUME NEW j \in Jobs, DeletePriorSummary(j) PROVE RosterInv(R)'
    <3>1. /\ job[j].phase = "delete" /\ UNCHANGED <<head, pending, caches, posted, unread>>
          /\ comments' \subseteq comments
      BY <2>13 DEF DeletePriorSummary, Superseded
    <3>2. /\ job'[j].phase = "create" /\ job'[j].base = job[j].base
          /\ SameBut(j, "create") /\ job'[j].prev = job[j].prev
          /\ job'[j].hit = job[j].hit /\ job'[j].target = job[j].target
          /\ job'[j].idx = job[j].idx
      BY <2>0, <2>13 DEF DeletePriorSummary, SameBut, Becomes, JobState, JobRecord
    <3>3. RosterJob(R, j)'
      BY <2>a, <3>1, <3>2 DEF SameBut, RosterJob, Window, Covered, Posted, AllPosted
    <3> QED
      BY <2>b, <2>13, <3>1, <3>3 DEF DeletePriorSummary, HistoryGrows
  <2>14. ASSUME NEW j \in Jobs, CreateSummary(j) PROVE RosterInv(R)'
    <3>1. /\ job[j].phase = "create" /\ UNCHANGED <<head, pending, caches, posted, unread>>
          /\ Model(j) = R[job[j].idx] /\ job[j].idx \in DOMAIN R /\ job[j].roster = R
          /\ job[j].kind = "action"
      BY <1>0, <2>0, <2>a, <2>14, RosterModel DEF CreateSummary, RosterJob
    <3>2. Posted(Model(j), job[j].event) /\ Covered(Model(j), job[j].target)
      BY <2>a, <3>1 DEF RosterJob
    <3>3. Becomes(j, AfterSummary(j))
      BY <2>14 DEF CreateSummary
    <3>4. RosterJob(R, j)'
      <4>1. CASE job[j].idx < Len(R)
        <5>1. /\ job'[j].phase = "resolve" /\ job'[j].base = None
              /\ SameBut(j, "resolve") /\ job'[j].prev = job[j].prev
              /\ job'[j].hit = job[j].hit /\ job'[j].target = job[j].target
              /\ job'[j].idx = job[j].idx + 1
          BY <2>0, <3>1, <3>3, <4>1 DEF AfterSummary, SameBut, Becomes, JobState, JobRecord
        <5>2. \A i \in DOMAIN R : i < job[j].idx + 1 => i < job[j].idx \/ i = job[j].idx
          BY <1>0, <3>1
        <5>3. \A i \in DOMAIN R : i < job[j].idx + 1 => Posted(R[i], job[j].event)
          BY <2>a, <3>1, <3>2, <5>2 DEF RosterJob
        <5> QED
          BY <2>a, <3>1, <5>1, <5>3 DEF SameBut, RosterJob, Window, Covered, Posted, AllPosted
      <4>2. CASE ~(job[j].idx < Len(R))
        <5>1. /\ job'[j].phase = "save" /\ job'[j].base = None
              /\ SameBut(j, "save") /\ job'[j].prev = job[j].prev
              /\ job'[j].hit = job[j].hit /\ job'[j].target = job[j].target
              /\ job'[j].idx = job[j].idx
          BY <2>0, <3>1, <3>3, <4>2 DEF AfterSummary, SameBut, Becomes, JobState, JobRecord
        <5>2. \A i \in DOMAIN R : i < job[j].idx \/ i = job[j].idx
          BY <1>0, <3>1, <4>2
        <5>3. AllPosted(R, job[j].event)
          BY <2>a, <3>1, <3>2, <5>2 DEF RosterJob, AllPosted
        <5> QED
          BY <2>a, <3>1, <5>1, <5>3 DEF SameBut, RosterJob, Window, Covered, Posted, AllPosted
      <4> QED
        BY <4>1, <4>2
    <3>5. \A c \in comments' : c \in comments \/ (c.model \in Models => Covered(c.model, c.sha)')
      BY <2>14, <3>1, <3>2 DEF CreateSummary, Covered
    <3> QED
      BY <2>b, <3>1, <3>3, <3>4, <3>5 DEF HistoryGrows
  <2>15. ASSUME NEW j \in Jobs, SaveCache(j) PROVE RosterInv(R)'
    <3>1. job[j].phase = "save"
      BY <2>15 DEF SaveCache
    <3>2. AllPosted(R, job[j].event)
      BY <2>a, <3>1 DEF RosterJob
    <3>3. \A e \in caches' : e \in caches \/ AllPosted(R, e.sha)
      BY <2>15, <3>2 DEF SaveCache
    <3>4. RosterJob(R, j)'
      BY <2>0, <2>15 DEF SaveCache, Becomes, RosterJob, IdleJob
    <3> QED
      BY <2>b, <2>15, <3>3, <3>4 DEF SaveCache, HistoryGrows
  <2>16. CASE UNCHANGED vars
    BY <2>16 DEF RosterInv, RosterJob, AllPosted, Posted, Covered, vars
  <2> QED
    BY <2>1, <2>2, <2>3, <2>4, <2>5, <2>6, <2>7, <2>8, <2>9, <2>10, <2>11,
       <2>12, <2>13, <2>14, <2>15, <2>16 DEF Next, JobStep
<1> QED
  BY <1>1, <1>2, TypeCorrect, PTL DEF Spec

(* With one roster and fast-forward pushes, any number of concurrent jobs, *)
(* however late they start and failing anywhere, publishes only what was   *)
(* reviewed or was too new for the checkout, and resumes only from what was*)
(* reviewed.                                                               *)
THEOREM RosterCovered ==
  ASSUME NEW R, Rosters = {R}, DryRuns = {FALSE}, Kinds = {"action"},
         \A move \in HeadMoves : move[1] \in Ancestors[move[2]]
  PROVE  Spec => [](NoCommitSkipped /\ ResumeBaseCovered)
<1>1. TypeOK /\ RosterInv(R) => NoCommitSkipped /\ ResumeBaseCovered
  <2> SUFFICES ASSUME TypeOK, RosterInv(R) PROVE NoCommitSkipped /\ ResumeBaseCovered
    OBVIOUS
  <2>1. NoCommitSkipped
    BY DEF RosterInv, NoCommitSkipped, Covered
  <2>2. ASSUME NEW j \in Jobs, job[j].phase \in {"review", "post"}, job[j].base # None
        PROVE  Ancestors[job[j].base] \subseteq posted[Model(j)]
    <3>1. R \in Seq(Models)
      BY ConfigAssumption
    <3>2. Model(j) = R[job[j].idx] /\ job[j].idx \in DOMAIN R
      BY <2>2, <3>1, RosterModel DEF TypeOK
    <3>3. AllPosted(R, job[j].base)
      BY <2>2 DEF RosterInv, RosterJob
    <3> QED
      BY <3>2, <3>3 DEF AllPosted, Posted
  <2> QED
    BY <2>1, <2>2 DEF ResumeBaseCovered
<1> QED
  BY <1>1, RosterInvariant, PTL

-----------------------------------------------------------------------------
(* The detailed specification implements the abstract one.                 *)

Published == {<<c.model, c.sha>> : c \in {d \in comments : d.model \in Models}}

(* A summary that is about to be published is covered.                     *)
PublishCovered ==
  \A j \in Jobs : job[j].phase = "create" /\ ~job[j].dry => Covered(Model(j), job[j].target)

(* Nothing is posted or published before the first job.                    *)
LEMMA InitRefines == Init => Coverage!Init
  BY ConfigAssumption DEF Init, Coverage!Init, NoThreads

(* Every step posts, withdraws or publishes, or changes neither.           *)
LEMMA StepRefines ==
  ASSUME TypeOK, PublishCovered, [Next]_vars
  PROVE  [Coverage!Next]_<<posted, unread, Published>>
<1>0. /\ job \in [Jobs -> JobState]
      /\ posted \in [Models -> SUBSET Commits] /\ unread \in [Models -> SUBSET Commits]
      /\ comments \subseteq Summary
  BY DEF TypeOK
<1>1. CASE UNCHANGED <<posted, unread, comments>>
  BY <1>1 DEF Published
<1>2. ASSUME NEW j \in Jobs, PostResults(j)
      PROVE  [Coverage!Next]_<<posted, unread, Published>>
  <2>1. /\ Model(j) \in Models
        /\ Scope(j) \in SUBSET Commits /\ Unread(j) \in SUBSET Commits
    BY <1>0, <1>2, ModelType, ScopeType, UnreadType DEF PostResults
  <2>2. CASE job[j].dry
    BY <1>1, <1>2, <2>2 DEF PostResults
  <2>3. CASE ~job[j].dry
    <3>1. Coverage!Post(Model(j), Scope(j), Unread(j))
      BY <1>2, <2>3 DEF PostResults, Coverage!Post
    <3> QED
      BY <2>1, <3>1 DEF Coverage!Next
  <2> QED
    BY <2>2, <2>3
<1>3. ASSUME NEW j \in Jobs, DeletePriorSummary(j)
      PROVE  [Coverage!Next]_<<posted, unread, Published>>
  <2>1. Model(j) \in Models
    BY <1>0, <1>3, ModelType DEF DeletePriorSummary
  <2> DEFINE S == {c \in Commits : <<Model(j), c>> \notin Published'}
  <2>2. /\ comments' \subseteq comments
        /\ \A c \in comments : c.model \notin {Model(j), NoModel} => c \in comments'
    BY <1>3 DEF DeletePriorSummary, Superseded
  <2>3. Published' = Published \ {<<Model(j), c>> : c \in S}
    <3>1. Published' \subseteq Published
      BY <2>2 DEF Published
    <3>2. ASSUME NEW p \in Published, p \notin Published'
          PROVE  \E c \in S : p = <<Model(j), c>>
      <4>1. PICK c \in comments : c.model \in Models /\ p = <<c.model, c.sha>>
        BY DEF Published
      <4>2. c.model = Model(j)
        <5>1. c \notin comments'
          BY <3>2, <4>1 DEF Published
        <5> QED
          BY <2>2, <4>1, <5>1, ConfigAssumption
      <4>3. c.sha \in Commits
        BY <1>0, <4>1 DEF Summary
      <4> QED
        BY <3>2, <4>1, <4>2, <4>3
    <3>3. \A c \in S : <<Model(j), c>> \notin Published'
      OBVIOUS
    <3> HIDE DEF S
    <3> QED
      BY <3>1, <3>2, <3>3
  <2>4. S \in SUBSET Commits
    OBVIOUS
  <2> HIDE DEF S
  <2>5. Coverage!Withdraw(Model(j), S)
    BY <1>3, <2>3 DEF DeletePriorSummary, Coverage!Withdraw, Published
  <2>6. \E m \in Models, T \in SUBSET Commits : Coverage!Withdraw(m, T)
    BY <2>1, <2>4, <2>5 DEF Coverage!Withdraw
  <2> QED
    BY <2>6 DEF Coverage!Next
<1>4. ASSUME NEW j \in Jobs, CreateSummary(j)
      PROVE  [Coverage!Next]_<<posted, unread, Published>>
  <2>1. Model(j) \in Models /\ job[j].target \in Commits
    BY <1>0, <1>4, ModelType DEF CreateSummary, JobState, Window
  <2>2. CASE job[j].dry
    BY <1>1, <1>4, <2>2 DEF CreateSummary
  <2>3. CASE ~job[j].dry
    <3>1. Ancestors[job[j].target] \subseteq posted[Model(j)] \cup unread[Model(j)]
      BY <1>4, <2>3 DEF PublishCovered, Covered, CreateSummary
    <3> DEFINE s == [model |-> Model(j), sha |-> job[j].target, at |-> clock + 1]
    <3>2. s.model = Model(j) /\ s.sha = job[j].target
      OBVIOUS
    <3>3. comments' = comments \cup {s}
      BY <1>4, <2>3 DEF CreateSummary
    <3> HIDE DEF s
    <3>4. Published' = Published \cup {<<Model(j), job[j].target>>}
      BY <2>1, <3>2, <3>3 DEF Published
    <3>5. Coverage!Publish(Model(j), job[j].target)
      BY <1>4, <3>1, <3>4 DEF CreateSummary, Coverage!Publish, Published
    <3>6. \E m \in Models, c \in Commits : Coverage!Publish(m, c)
      BY <2>1, <3>5 DEF Coverage!Publish
    <3> QED
      BY <3>6 DEF Coverage!Next
  <2> QED
    BY <2>2, <2>3
<1>5. \/ UNCHANGED <<posted, unread, comments>>
      \/ \E j \in Jobs : PostResults(j) \/ DeletePriorSummary(j) \/ CreateSummary(j)
  BY DEF Next, JobStep, vars, PushHead, Retrigger, EvictCache, StartAction, StartLocal,
         Start, AbortJob, Prepare, RestoreCache, FetchPullRequest, ResolveResume,
         ExecuteReview, SaveCache
<1> QED
  BY <1>1, <1>2, <1>3, <1>4, <1>5

(* The jobs of one roster implement CommitCoverage.                        *)
THEOREM RosterImplementsCoverage ==
  ASSUME NEW R, Rosters = {R}, DryRuns = {FALSE}, Kinds = {"action"},
         \A move \in HeadMoves : move[1] \in Ancestors[move[2]]
  PROVE  Spec => CoverageSpec
<1>1. TypeOK /\ RosterInv(R) => PublishCovered
  <2> SUFFICES ASSUME TypeOK, RosterInv(R), NEW j \in Jobs, job[j].phase = "create"
               PROVE  Covered(Model(j), job[j].target)
    BY DEF PublishCovered
  <2>1. R \in Seq(Models) /\ Model(j) = R[job[j].idx]
    BY RosterModel, ConfigAssumption DEF TypeOK
  <2> QED
    BY <2>1 DEF RosterInv, RosterJob
<1>2. TypeOK /\ RosterInv(R) /\ [Next]_vars => [Coverage!Next]_<<posted, unread, Published>>
  BY <1>1, StepRefines
<1> QED
  BY <1>2, InitRefines, RosterInvariant, PTL DEF Spec, CoverageSpec, Coverage!Spec, Published

(* The jobs and local runs of one model implement CommitCoverage.          *)
THEOREM SoleModelImplementsCoverage ==
  ASSUME NEW m \in Models, Rosters \subseteq {<<m>>}, Legacy = {}
  PROVE  Spec => CoverageSpec
<1>1. TypeOK /\ SoleInv(m) => PublishCovered
  BY SoleModel DEF TypeOK, PublishCovered, SoleInv, SoleJob
<1>2. TypeOK /\ SoleInv(m) /\ [Next]_vars => [Coverage!Next]_<<posted, unread, Published>>
  BY <1>1, StepRefines
<1> QED
  BY <1>2, InitRefines, SoleInvariant, PTL DEF Spec, CoverageSpec, Coverage!Spec, Published

-----------------------------------------------------------------------------
(* One summary per model.                                                  *)

(* A job that is about to create a summary has removed the older ones.     *)
ReplaceInv ==
  /\ OneSummaryPerModel
  /\ \A j \in Jobs : job[j].phase = "create" /\ ~job[j].dry
       => \A c \in comments : c.model # Model(j)

(* One job at a time whose deletions succeed replaces a model's summary by *)
(* exactly one, wherever it is cut short.                                  *)
THEOREM SummaryReplaced ==
  ASSUME NEW only, Jobs = {only}, "delete" \notin Faults
  PROVE  Spec => []OneSummaryPerModel
<1>1. Init => ReplaceInv
  BY DEF Init, ReplaceInv, OneSummaryPerModel, IdleJob
<1>2. TypeOK /\ ReplaceInv /\ [Next]_vars => ReplaceInv'
  <2> SUFFICES ASSUME TypeOK, ReplaceInv, [Next]_vars PROVE ReplaceInv'
    OBVIOUS
  <2>0. job \in [Jobs -> JobState] /\ only \in Jobs /\ \A j \in Jobs : j = only
    BY DEF TypeOK
  <2>1. CASE UNCHANGED <<job, comments>>
    BY <2>1 DEF ReplaceInv, OneSummaryPerModel, Model
  <2>2. ASSUME UNCHANGED comments, job'[only].phase # "create" PROVE ReplaceInv'
    BY <2>0, <2>2 DEF ReplaceInv, OneSummaryPerModel
  <2>3. CASE DeletePriorSummary(only)
    <3>1. job'[only].dry = job[only].dry /\ Model(only)' = Model(only)
      BY <2>0, <2>3 DEF DeletePriorSummary, Becomes, Model, JobState, JobRecord
    <3>2. /\ comments' \subseteq comments
          /\ ~job[only].dry => comments' = comments \ Superseded(only)
      BY <2>3 DEF DeletePriorSummary, Superseded
    <3>3. ~job[only].dry => \A c \in comments' : c.model # Model(only)
      BY <3>2 DEF Superseded
    <3> QED
      BY <2>0, <3>1, <3>2, <3>3 DEF ReplaceInv, OneSummaryPerModel
  <2>4. CASE CreateSummary(only)
    <3>1. job[only].phase = "create" /\ job'[only] = AfterSummary(only)
      BY <2>0, <2>4 DEF CreateSummary, Becomes
    <3>2. job'[only].phase # "create"
      BY <2>0, <3>1 DEF AfterSummary, IdleJob, JobState, JobRecord
    <3>3. OneSummaryPerModel'
      <4>1. CASE job[only].dry
        BY <2>4, <4>1 DEF CreateSummary, ReplaceInv, OneSummaryPerModel
      <4>2. CASE ~job[only].dry
        <5> DEFINE s == [model |-> Model(only), sha |-> job[only].target, at |-> clock + 1]
        <5>1. s.model = Model(only) /\ comments' = comments \cup {s}
          BY <2>4, <4>2 DEF CreateSummary
        <5>2. \A c \in comments : c.model # Model(only)
          BY <2>0, <3>1, <4>2 DEF ReplaceInv
        <5> HIDE DEF s
        <5> QED
          BY <5>1, <5>2 DEF ReplaceInv, OneSummaryPerModel
      <4> QED
        BY <4>1, <4>2
    <3> QED
      BY <2>0, <3>2, <3>3 DEF ReplaceInv
  <2>5. ASSUME StartAction(only) \/ StartLocal(only) PROVE ReplaceInv'
    <3>1. PICK kind, roster, dry, event, checkout :
            Start(only, kind, roster, dry, event, checkout)
      BY <2>5 DEF StartAction, StartLocal
    <3> QED
      BY <2>0, <2>2, <3>1 DEF Start, Becomes
  <2>6. CASE AbortJob(only) \/ SaveCache(only)
    BY <2>0, <2>2, <2>6 DEF AbortJob, SaveCache, Becomes, IdleJob
  <2>7. CASE Prepare(only)
    BY <2>0, <2>2, <2>7 DEF Prepare, Becomes, JobState, JobRecord
  <2>8. CASE RestoreCache(only)
    BY <2>0, <2>2, <2>8 DEF RestoreCache, Becomes, JobState, JobRecord
  <2>9. CASE FetchPullRequest(only) \/ ResolveResume(only)
    BY <2>0, <2>2, <2>9 DEF FetchPullRequest, ResolveResume, Becomes, JobState, JobRecord
  <2>10. CASE ExecuteReview(only)
    <3>1. PICK dir : Becomes(only, [job[only] EXCEPT !.phase = "post", !.dir = dir])
      BY <2>10 DEF ExecuteReview
    <3>2. job'[only].phase = "post"
      BY <2>0, <3>1 DEF Becomes, JobState, JobRecord
    <3> QED
      BY <2>2, <2>10, <3>2 DEF ExecuteReview
  <2>11. CASE PostResults(only)
    BY <2>0, <2>2, <2>11 DEF PostResults, Becomes, JobState, JobRecord
  <2>12. ASSUME NEW c \in Commits, PushHead(c) PROVE ReplaceInv'
    BY <2>1, <2>12 DEF PushHead
  <2>13. CASE Retrigger \/ EvictCache \/ UNCHANGED vars
    BY <2>1, <2>13 DEF Retrigger, EvictCache, vars
  <2> QED
    BY <2>0, <2>3, <2>4, <2>5, <2>6, <2>7, <2>8, <2>9, <2>10, <2>11, <2>12, <2>13
       DEF Next, JobStep
<1>3. ReplaceInv => OneSummaryPerModel
  BY DEF ReplaceInv
<1> QED
  BY <1>1, <1>2, <1>3, TypeCorrect, PTL DEF Spec

-----------------------------------------------------------------------------
(* A resumed thread has been shown what its model is told to skip: with one*)
(* roster and fast-forward pushes the cache entry of a commit holds, for   *)
(* every model, a thread that knows that commit.                           *)

(* In a thread directory, the thread of model m has been shown all of c.   *)
Knows(dir, m, c) == Ancestors[c] \subseteq dir[m]

AllKnow(R, dir, c) == \A i \in DOMAIN R : Knows(dir, R[i], c)

(* A restored thread knows the previous SHA until its model has had its    *)
(* turn in this job, and the event's commit from then on.                  *)
ThreadJob(R, j) ==
  job[j].phase # "idle" =>
    /\ job[j].kind = "action" /\ job[j].roster = R
    /\ job[j].checkout = job[j].event
    /\ job[j].phase \in Window => job[j].event \in Ancestors[head] /\ job[j].idx = 1
    /\ job[j].phase \notin Window => job[j].event \in Ancestors[job[j].target]
    /\ job[j].phase = "prepare" => ~job[j].hit
    /\ job[j].hit => job[j].prev # None
    /\ job[j].hit => \A i \in DOMAIN R :
         \/ i > job[j].idx
         \/ i = job[j].idx /\ job[j].phase \in Window \cup {"resolve", "review"}
         => Knows(job[j].dir, R[i], job[j].prev)
    /\ job[j].phase = "review" /\ job[j].base # None
         => Knows(job[j].dir, R[job[j].idx], job[j].base)
    /\ \A i \in DOMAIN R : i < job[j].idx => Knows(job[j].dir, R[i], job[j].event)
    /\ job[j].phase \in {"post", "delete", "create"}
         => Knows(job[j].dir, R[job[j].idx], job[j].event)
    /\ job[j].phase = "save" => AllKnow(R, job[j].dir, job[j].event)

ThreadInv(R) ==
  /\ \A e \in caches : AllKnow(R, e.dir, e.sha)
  /\ pending \subseteq Ancestors[head]
  /\ \A j \in Jobs : ThreadJob(R, j)

(* A job that does not move keeps its threads.                             *)
LEMMA ThreadJobStays ==
  ASSUME NEW R, NEW k \in Jobs, ThreadJob(R, k), job'[k] = job[k],
         Ancestors[head] \subseteq Ancestors[head']
  PROVE  ThreadJob(R, k)'
  BY DEF ThreadJob, Knows, AllKnow

(* What a step that leaves the threads alone keeps as well.                *)
SameThreads(j, phase) ==
  /\ SameBut(j, phase)
  /\ job'[j].prev = job[j].prev /\ job'[j].hit = job[j].hit
  /\ job'[j].target = job[j].target /\ job'[j].dir = job[j].dir

(* The threads of a job, whatever pushes, other jobs and failures do.      *)
THEOREM ThreadInvariant ==
  ASSUME NEW R, Rosters = {R}, Kinds = {"action"},
         "thread" \notin Faults,
         \A move \in HeadMoves : move[1] \in Ancestors[move[2]]
  PROVE  Spec => [](TypeOK /\ ThreadInv(R))
<1>0. /\ R \in Seq(Models)
      /\ \A i \in DOMAIN R : R[i] \in Models
      /\ \A i, k \in DOMAIN R : R[i] = R[k] => i = k
  BY ConfigAssumption
<1>1. Init => ThreadInv(R)
  BY CommitsAssumption, AncestorsAssumption
     DEF Init, ThreadInv, ThreadJob, IdleJob
<1>2. TypeOK /\ ThreadInv(R) /\ [Next]_vars => ThreadInv(R)'
  <2> SUFFICES ASSUME TypeOK, ThreadInv(R), [Next]_vars PROVE ThreadInv(R)'
    OBVIOUS
  <2>0. /\ job \in [Jobs -> JobState]
        /\ \A j \in Jobs : job[j] \in JobState
        /\ head \in Commits
    BY DEF TypeOK
  <2>a. \A k \in Jobs : ThreadJob(R, k)
    BY DEF ThreadInv
  (* A step of job j alone that caches nothing its threads do not know.    *)
  <2>b. ASSUME NEW j \in Jobs, NEW r, Becomes(j, r), head' = head,
               pending' \subseteq pending,
               \A e \in caches' : e \in caches \/ AllKnow(R, e.dir, e.sha),
               ThreadJob(R, j)'
        PROVE  ThreadInv(R)'
    <3>1. \A k \in Jobs : k # j => job'[k] = job[k]
      BY <2>0, <2>b DEF Becomes
    <3>2. \A k \in Jobs : ThreadJob(R, k)'
      BY <2>a, <2>b, <3>1, ThreadJobStays
    <3>3. \A e \in caches' : AllKnow(R, e.dir, e.sha)'
      BY <2>b DEF ThreadInv, AllKnow, Knows
    <3>4. pending' \subseteq Ancestors[head']
      BY <2>b DEF ThreadInv
    <3> QED
      BY <3>2, <3>3, <3>4 DEF ThreadInv
  <2>1. ASSUME NEW c \in Commits, PushHead(c) PROVE ThreadInv(R)'
    <3>1. Ancestors[head] \subseteq Ancestors[c] /\ c \in Ancestors[c]
      BY <2>0, <2>1, AncestorsAssumption DEF PushHead
    <3>2. \A k \in Jobs : ThreadJob(R, k)'
      BY <2>a, <2>1, <3>1, ThreadJobStays DEF PushHead
    <3>3. pending' \subseteq Ancestors[head']
      BY <2>1, <3>1 DEF PushHead, ThreadInv
    <3>4. \A e \in caches' : AllKnow(R, e.dir, e.sha)'
      BY <2>1 DEF PushHead, ThreadInv, AllKnow, Knows
    <3> QED
      BY <3>2, <3>3, <3>4 DEF ThreadInv
  <2>2. CASE Retrigger
    <3>1. head \in Ancestors[head]
      BY <2>0, AncestorsAssumption
    <3> QED
      BY <2>2, <3>1 DEF Retrigger, ThreadInv, ThreadJob, AllKnow, Knows
  <2>3. CASE EvictCache
    BY <2>3 DEF EvictCache, ThreadInv, ThreadJob, AllKnow, Knows
  <2>4. ASSUME NEW j \in Jobs, StartAction(j) PROVE ThreadInv(R)'
    <3>1. PICK event \in pending, dry \in DryRuns :
            /\ Start(j, "action", R, dry, event, event)
            /\ pending' = pending \ {event}
      BY <2>4 DEF StartAction
    <3>2. PICK tip :
            Becomes(j, [phase |-> "prepare",
                        kind |-> "action", roster |-> R, dry |-> dry, event |-> event,
                        checkout |-> event, tip |-> tip, prev |-> None, hit |-> FALSE,
                        target |-> None, idx |-> 1, base |-> None, dir |-> NoThreads])
      BY <3>1 DEF Start
    <3> DEFINE r == [phase |-> "prepare",
                     kind |-> "action", roster |-> R, dry |-> dry, event |-> event,
                     checkout |-> event, tip |-> tip, prev |-> None, hit |-> FALSE,
                     target |-> None, idx |-> 1, base |-> None, dir |-> NoThreads]
    <3>3. /\ Becomes(j, r) /\ job'[j] = r
          /\ UNCHANGED <<head, caches>>
      BY <2>0, <3>1, <3>2 DEF Start, Becomes
    <3>4. /\ r.kind = "action" /\ r.roster = R /\ r.event = event
          /\ r.checkout = event /\ r.idx = 1 /\ r.phase = "prepare"
          /\ r.hit = FALSE /\ r.base = None
      OBVIOUS
    <3>5. event \in Ancestors[head]
      BY DEF ThreadInv
    <3> HIDE DEF r
    <3>6. ThreadJob(R, j)'
      BY <1>0, <3>3, <3>4, <3>5 DEF ThreadJob, Window
    <3> QED
      BY <2>b, <3>1, <3>3, <3>6
  <2>5. ASSUME NEW j \in Jobs, StartLocal(j) PROVE ThreadInv(R)'
    BY <2>5 DEF StartLocal
  <2>6. ASSUME NEW j \in Jobs, AbortJob(j) PROVE ThreadInv(R)'
    <3>1. ThreadJob(R, j)'
      BY <2>0, <2>6 DEF AbortJob, Becomes, ThreadJob, IdleJob
    <3> QED
      BY <2>b, <2>6, <3>1 DEF AbortJob
  <2>7. ASSUME NEW j \in Jobs, Prepare(j) PROVE ThreadInv(R)'
    <3>1. PICK sha \in Commits \cup {None} :
            Becomes(j, [job[j] EXCEPT !.prev = sha, !.phase = "restore"])
      BY <2>7 DEF Prepare
    <3>2. /\ job'[j].phase = "restore"
          /\ SameBut(j, "restore") /\ job'[j].hit = job[j].hit
          /\ job'[j].idx = job[j].idx
      BY <2>0, <3>1 DEF SameBut, Becomes, JobState, JobRecord
    <3>3. ThreadJob(R, j)'
      BY <1>0, <2>a, <2>7, <3>2 DEF Prepare, SameBut, ThreadJob, Window
    <3> QED
      BY <2>b, <2>7, <3>1, <3>3 DEF Prepare
  <2>8. ASSUME NEW j \in Jobs, RestoreCache(j) PROVE ThreadInv(R)'
    <3>1. job[j].phase = "restore" /\ UNCHANGED <<head, pending, caches>>
      BY <2>8 DEF RestoreCache
    <3>2. CASE Becomes(j, [job[j] EXCEPT !.phase = "fetch"])
      <4>1. /\ job'[j].phase = "fetch" /\ SameThreads(j, "fetch")
            /\ job'[j].idx = job[j].idx
        BY <2>0, <3>2 DEF SameThreads, SameBut, Becomes, JobState, JobRecord
      <4>2. ThreadJob(R, j)'
        BY <1>0, <2>a, <3>1, <4>1
           DEF SameThreads, SameBut, ThreadJob, Window, Knows
      <4> QED
        BY <2>b, <3>1, <3>2, <4>2
    <3>3. CASE \E entry \in caches :
                 /\ <<entry.model, entry.sha>> = <<job[j].roster[1], job[j].prev>>
                 /\ Becomes(j, [job[j] EXCEPT !.hit = TRUE, !.dir = entry.dir,
                                       !.phase = "fetch"])
      <4>1. PICK entry \in caches :
              /\ <<entry.model, entry.sha>> = <<job[j].roster[1], job[j].prev>>
              /\ Becomes(j, [job[j] EXCEPT !.hit = TRUE, !.dir = entry.dir,
                                    !.phase = "fetch"])
        BY <3>3
      <4>2. /\ job'[j].phase = "fetch" /\ SameBut(j, "fetch")
            /\ job'[j].idx = job[j].idx /\ job'[j].prev = job[j].prev
            /\ job'[j].dir = entry.dir
        BY <2>0, <4>1 DEF SameBut, Becomes, JobState, JobRecord
      <4>3. job[j].prev = entry.sha /\ entry.sha # None
        BY <4>1, CommitsAssumption DEF TypeOK
      <4>4. \A i \in DOMAIN R : Knows(entry.dir, R[i], entry.sha)
        BY <4>1 DEF ThreadInv, AllKnow
      <4>5. ThreadJob(R, j)'
        BY <1>0, <2>a, <3>1, <4>2, <4>3, <4>4
           DEF SameBut, ThreadJob, Window, Knows
      <4> QED
        BY <2>b, <3>1, <4>1, <4>5
    <3> QED
      BY <2>8, <3>2, <3>3 DEF RestoreCache
  <2>9. ASSUME NEW j \in Jobs, FetchPullRequest(j) PROVE ThreadInv(R)'
    <3>1. /\ job[j].phase = "fetch" /\ UNCHANGED <<head, pending, caches>>
      BY <2>9 DEF FetchPullRequest
    <3>2. /\ job'[j].phase = "resolve" /\ job'[j].target = head
          /\ SameBut(j, "resolve") /\ job'[j].prev = job[j].prev
          /\ job'[j].hit = job[j].hit /\ job'[j].dir = job[j].dir
          /\ job'[j].idx = job[j].idx
      BY <2>0, <2>9 DEF FetchPullRequest, SameBut, Becomes, JobState, JobRecord
    <3>3. ThreadJob(R, j)'
      BY <1>0, <2>a, <3>1, <3>2 DEF SameBut, ThreadJob, Window, Knows
    <3> QED
      BY <2>b, <2>9, <3>3 DEF FetchPullRequest
  <2>10. ASSUME NEW j \in Jobs, ResolveResume(j) PROVE ThreadInv(R)'
    <3>1. job[j].phase = "resolve" /\ UNCHANGED <<head, pending, caches>>
      BY <2>10 DEF ResolveResume
    <3>2. PICK base :
            /\ base = None \/ (base \in PreviousShas(j) /\ CanResume(j, base))
            /\ Becomes(j, [job[j] EXCEPT !.base = base, !.phase = "review"])
      BY <2>10 DEF ResolveResume
    <3>3. job[j].idx \in DOMAIN R
      BY <1>0, <2>0, <3>1, RosterModel
    (* The base is the previous SHA.                                         *)
    <3>4. base # None => Knows(job[j].dir, R[job[j].idx], base)
      BY <2>a, <3>1, <3>2, <3>3 DEF PreviousShas, CanResume, ThreadJob
    <3>5. /\ job'[j].phase = "review" /\ job'[j].base = base
          /\ SameThreads(j, "review") /\ job'[j].idx = job[j].idx
      BY <2>0, <3>2 DEF SameThreads, SameBut, Becomes, JobState, JobRecord
    <3>6. ThreadJob(R, j)'
      BY <2>a, <3>1, <3>4, <3>5
         DEF SameThreads, SameBut, ThreadJob, Window, Knows
    <3> QED
      BY <2>b, <3>1, <3>2, <3>6
  <2>11. ASSUME NEW j \in Jobs, ExecuteReview(j) PROVE ThreadInv(R)'
    <3>1. /\ job[j].phase = "review" /\ UNCHANGED <<head, pending, caches>>
          /\ job[j].kind = "action" /\ Model(j) = R[job[j].idx]
          /\ job[j].idx \in DOMAIN R /\ Model(j) \in Models
      BY <1>0, <2>0, <2>a, <2>11, RosterModel DEF ExecuteReview, ThreadJob
    <3> DEFINE old  == job[j].dir[Model(j)]
               kept == (IF job[j].base = None THEN {} ELSE old) \cup Scope(j)
    <3>2. Becomes(j, [job[j] EXCEPT !.phase = "post",
                                    !.dir = [@ EXCEPT ![Model(j)] = kept]])
      BY <2>11, <3>1 DEF ExecuteReview, Threads
    (* What it knew, up to the base, and the commits since; or its checkout. *)
    <3>3. Ancestors[job[j].event] \subseteq kept
      <4>1. CASE job[j].base # None
        <5>1. Ancestors[job[j].base] \subseteq old
          BY <2>a, <3>1, <4>1 DEF ThreadJob, Knows
        <5>2. /\ job[j].event \in Ancestors[job[j].target]
              /\ job[j].event \in Commits /\ job[j].target \in Commits
          BY <2>0, <2>a, <3>1 DEF ThreadJob, JobState, Window
        <5>3. Ancestors[job[j].event] \subseteq Ancestors[job[j].target]
          BY <5>2, AncestorsAssumption
        <5> QED
          BY <4>1, <5>1, <5>3 DEF Scope
      <4>2. CASE job[j].base = None
        BY <2>a, <3>1, <4>2 DEF ThreadJob, Scope
      <4> QED
        BY <4>1, <4>2
    <3> HIDE DEF kept, old
    <3>4. /\ job'[j].phase = "post" /\ SameBut(j, "post")
          /\ job'[j].prev = job[j].prev /\ job'[j].hit = job[j].hit
          /\ job'[j].target = job[j].target /\ job'[j].idx = job[j].idx
          /\ job'[j].dir = [job[j].dir EXCEPT ![Model(j)] = kept]
      BY <2>0, <3>2 DEF SameBut, Becomes, JobState, JobRecord
    <3>5. \A i \in DOMAIN R : job'[j].dir[R[i]] =
            IF i = job[j].idx THEN kept ELSE job[j].dir[R[i]]
      <4>1. job[j].dir \in [Models -> SUBSET Commits]
        BY <2>0 DEF JobState, JobRecord, ThreadDir
      <4> QED
        BY <1>0, <3>1, <3>4, <4>1
    <3>6. \A i \in DOMAIN R : i < job[j].idx \/ i > job[j].idx => i # job[j].idx
      BY <1>0, <3>1
    <3>7. Knows(job'[j].dir, R[job[j].idx], job[j].event)
      BY <3>1, <3>3, <3>5 DEF Knows
    <3>8. ThreadJob(R, j)'
      BY <2>a, <3>1, <3>4, <3>5, <3>6, <3>7 DEF SameBut, ThreadJob, Window, Knows
    <3> QED
      BY <2>b, <3>1, <3>2, <3>8
  <2>12. ASSUME NEW j \in Jobs, PostResults(j) PROVE ThreadInv(R)'
    <3>1. job[j].phase = "post" /\ UNCHANGED <<head, pending, caches>>
      BY <2>12 DEF PostResults
    <3>2. /\ job'[j].phase = "delete" /\ SameThreads(j, "delete")
          /\ job'[j].idx = job[j].idx
      BY <2>0, <2>12 DEF PostResults, SameThreads, SameBut, Becomes, JobState, JobRecord
    <3>3. ThreadJob(R, j)'
      BY <2>a, <3>1, <3>2 DEF SameThreads, SameBut, ThreadJob, Window, Knows
    <3> QED
      BY <2>b, <2>12, <3>1, <3>3 DEF PostResults
  <2>13. ASSUME NEW j \in Jobs, DeletePriorSummary(j) PROVE ThreadInv(R)'
    <3>1. job[j].phase = "delete" /\ UNCHANGED <<head, pending, caches>>
      BY <2>13 DEF DeletePriorSummary
    <3>2. /\ job'[j].phase = "create" /\ SameThreads(j, "create")
          /\ job'[j].idx = job[j].idx
      BY <2>0, <2>13 DEF DeletePriorSummary, SameThreads, SameBut, Becomes, JobState, JobRecord
    <3>3. ThreadJob(R, j)'
      BY <2>a, <3>1, <3>2 DEF SameThreads, SameBut, ThreadJob, Window, Knows
    <3> QED
      BY <2>b, <2>13, <3>1, <3>3 DEF DeletePriorSummary
  <2>14. ASSUME NEW j \in Jobs, CreateSummary(j) PROVE ThreadInv(R)'
    <3>1. /\ job[j].phase = "create" /\ UNCHANGED <<head, pending, caches>>
          /\ job[j].idx \in DOMAIN R /\ job[j].roster = R
          /\ job[j].kind = "action"
      BY <1>0, <2>0, <2>a, <2>14, RosterModel DEF CreateSummary, ThreadJob
    <3>2. Becomes(j, AfterSummary(j))
      BY <2>14 DEF CreateSummary
    <3>3. Knows(job[j].dir, R[job[j].idx], job[j].event)
      BY <2>a, <3>1 DEF ThreadJob
    <3>4. CASE job[j].idx < Len(R)
      <4>1. /\ job'[j].phase = "resolve" /\ SameThreads(j, "resolve")
            /\ job'[j].idx = job[j].idx + 1
        BY <2>0, <3>1, <3>2, <3>4
           DEF AfterSummary, SameThreads, SameBut, Becomes, JobState, JobRecord
      <4>2. \A i \in DOMAIN R : i < job[j].idx + 1 => i < job[j].idx \/ i = job[j].idx
        BY <1>0, <3>1
      <4>3. \A i \in DOMAIN R : i < job[j].idx + 1 => Knows(job[j].dir, R[i], job[j].event)
        BY <2>a, <3>1, <3>3, <4>2 DEF ThreadJob
      <4>4. \A i \in DOMAIN R : i > job[j].idx + 1 \/ i = job[j].idx + 1 => i > job[j].idx
        BY <1>0, <3>1
      <4>5. ThreadJob(R, j)'
        BY <2>a, <3>1, <4>1, <4>3, <4>4 DEF SameThreads, SameBut, ThreadJob, Window, Knows
      <4> QED
        BY <2>b, <3>1, <3>2, <4>5
    <3>5. CASE ~(job[j].idx < Len(R))
      <4>1. /\ job'[j].phase = "save" /\ SameThreads(j, "save")
            /\ job'[j].idx = job[j].idx
        BY <2>0, <3>1, <3>2, <3>5
           DEF AfterSummary, SameThreads, SameBut, Becomes, JobState, JobRecord
      <4>2. \A i \in DOMAIN R : i < job[j].idx \/ i = job[j].idx
        BY <1>0, <3>1, <3>5
      <4>3. AllKnow(R, job[j].dir, job[j].event)
        BY <2>a, <3>1, <3>3, <4>2 DEF ThreadJob, AllKnow
      <4>4. ThreadJob(R, j)'
        BY <2>a, <3>1, <4>1, <4>3
           DEF SameThreads, SameBut, ThreadJob, Window, Knows, AllKnow
      <4> QED
        BY <2>b, <3>1, <3>2, <4>4
    <3> QED
      BY <3>4, <3>5
  <2>15. ASSUME NEW j \in Jobs, SaveCache(j) PROVE ThreadInv(R)'
    <3>1. job[j].phase = "save"
      BY <2>15 DEF SaveCache
    <3>2. AllKnow(R, job[j].dir, job[j].event)
      BY <2>a, <3>1 DEF ThreadJob
    <3>3. \A e \in caches' : e \in caches \/ AllKnow(R, e.dir, e.sha)
      BY <2>15, <3>2 DEF SaveCache
    <3>4. ThreadJob(R, j)'
      BY <2>0, <2>15 DEF SaveCache, Becomes, ThreadJob, IdleJob
    <3> QED
      BY <2>b, <2>15, <3>3, <3>4 DEF SaveCache
  <2>16. CASE UNCHANGED vars
    BY <2>16 DEF ThreadInv, ThreadJob, AllKnow, Knows, vars
  <2> QED
    BY <2>1, <2>2, <2>3, <2>4, <2>5, <2>6, <2>7, <2>8, <2>9, <2>10, <2>11,
       <2>12, <2>13, <2>14, <2>15, <2>16 DEF Next, JobStep
<1> QED
  BY <1>1, <1>2, TypeCorrect, PTL DEF Spec

(* With one roster, jobs of the action, fast-forward pushes and thread     *)
(* files that can be written and read, no model is told to skip a commit   *)
(* its resumed thread has not been shown, dry runs included.               *)
THEOREM ThreadsUpToDate ==
  ASSUME NEW R, Rosters = {R}, Kinds = {"action"},
         "thread" \notin Faults,
         \A move \in HeadMoves : move[1] \in Ancestors[move[2]]
  PROVE  Spec => []ThreadKnowsBase
<1>1. TypeOK /\ ThreadInv(R) => ThreadKnowsBase
  <2> SUFFICES ASSUME TypeOK, ThreadInv(R),
                      NEW j \in Jobs, job[j].phase = "review", job[j].base # None
               PROVE  Ancestors[job[j].base] \subseteq Threads(j)[Model(j)]
    BY DEF ThreadKnowsBase
  <2>1. R \in Seq(Models)
    BY ConfigAssumption
  <2>2. Model(j) = R[job[j].idx]
    BY <2>1, RosterModel DEF TypeOK
  <2>3. job[j].kind = "action" /\ Knows(job[j].dir, R[job[j].idx], job[j].base)
    BY DEF ThreadInv, ThreadJob
  <2> QED
    BY <2>2, <2>3 DEF Threads, Knows
<1> QED
  BY <1>1, ThreadInvariant, PTL
=============================================================================
