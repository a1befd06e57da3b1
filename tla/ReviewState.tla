------------------------------ MODULE ReviewState ------------------------------
(***************************************************************************)
(* The persisted review state and the SHA-delta decision made from it.     *)
(*                                                                         *)
(* A run looks for a record of its pull request, model and head, then for  *)
(* one of the head that was reviewed before, asks git whether that head is *)
(* an ancestor, and reviews either everything or only the files changed    *)
(* since.  A record found is re-keyed to the new head and extended.  All   *)
(* runs of a runner share one directory, a file per key, which a cache     *)
(* restore may truncate and an eviction may empty.                         *)
(*                                                                         *)
(* Nothing under src/cli calls the writing half of this layer              *)
(* (record_review_run, migrate_to_sha, record_state, discard); the caller  *)
(* modelled here is the one that tests/test_review_state_multirun.py plays.*)
(*                                                                         *)
(* Code: cli/core/review_state.py, review_state_store.py,                  *)
(* review_state_manager.py, sha_delta.py, filesystem.py, and               *)
(* cli/workflows/review_workflow.py (_resolve_sha_delta_scope).            *)
(***************************************************************************)
EXTENDS Integers, FiniteSets

CONSTANTS
  PRs, Models, Shas, Files, Versions,
  Slug,       \* a model's name as it appears in a file name
  Ancestors,  \* [Shas -> SUBSET Shas], a commit among its own
  Version,    \* [Shas -> [Files -> Versions]], the tree of a commit
  PRFiles,    \* [Shas -> SUBSET Files], what the pull request changes at a head
  Spaced,     \* files with a blank in their path
  Quoted,     \* files whose path git quotes in its output
  NoSha,      \* the absence of a hint
  NoRecord,   \* the absence of a record
  Jobs,       \* runs that may be under way at once
  MaxRuns,    \* bound: runs started
  MaxDamage   \* bound: files lost or damaged

(* Ancestry is a preorder.  ScopeAssumption: a file that is part of the    *)
(* pull request at a head and has not changed since an ancestor was part   *)
(* of it there too, unless the change is a merge that keeps the branch's   *)
(* version of a file of the base.                                          *)
ASSUME StateAssumption ==
  /\ NoSha \notin Shas
  /\ Ancestors \in [Shas -> SUBSET Shas]
  /\ \A c \in Shas : c \in Ancestors[c]
  /\ \A c \in Shas : \A d \in Ancestors[c] : Ancestors[d] \subseteq Ancestors[c]
  /\ Version \in [Shas -> [Files -> Versions]]
  /\ PRFiles \in [Shas -> SUBSET Files]
  /\ Spaced \subseteq Files /\ Quoted \subseteq Files
  /\ MaxRuns \in Nat /\ MaxDamage \in Nat

ASSUME SlugAssumption ==
  \A m, n \in Models : Slug[m] = Slug[n] => m = n

ASSUME ScopeAssumption ==
  \A c \in Shas : \A d \in Ancestors[c] : \A f \in PRFiles[c] :
    Version[c][f] = Version[d][f] => f \in PRFiles[d]

VARIABLES
  files,      \* the directory: name -> content
  job,        \* the runs
  published,  \* [PRs -> SUBSET Shas], heads a summary was published for
  runs, damages

vars == <<files, job, published, runs, damages>>

-----------------------------------------------------------------------------
(* Keys, names and contents.                                               *)

Key == [pr : PRs, model : Models, sha : Shas]

(* The path of a key.  Whatever a file name cannot hold becomes a dash, so *)
(* two models may share a slug.                                            *)
PathFor(k) == <<k.pr, Slug[k.model], k.sha>>

Names == {PathFor(k) : k \in Key}

WithSha(k, sha) == [k EXCEPT !.sha = sha]

(* A finding is known by the run that made it. *)
Finding == [pr : PRs, model : Models, sha : Shas]

(* An envelope.  carried: the published findings of the records it grew    *)
(* from.  seen is not in the file: it is what the reviews behind the record*)
(* were shown, a set of files with their versions.                         *)
Envelope ==
  [key : Key, findings : SUBSET Finding, carried : SUBSET Finding,
   seen : SUBSET (Files \X Versions)]

Empty(k) == [key |-> k, findings |-> {}, carried |-> {}, seen |-> {}]

(* A file that is gone, empty, cut between two characters, cut inside one, *)
(* of a schema version this reader does not know, or with a field of the   *)
(* wrong shape.                                                            *)
Damages == {"gone", "empty", "cut", "torn", "future", "invalid"}

Content == [kind : {"record"}, state : Envelope] \cup [kind : Damages]

Missing == [kind |-> "gone"]

Record(state) == [kind |-> "record", state |-> state]

(* Text that is not UTF-8 raises UnicodeDecodeError, which load does not   *)
(* catch; every other damage reads as no record.                           *)
Raises(name) == files[name].kind = "torn"

Readable(name) == files[name].kind = "record"

-----------------------------------------------------------------------------
Phases == {"idle", "current", "previous", "probe", "scope", "review", "record",
           "aborted"}

Decisions == {"none", "same_sha", "incremental", "fresh_review"}

JobState ==
  [phase : Phases, key : Key \cup {NoRecord}, hint : Shas \cup {NoSha},
   prior : Envelope \cup {NoRecord}, decision : Decisions, inline : BOOLEAN,
   scope : SUBSET Files,
   found : SUBSET Finding]

Idle ==
  [phase |-> "idle", key |-> NoRecord, hint |-> NoSha, prior |-> NoRecord,
   decision |-> "none", inline |-> FALSE, scope |-> {}, found |-> {}]

Active(j) == job[j].phase \notin {"idle", "aborted"}

TypeOK ==
  /\ files \in [Names -> Content]
  /\ job \in [Jobs -> JobState]
  /\ \A j \in Jobs : job[j].phase # "idle" => job[j].key \in Key
  /\ \A j \in Jobs : job[j].phase \in {"probe", "scope", "review", "record"}
       => job[j].prior \in Envelope
  /\ published \in [PRs -> SUBSET Shas]
  /\ runs \in 0..MaxRuns
  /\ damages \in 0..MaxDamage

Init ==
  /\ files = [n \in Names |-> Missing]
  /\ job = [j \in Jobs |-> Idle]
  /\ published = [p \in PRs |-> {}]
  /\ runs = 0
  /\ damages = 0

-----------------------------------------------------------------------------
(* A run starts at some head.  Its hint is a head that some model's summary*)
(* names, not always the newest: summaries are deleted and edited.  There  *)
(* is one run at a time per key (review_state_store.py, module comment).   *)
Start(j) ==
  /\ ~ Active(j)
  /\ runs < MaxRuns
  /\ \E k \in Key : \E hint \in published[k.pr] \cup {NoSha} :
       /\ \A i \in Jobs : Active(i) => job[i].key # k
       /\ job' = [job EXCEPT ![j] =
            [Idle EXCEPT !.phase = "current", !.key = k, !.hint = hint]]
  /\ runs' = runs + 1
  /\ UNCHANGED <<files, published, damages>>

\* For the mutation of TypeOK: starting over forgets to make a record.
FreshUnset(r) == [r EXCEPT !.phase = "scope", !.decision = "fresh_review"]

Fresh(r) == [r EXCEPT !.phase = "scope", !.decision = "fresh_review",
                      !.prior = Empty(r.key)]

Same(r, prior) == [r EXCEPT !.phase = "scope", !.decision = "same_sha",
                            !.prior = prior]

Aborted(r) == [r EXCEPT !.phase = "aborted"]

LoadCurrent(j) ==
  LET r == job[j]  name == PathFor(r.key)
  IN  /\ r.phase = "current"
      /\ job' = [job EXCEPT ![j] =
           IF Raises(name) THEN Aborted(r)
           ELSE IF Readable(name) THEN Same(r, files[name].state)
           ELSE IF r.hint \notin {NoSha, r.key.sha} THEN [r EXCEPT !.phase = "previous"]
           ELSE Fresh(r)]
      /\ UNCHANGED <<files, published, runs, damages>>

LoadPrevious(j) ==
  LET r == job[j]  name == PathFor(WithSha(r.key, r.hint))
  IN  /\ r.phase = "previous"
      /\ job' = [job EXCEPT ![j] =
           IF Raises(name) THEN Aborted(r)
           ELSE IF Readable(name)
                THEN [r EXCEPT !.phase = "probe", !.prior = files[name].state]
           ELSE Fresh(r)]
      /\ UNCHANGED <<files, published, runs, damages>>

(* git: the commits and the changed files between two revisions. *)
Commits(old, new) == Ancestors[new] \ Ancestors[old]

Changed(old, new) == {f \in Files : Version[old][f] # Version[new][f]}

\* For the mutation of NoForeignFindings: no question about ancestry.
ProbeAnyHead(j) ==
  LET r == job[j]
  IN  /\ r.phase = "probe"
      /\ job' = [job EXCEPT ![j].phase = "scope", ![j].decision = "incremental"]
      /\ UNCHANGED <<files, published, runs, damages>>

(* The previous head is the one of the fallback key.  A probe that fails   *)
(* (gitOk is FALSE) and a head that is no ancestor both start over.  A diff*)
(* within the limit of 500 lines is put into the prompt (inline).          *)
Probe(j) ==
  LET r == job[j]  new == r.key.sha  old == r.hint
  IN  /\ r.phase = "probe"
      /\ \E gitOk, small \in BOOLEAN :
           job' = [job EXCEPT ![j] =
             IF ~ gitOk \/ old \notin Ancestors[new] THEN Fresh(r)
             ELSE IF Commits(old, new) = {} /\ Changed(old, new) = {}
                  THEN Same(r, r.prior)
             ELSE [r EXCEPT !.phase = "scope", !.decision = "incremental",
                            !.inline = small /\ Changed(old, new) # {}]]
      /\ UNCHANGED <<files, published, runs, damages>>

(* The header pattern knows neither blanks nor quotes; --name-only prints  *)
(* a quoted path with its quotes, which is the name of no file.            *)
DiffPaths(old, new) == Changed(old, new) \ (Spaced \cup Quoted)

NameOnly(old, new) == Changed(old, new) \ Quoted

(* What _compute_sha_delta_paths may return: no path if git fails. *)
DeltaPaths(r) ==
  LET old == r.hint  new == r.key.sha
  IN  IF r.decision # "incremental" THEN {{}}
      ELSE IF r.inline /\ DiffPaths(old, new) # {} THEN {DiffPaths(old, new)}
      ELSE {NameOnly(old, new), {}}

\* For the mutation of FullyReviewed: no path of the delta, no file.
ScopedOnly(r, paths) ==
  IF r.decision = "incremental" THEN PRFiles[r.key.sha] \cap paths
  ELSE PRFiles[r.key.sha]

(* The files of the prompt: those of the delta, unless none of them is     *)
(* known to belong to the pull request.                                    *)
ScopedFiles(r, paths) ==
  LET all == PRFiles[r.key.sha]
  IN  IF all \cap paths # {} THEN all \cap paths ELSE all

Scope(j) ==
  LET r == job[j]
  IN  /\ r.phase = "scope"
      /\ \E paths \in DeltaPaths(r) :
           job' = [job EXCEPT ![j].phase = "review",
                              ![j].scope = ScopedFiles(r, paths)]
      /\ UNCHANGED <<files, published, runs, damages>>

(* The model reviews the scope and its summary is published. *)
Review(j) ==
  LET r == job[j]
  IN  /\ r.phase = "review"
      /\ \E found \in SUBSET {r.key} :
           job' = [job EXCEPT ![j].phase = "record", ![j].found = found]
      /\ published' = [published EXCEPT ![r.key.pr] = @ \cup {r.key.sha}]
      /\ UNCHANGED <<files, runs, damages>>

\* For the mutation of OnlyOwnRecordWritten: the record keeps its old key.
MigrateNowhere(state, sha) == state

(* What is recorded.  A continued record is re-keyed from the key it has   *)
(* and keeps what it holds; every other one is written anew.               *)
MigrateToSha(state, sha) == [state EXCEPT !.key = WithSha(@, sha)]

(* The prompt holds the files of the scope and, inline, the whole diff. *)
Shown(r) ==
  r.scope \cup (IF r.inline THEN Changed(r.hint, r.key.sha) ELSE {})

Seen(r) == {<<f, Version[r.key.sha][f]>> : f \in Shown(r)}

RunEnvelope(r) ==
  IF r.decision = "incremental"
  THEN [MigrateToSha(r.prior, r.key.sha) EXCEPT
          !.findings = @ \cup r.found, !.carried = @ \cup r.prior.findings,
          !.seen = @ \cup Seen(r)]
  ELSE [Empty(r.key) EXCEPT !.findings = r.found, !.seen = Seen(r)]

Save(state) == [files EXCEPT ![PathFor(state.key)] = Record(state)]

(* The temporary file is renamed over the record in one step. *)
RecordRun(j) ==
  /\ job[j].phase = "record"
  /\ files' = Save(RunEnvelope(job[j]))
  /\ job' = [job EXCEPT ![j] = Idle]
  /\ UNCHANGED <<published, runs, damages>>

(* A run may end early: it dies, a git command takes too long, or its write*)
(* fails and leaves at most a temporary file, which no look-up takes for a *)
(* record.                                                                 *)
Die(j) ==
  /\ Active(j)
  /\ job' = [job EXCEPT ![j] = Idle]
  /\ UNCHANGED <<files, published, runs, damages>>

(* The cache: an entry is evicted or discarded, or restored damaged. *)
Damage(n) ==
  /\ damages < MaxDamage
  /\ files[n].kind = "record"
  /\ \E kind \in Damages : files' = [files EXCEPT ![n] = [kind |-> kind]]
  /\ damages' = damages + 1
  /\ UNCHANGED <<job, published, runs>>

Next ==
  \/ \E j \in Jobs :
       \/ Start(j) \/ LoadCurrent(j) \/ LoadPrevious(j) \/ Probe(j)
       \/ Scope(j) \/ Review(j) \/ RecordRun(j) \/ Die(j)
  \/ \E n \in Names : Damage(n)

Spec == Init /\ [][Next]_vars

-----------------------------------------------------------------------------
(* Properties.                                                             *)

(* A record holds findings of its own pull request and model only, and only*)
(* of heads that its head descends from: what a forced push threw away does*)
(* not come back with a record that a later run continues.                 *)
OwnLineage(state) ==
  \A f \in state.findings \cup state.carried :
    /\ f.pr = state.key.pr
    /\ f.model = state.key.model
    /\ f.sha \in Ancestors[state.key.sha]

NoForeignFindings ==
  \A n \in Names : files[n].kind = "record" =>
    OwnLineage(files[n].state) /\ PathFor(files[n].state.key) = n

(* Whatever chain of runs, look-ups and lost files led to a record, the    *)
(* reviews behind it were shown every file of the pull request as it is at *)
(* the record's head: no file is left out for being unchanged since a head *)
(* that nobody reviewed it at.                                             *)
Complete(state) ==
  \A f \in PRFiles[state.key.sha] : <<f, Version[state.key.sha][f]>> \in state.seen

FullyReviewed ==
  \A n \in Names : files[n].kind = "record" => Complete(files[n].state)

(* A run writes the record of its own key and no other: neighbours stay as *)
(* they are, for other runs to fall back on.                               *)
OnlyOwnRecordWritten ==
  [][\A n \in Names :
       files'[n] # files[n] /\ files'[n].kind = "record" =>
         \E j \in Jobs : job[j].phase = "record" /\ PathFor(job[j].key) = n]_vars
=============================================================================
