--------------------------- MODULE ReviewStateProofs ---------------------------
(***************************************************************************)
(* What ReviewState promises for every history, every set of models and    *)
(* files and any number of runs and damaged entries.                       *)
(*                                                                         *)
(* The invariant relates three things: a file of the directory is a record *)
(* of the key its name says, a run holds the record of the head it falls   *)
(* back on, and a run that is past its scope was shown every changed file. *)
(***************************************************************************)
EXTENDS ReviewState, TLAPS

(* A record that a later run may continue. *)
Sound(state) ==
  /\ OwnLineage(state)
  /\ Quoted = {} => Complete(state)

FilesSound ==
  \A n \in Names : files[n].kind = "record" =>
    Sound(files[n].state) /\ PathFor(files[n].state.key) = n

(* The record a run falls back on is that of its key at the hinted head. *)
PriorSound(r) ==
  /\ r.hint \in Shas
  /\ r.prior.key = WithSha(r.key, r.hint)
  /\ Sound(r.prior)

Asked(r) == r.phase = "previous" => r.hint \in Shas

Probed(r) == r.phase = "probe" => PriorSound(r)

Resumed(r) ==
  r.phase \in {"scope", "review", "record"} /\ r.decision = "incremental" =>
    PriorSound(r) /\ r.hint \in Ancestors[r.key.sha]

OnlyIncrementalInlines(r) == r.inline => r.decision = "incremental"

(* What a run past its scope shows: all files of the pull request, or those*)
(* of them that changed since the head it falls back on.                   *)
Covered(r) ==
  r.phase \in {"review", "record"} =>
    /\ r.decision # "incremental" => PRFiles[r.key.sha] \subseteq Shown(r)
    /\ r.decision = "incremental" /\ Quoted = {} =>
         PRFiles[r.key.sha] \cap Changed(r.hint, r.key.sha) \subseteq Shown(r)

OwnFinding(r) == r.phase # "idle" => r.found \subseteq {r.key}

(* Before it is decided what to review, nothing is shown or found. *)
Undecided(r) ==
  r.phase \in {"current", "previous", "probe"} => r.found = {} /\ r.inline = FALSE

JobSound(r) ==
  /\ Asked(r) /\ Probed(r) /\ Resumed(r) /\ Undecided(r)
  /\ OnlyIncrementalInlines(r) /\ Covered(r) /\ OwnFinding(r)

Inv ==
  /\ TypeOK
  /\ FilesSound
  /\ \A j \in Jobs : JobSound(job[j])

-----------------------------------------------------------------------------
(* Keys and names.                                                         *)

(* Two keys with the same name are the same key. *)
LEMMA PathInjective ==
  ASSUME NEW k \in Key, NEW l \in Key, PathFor(k) = PathFor(l)
  PROVE  k = l
<1>1. k.pr = l.pr /\ k.sha = l.sha /\ Slug[k.model] = Slug[l.model]
  BY DEF PathFor
<1>2. k.model \in Models /\ l.model \in Models
  BY DEF Key
<1>3. k.model = l.model
  BY <1>1, <1>2, SlugAssumption
<1> QED
  BY <1>1, <1>3 DEF Key

LEMMA WithShaType ==
  ASSUME NEW k \in Key, NEW sha \in Shas
  PROVE  /\ WithSha(k, sha) \in Key
         /\ WithSha(k, sha).sha = sha
         /\ WithSha(k, sha).pr = k.pr
         /\ WithSha(k, sha).model = k.model
  BY DEF WithSha, Key

LEMMA NameOfKey ==
  ASSUME NEW k \in Key
  PROVE  PathFor(k) \in Names
  BY DEF Names

LEMMA EmptyType ==
  ASSUME NEW k \in Key
  PROVE  Empty(k) \in Envelope
  BY DEF Empty, Envelope

(* A file that can be read holds an envelope. *)
LEMMA ReadableType ==
  ASSUME TypeOK, NEW n \in Names, Readable(n)
  PROVE  files[n].state \in Envelope
<1>1. files[n] \in Content /\ files[n].kind = "record"
  BY DEF TypeOK, Readable
<1>2. files[n] \notin [kind : Damages]
  BY <1>1 DEF Damages
<1> QED
  BY <1>1, <1>2 DEF Content

(* A run that fell back on a record of its directory holds that record. *)
LEMMA FoundPrior ==
  ASSUME Inv, NEW k \in Key, NEW sha \in Shas,
         Readable(PathFor(WithSha(k, sha)))
  PROVE  LET state == files[PathFor(WithSha(k, sha))].state
         IN  state \in Envelope /\ state.key = WithSha(k, sha) /\ Sound(state)
<1> DEFINE n == PathFor(WithSha(k, sha))
<1>1. WithSha(k, sha) \in Key /\ n \in Names
  BY WithShaType, NameOfKey
<1>2. files[n].state \in Envelope
  BY <1>1, ReadableType DEF Inv
<1>3. Sound(files[n].state) /\ PathFor(files[n].state.key) = n
  BY <1>1 DEF Inv, FilesSound, Readable
<1>4. files[n].state.key \in Key
  BY <1>2 DEF Envelope
<1>5. files[n].state.key = WithSha(k, sha)
  BY <1>1, <1>3, <1>4, PathInjective
<1> QED
  BY <1>2, <1>3, <1>5

-----------------------------------------------------------------------------
(* Steps of one run.                                                       *)

(* The part of the type invariant about one run. *)
Typed(r) ==
  /\ r \in JobState
  /\ r.phase # "idle" => r.key \in Key
  /\ r.phase \in {"probe", "scope", "review", "record"} => r.prior \in Envelope

LEMMA TypedJob ==
  ASSUME TypeOK, NEW j \in Jobs
  PROVE  Typed(job[j])
  BY DEF TypeOK, Typed

(* A step that changes one run, and no file, keeps the invariant if the run*)
(* it leaves behind is typed and sound.                                    *)
LEMMA OneJob ==
  ASSUME Inv, NEW j \in Jobs, NEW r, Typed(r), JobSound(r),
         job' = [job EXCEPT ![j] = r],
         UNCHANGED <<files, damages>>,
         runs' \in 0..MaxRuns,
         published' \in [PRs -> SUBSET Shas]
  PROVE  Inv'
<1>1. job \in [Jobs -> JobState]
  BY DEF Inv, TypeOK
<1>2. \A i \in Jobs : job'[i] = IF i = j THEN r ELSE job[i]
  BY <1>1
<1>3. \A i \in Jobs : Typed(job'[i]) /\ JobSound(job'[i])
  <2> TAKE i \in Jobs
  <2>1. Typed(job[i]) /\ JobSound(job[i])
    BY TypedJob DEF Inv
  <2> QED
    BY <1>2, <2>1
<1>4. job' \in [Jobs -> JobState]
  BY <1>1 DEF Typed
<1>5. TypeOK'
  BY <1>3, <1>4 DEF Inv, TypeOK, Typed
<1>6. FilesSound'
  BY DEF Inv, FilesSound
<1> QED
  BY <1>3, <1>5, <1>6 DEF Inv

LEMMA IdleSound == Typed(Idle) /\ JobSound(Idle)
<1>1. Typed(Idle)
  BY DEF Typed, Idle, JobState, Phases, Decisions
<1>2. JobSound(Idle)
  BY DEF JobSound, Asked, Probed, Resumed, Undecided, OnlyIncrementalInlines,
         Covered, OwnFinding, Idle
<1> QED
  BY <1>1, <1>2

(* Starting over, taking a record as it is, and giving up.                 *)
LEMMA FreshSound ==
  ASSUME NEW r, Typed(r), r.phase # "idle", r.found = {}, r.inline = FALSE
  PROVE  Typed(Fresh(r)) /\ JobSound(Fresh(r))
<1>1. r \in JobState /\ r.key \in Key /\ Empty(r.key) \in Envelope
  BY EmptyType DEF Typed
<1>2. Typed(Fresh(r))
  BY <1>1 DEF Typed, Fresh, JobState, Phases, Decisions
<1>3. /\ Fresh(r).phase = "scope" /\ Fresh(r).decision = "fresh_review"
      /\ Fresh(r).inline = FALSE /\ Fresh(r).found = {}
  BY <1>1 DEF Fresh, JobState
<1>4. JobSound(Fresh(r))
  BY <1>3 DEF JobSound, Asked, Probed, Resumed, Undecided,
              OnlyIncrementalInlines, Covered, OwnFinding
<1> QED
  BY <1>2, <1>4

LEMMA SameSound ==
  ASSUME NEW r, Typed(r), r.phase # "idle", r.found = {}, r.inline = FALSE,
         NEW prior \in Envelope
  PROVE  Typed(Same(r, prior)) /\ JobSound(Same(r, prior))
<1>1. r \in JobState /\ r.key \in Key
  BY DEF Typed
<1>2. Typed(Same(r, prior))
  BY <1>1 DEF Typed, Same, JobState, Phases, Decisions
<1> DEFINE s == Same(r, prior)
<1>3. /\ s.phase = "scope" /\ s.decision = "same_sha"
      /\ s.inline = FALSE /\ s.found = {}
  BY <1>1 DEF Same, JobState
<1>4. JobSound(s)
  BY <1>3 DEF JobSound, Asked, Probed, Resumed, Undecided,
              OnlyIncrementalInlines, Covered, OwnFinding
<1> QED
  BY <1>2, <1>4

LEMMA AbortedSound ==
  ASSUME NEW r, Typed(r), r.phase # "idle", r.found = {}, r.inline = FALSE
  PROVE  Typed(Aborted(r)) /\ JobSound(Aborted(r))
<1>1. r \in JobState /\ r.key \in Key
  BY DEF Typed
<1>2. Typed(Aborted(r))
  BY <1>1 DEF Typed, Aborted, JobState, Phases
<1>3. Aborted(r).phase = "aborted" /\ Aborted(r).inline = FALSE /\ Aborted(r).found = {}
  BY <1>1 DEF Aborted, JobState
<1>4. JobSound(Aborted(r))
  BY <1>3 DEF JobSound, Asked, Probed, Resumed, Undecided,
              OnlyIncrementalInlines, Covered, OwnFinding
<1> QED
  BY <1>2, <1>4

-----------------------------------------------------------------------------
(* One lemma per action.                                                   *)

LEMMA StartKeeps ==
  ASSUME Inv, NEW j \in Jobs, Start(j)
  PROVE  Inv'
<1>0. PICK k \in Key : \E hint \in published[k.pr] \cup {NoSha} :
        job' = [job EXCEPT ![j] =
          [Idle EXCEPT !.phase = "current", !.key = k, !.hint = hint]]
  BY DEF Start
<1>1. PICK hint \in published[k.pr] \cup {NoSha} :
        job' = [job EXCEPT ![j] =
          [Idle EXCEPT !.phase = "current", !.key = k, !.hint = hint]]
  BY <1>0
<1> DEFINE r == [Idle EXCEPT !.phase = "current", !.key = k, !.hint = hint]
<1>2. published[k.pr] \subseteq Shas
  BY DEF Inv, TypeOK, Key
<1>3. Typed(r)
  BY <1>2 DEF Typed, Idle, JobState, Phases, Decisions
<1>4. r.phase = "current" /\ r.inline = FALSE /\ r.found = {}
  BY DEF Idle
<1>5. JobSound(r)
  BY <1>4 DEF JobSound, Asked, Probed, Resumed, Undecided,
              OnlyIncrementalInlines, Covered, OwnFinding
<1>6. /\ UNCHANGED <<files, damages>>
      /\ runs' \in 0..MaxRuns
      /\ published' \in [PRs -> SUBSET Shas]
  BY StateAssumption DEF Start, Inv, TypeOK
<1>7. job' = [job EXCEPT ![j] = r]
  BY <1>1
<1> HIDE DEF r
<1> QED
  BY <1>3, <1>5, <1>6, <1>7, OneJob

(* A look-up at the run's own head: the name is that of the key. *)
LEMMA LoadCurrentKeeps ==
  ASSUME Inv, NEW j \in Jobs, LoadCurrent(j)
  PROVE  Inv'
<1> DEFINE r == job[j]
           n == PathFor(r.key)
           s == IF Raises(n) THEN Aborted(r)
                ELSE IF Readable(n) THEN Same(r, files[n].state)
                ELSE IF r.hint \notin {NoSha, r.key.sha}
                     THEN [r EXCEPT !.phase = "previous"]
                ELSE Fresh(r)
<1>1. Typed(r) /\ JobSound(r) /\ r.phase = "current"
  BY TypedJob DEF Inv, LoadCurrent
<1>2. r.key \in Key /\ r.phase # "idle" /\ r.found = {} /\ r.inline = FALSE
  BY <1>1 DEF Typed, JobSound, Undecided
<1>3. job' = [job EXCEPT ![j] = s]
  BY DEF LoadCurrent
<1>4. Typed(s) /\ JobSound(s)
  <2>1. CASE Raises(n)
    BY <1>1, <1>2, <2>1, AbortedSound
  <2>2. CASE ~ Raises(n) /\ Readable(n)
    <3>1. files[n].state \in Envelope
      BY <1>2, <2>2, NameOfKey, ReadableType DEF Inv
    <3> QED
      BY <1>1, <1>2, <2>2, <3>1, SameSound
  <2>3. CASE ~ Raises(n) /\ ~ Readable(n) /\ r.hint \notin {NoSha, r.key.sha}
    <3> DEFINE t == [r EXCEPT !.phase = "previous"]
    <3>1. r \in JobState
      BY <1>1 DEF Typed
    <3>2. t \in JobState /\ t.phase = "previous" /\ t.key = r.key /\ t.hint \in Shas
      BY <2>3, <3>1 DEF JobState, Phases
    <3>3. t.found = {} /\ t.inline = FALSE
      BY <1>2, <3>1 DEF JobState
    <3>4. s = t
      BY <2>3
    <3> HIDE DEF t
    <3>5. Typed(t)
      BY <1>2, <3>2 DEF Typed
    <3>6. JobSound(t)
      BY <3>2, <3>3 DEF JobSound, Asked, Probed, Resumed, Undecided,
              OnlyIncrementalInlines, Covered, OwnFinding
    <3> QED
      BY <3>4, <3>5, <3>6
  <2>4. CASE ~ Raises(n) /\ ~ Readable(n) /\ ~ (r.hint \notin {NoSha, r.key.sha})
    BY <1>1, <1>2, <2>4, FreshSound
  <2> QED
    BY <2>1, <2>2, <2>3, <2>4
<1>5. UNCHANGED <<files, damages, runs, published>>
  BY DEF LoadCurrent
<1> HIDE DEF s
<1> QED
  BY <1>3, <1>4, <1>5, OneJob DEF Inv, TypeOK

(* A look-up at the hinted head finds the record of that head, if any. *)
LEMMA LoadPreviousKeeps ==
  ASSUME Inv, NEW j \in Jobs, LoadPrevious(j)
  PROVE  Inv'
<1> DEFINE r == job[j]
           n == PathFor(WithSha(r.key, r.hint))
           s == IF Raises(n) THEN Aborted(r)
                ELSE IF Readable(n)
                     THEN [r EXCEPT !.phase = "probe", !.prior = files[n].state]
                ELSE Fresh(r)
<1>1. Typed(r) /\ JobSound(r) /\ r.phase = "previous"
  BY TypedJob DEF Inv, LoadPrevious
<1>2. /\ r.key \in Key /\ r.phase # "idle" /\ r.found = {} /\ r.inline = FALSE
      /\ r.hint \in Shas
  BY <1>1 DEF Typed, JobSound, Undecided, Asked
<1>3. job' = [job EXCEPT ![j] = s]
  BY DEF LoadPrevious
<1>4. Typed(s) /\ JobSound(s)
  <2>1. CASE Raises(n)
    BY <1>1, <1>2, <2>1, AbortedSound
  <2>2. CASE ~ Raises(n) /\ Readable(n)
    <3> DEFINE prior == files[n].state
               t == [r EXCEPT !.phase = "probe", !.prior = prior]
    <3>1. prior \in Envelope /\ prior.key = WithSha(r.key, r.hint) /\ Sound(prior)
      BY <1>2, <2>2, FoundPrior
    <3>2. r \in JobState
      BY <1>1 DEF Typed
    <3>3. s = t
      BY <2>2
    <3> HIDE DEF prior
    <3>4. /\ t \in JobState /\ t.phase = "probe" /\ t.key = r.key
          /\ t.hint = r.hint /\ t.prior = prior /\ t.found = {} /\ t.inline = FALSE
      BY <1>2, <3>1, <3>2 DEF JobState, Phases
    <3> HIDE DEF t
    <3>5. Typed(t)
      BY <1>2, <3>1, <3>4 DEF Typed
    <3>6. JobSound(t)
      BY <1>2, <3>1, <3>4 DEF JobSound, Asked, Probed, PriorSound, Resumed,
              Undecided, OnlyIncrementalInlines, Covered, OwnFinding
    <3> QED
      BY <3>3, <3>5, <3>6
  <2>3. CASE ~ Raises(n) /\ ~ Readable(n)
    BY <1>1, <1>2, <2>3, FreshSound
  <2> QED
    BY <2>1, <2>2, <2>3
<1>5. UNCHANGED <<files, damages, runs, published>>
  BY DEF LoadPrevious
<1> HIDE DEF s
<1> QED
  BY <1>3, <1>4, <1>5, OneJob DEF Inv, TypeOK

(* Only a record of an ancestor is continued. *)
LEMMA ProbeKeeps ==
  ASSUME Inv, NEW j \in Jobs, Probe(j)
  PROVE  Inv'
<1> DEFINE r == job[j]
           new == r.key.sha
           old == r.hint
           t(small) == [r EXCEPT !.phase = "scope", !.decision = "incremental",
                                 !.inline = small /\ Changed(old, new) # {}]
           s(gitOk, small) ==
             IF ~ gitOk \/ old \notin Ancestors[new] THEN Fresh(r)
             ELSE IF Commits(old, new) = {} /\ Changed(old, new) = {}
                  THEN Same(r, r.prior)
             ELSE t(small)
<1>1. Typed(r) /\ JobSound(r) /\ r.phase = "probe"
  BY TypedJob DEF Inv, Probe
<1>2. /\ r.key \in Key /\ r.phase # "idle" /\ r.found = {} /\ r.inline = FALSE
      /\ r.prior \in Envelope /\ PriorSound(r) /\ r \in JobState
  BY <1>1 DEF Typed, JobSound, Undecided, Probed
<1>3. PICK gitOk \in BOOLEAN, small \in BOOLEAN :
        job' = [job EXCEPT ![j] = s(gitOk, small)]
  BY DEF Probe
<1>4. Typed(s(gitOk, small)) /\ JobSound(s(gitOk, small))
  <2>1. CASE ~ gitOk \/ old \notin Ancestors[new]
    BY <1>1, <1>2, <2>1, FreshSound
  <2>2. CASE /\ gitOk /\ old \in Ancestors[new]
             /\ Commits(old, new) = {} /\ Changed(old, new) = {}
    BY <1>1, <1>2, <2>2, SameSound
  <2>3. CASE /\ gitOk /\ old \in Ancestors[new]
             /\ ~ (Commits(old, new) = {} /\ Changed(old, new) = {})
    <3>1. s(gitOk, small) = t(small)
      BY <2>3
    <3>2. (small /\ Changed(old, new) # {}) \in BOOLEAN
      OBVIOUS
    <3>3. /\ t(small) \in JobState /\ t(small).phase = "scope"
          /\ t(small).decision = "incremental" /\ t(small).key = r.key
          /\ t(small).hint = r.hint /\ t(small).prior = r.prior
          /\ t(small).found = {}
      BY <1>2, <3>2 DEF JobState, Phases, Decisions
    <3> HIDE DEF t
    <3>4. Typed(t(small))
      BY <1>2, <3>3 DEF Typed
    <3>5. JobSound(t(small))
      BY <1>2, <2>3, <3>3 DEF JobSound, Asked, Probed, PriorSound, Resumed,
              Undecided, OnlyIncrementalInlines, Covered, OwnFinding
    <3> QED
      BY <3>1, <3>4, <3>5
  <2> QED
    BY <2>1, <2>2, <2>3
<1>5. UNCHANGED <<files, damages, runs, published>>
  BY DEF Probe
<1> HIDE DEF s
<1> QED
  BY <1>3, <1>4, <1>5, OneJob DEF Inv, TypeOK

(* The paths of the delta select the changed files of the pull request, or *)
(* none, and then every file is reviewed.                                  *)
LEMMA ScopedCovers ==
  ASSUME NEW r \in JobState, r.key \in Key, r.hint \in Shas,
         OnlyIncrementalInlines(r), NEW paths \in DeltaPaths(r),
         NEW t, t.key = r.key, t.hint = r.hint, t.inline = r.inline,
         t.decision = r.decision, t.scope = ScopedFiles(r, paths)
  PROVE  Covered(t)
<1> DEFINE all == PRFiles[r.key.sha]
           delta == Changed(r.hint, r.key.sha)
<1>1. CASE r.decision # "incremental"
  <2>1. paths = {}
    BY <1>1 DEF DeltaPaths
  <2>2. ScopedFiles(r, paths) = all
    BY <2>1 DEF ScopedFiles
  <2> QED
    BY <1>1, <2>2 DEF Covered, Shown
<1>2. CASE r.decision = "incremental" /\ r.inline
  <2>1. delta \subseteq Shown(t)
    BY <1>2 DEF Shown
  <2> QED
    BY <1>2, <2>1 DEF Covered
<1>3. CASE r.decision = "incremental" /\ ~ r.inline
  <2>1. paths \in {NameOnly(r.hint, r.key.sha), {}}
    BY <1>3 DEF DeltaPaths
  <2>2. Quoted = {} => all \cap delta \subseteq ScopedFiles(r, paths)
    <3>1. CASE paths = {}
      BY <3>1 DEF ScopedFiles
    <3>2. CASE paths = NameOnly(r.hint, r.key.sha)
      BY <3>2 DEF ScopedFiles, NameOnly
    <3> QED
      BY <2>1, <3>1, <3>2
  <2>3. ScopedFiles(r, paths) \subseteq Shown(t)
    BY DEF Shown
  <2> QED
    BY <1>3, <2>2, <2>3 DEF Covered
<1>4. r.inline \in BOOLEAN
  BY DEF JobState
<1> QED
  BY <1>1, <1>2, <1>3, <1>4

(* A run that starts over has no hint to speak of; its scope is everything.*)
LEMMA FreshCovers ==
  ASSUME NEW r, r.decision # "incremental", NEW paths \in DeltaPaths(r),
         NEW t, t.key = r.key, t.decision = r.decision,
         t.scope = ScopedFiles(r, paths)
  PROVE  Covered(t)
<1>1. paths = {}
  BY DEF DeltaPaths
<1>2. ScopedFiles(r, paths) = PRFiles[r.key.sha]
  BY <1>1 DEF ScopedFiles
<1> QED
  BY <1>2 DEF Covered, Shown

LEMMA ScopeKeeps ==
  ASSUME Inv, NEW j \in Jobs, Scope(j)
  PROVE  Inv'
<1> DEFINE r == job[j]
           t(paths) == [r EXCEPT !.phase = "review", !.scope = ScopedFiles(r, paths)]
<1>1. Typed(r) /\ JobSound(r) /\ r.phase = "scope"
  BY TypedJob DEF Inv, Scope
<1>2. r.key \in Key /\ r.prior \in Envelope /\ r \in JobState
  BY <1>1 DEF Typed
<1>3. PICK paths \in DeltaPaths(r) :
        job' = [job EXCEPT ![j].phase = "review", ![j].scope = ScopedFiles(r, paths)]
  BY DEF Scope
<1>4. job' = [job EXCEPT ![j] = t(paths)]
  BY <1>2, <1>3 DEF JobState, Inv, TypeOK
<1>5. ScopedFiles(r, paths) \subseteq Files
  BY <1>2, StateAssumption DEF ScopedFiles, Key
<1>6. /\ t(paths) \in JobState /\ t(paths).phase = "review"
      /\ t(paths).key = r.key /\ t(paths).hint = r.hint /\ t(paths).prior = r.prior
      /\ t(paths).decision = r.decision /\ t(paths).inline = r.inline
      /\ t(paths).found = r.found /\ t(paths).scope = ScopedFiles(r, paths)
  BY <1>2, <1>5 DEF JobState, Phases
<1> HIDE DEF t
<1>7. Typed(t(paths))
  BY <1>2, <1>6 DEF Typed
<1>8. Covered(t(paths))
  <2>1. CASE r.decision = "incremental"
    <3>1. r.hint \in Shas /\ OnlyIncrementalInlines(r)
      BY <1>1, <2>1 DEF JobSound, Resumed, PriorSound
    <3> QED
      BY <1>2, <1>6, <3>1, ScopedCovers
  <2>2. CASE r.decision # "incremental"
    BY <1>6, <2>2, FreshCovers
  <2> QED
    BY <2>1, <2>2
<1>9. JobSound(t(paths))
  <2>1. Resumed(t(paths))
    BY <1>1, <1>6 DEF JobSound, Resumed, PriorSound
  <2>2. OnlyIncrementalInlines(t(paths)) /\ OwnFinding(t(paths))
    BY <1>1, <1>6 DEF JobSound, OnlyIncrementalInlines, OwnFinding
  <2> QED
    BY <1>6, <1>8, <2>1, <2>2 DEF JobSound, Asked, Probed, Undecided
<1>10. UNCHANGED <<files, damages, runs, published>>
  BY DEF Scope
<1> QED
  BY <1>4, <1>7, <1>9, <1>10, OneJob DEF Inv, TypeOK

LEMMA ReviewKeeps ==
  ASSUME Inv, NEW j \in Jobs, Review(j)
  PROVE  Inv'
<1> DEFINE r == job[j]
           t(found) == [r EXCEPT !.phase = "record", !.found = found]
<1>1. Typed(r) /\ JobSound(r) /\ r.phase = "review"
  BY TypedJob DEF Inv, Review
<1>2. r.key \in Key /\ r.prior \in Envelope /\ r \in JobState
  BY <1>1 DEF Typed
<1>3. PICK found \in SUBSET {r.key} :
        job' = [job EXCEPT ![j].phase = "record", ![j].found = found]
  BY DEF Review
<1>4. job' = [job EXCEPT ![j] = t(found)]
  BY <1>2, <1>3 DEF JobState, Inv, TypeOK
<1>5. found \subseteq Finding
  BY <1>2 DEF Key, Finding
<1>6. /\ t(found) \in JobState /\ t(found).phase = "record"
      /\ t(found).key = r.key /\ t(found).hint = r.hint /\ t(found).prior = r.prior
      /\ t(found).decision = r.decision /\ t(found).inline = r.inline
      /\ t(found).found = found /\ t(found).scope = r.scope
  BY <1>2, <1>5 DEF JobState, Phases
<1> HIDE DEF t
<1>7. Typed(t(found))
  BY <1>2, <1>6 DEF Typed
<1>8. Shown(t(found)) = Shown(r)
  BY <1>6 DEF Shown
<1>9. JobSound(t(found))
  <2>1. Resumed(t(found))
    BY <1>1, <1>6 DEF JobSound, Resumed, PriorSound
  <2>2. Covered(t(found))
    BY <1>1, <1>6, <1>8 DEF JobSound, Covered
  <2>3. OnlyIncrementalInlines(t(found)) /\ OwnFinding(t(found))
    BY <1>1, <1>6 DEF JobSound, OnlyIncrementalInlines, OwnFinding
  <2> QED
    BY <1>6, <2>1, <2>2, <2>3 DEF JobSound, Asked, Probed, Undecided
<1>10. published' \in [PRs -> SUBSET Shas]
  BY <1>2 DEF Review, Inv, TypeOK, Key
<1>11. UNCHANGED <<files, damages, runs>>
  BY DEF Review
<1> QED
  BY <1>4, <1>7, <1>9, <1>10, <1>11, OneJob DEF Inv, TypeOK

-----------------------------------------------------------------------------
(* The record that a run writes.                                           *)

LEMMA ShownFiles ==
  ASSUME NEW r \in JobState, r.key \in Key
  PROVE  Seen(r) \subseteq Files \X Versions
<1>1. Shown(r) \subseteq Files
  BY DEF Shown, Changed, JobState
<1>2. r.key.sha \in Shas
  BY DEF Key
<1>3. \A f \in Shown(r) : Version[r.key.sha][f] \in Versions
  BY <1>1, <1>2, StateAssumption
<1> QED
  BY <1>1, <1>3 DEF Seen

(* A record written anew holds the run's own finding, and its review was   *)
(* shown the whole pull request.                                           *)
LEMMA NewRecord ==
  ASSUME NEW r, Typed(r), JobSound(r), r.phase = "record",
         r.decision # "incremental"
  PROVE  /\ RunEnvelope(r) \in Envelope
         /\ RunEnvelope(r).key = r.key
         /\ Sound(RunEnvelope(r))
<1> DEFINE e == RunEnvelope(r)
<1>1. r \in JobState /\ r.key \in Key /\ r.found \subseteq {r.key}
  BY DEF Typed, JobSound, OwnFinding
<1>2. e = [key |-> r.key, findings |-> r.found, carried |-> {}, seen |-> Seen(r)]
  BY DEF RunEnvelope, Empty
<1>3. Seen(r) \subseteq Files \X Versions
  BY <1>1, ShownFiles
<1>4. r.found \subseteq Finding
  BY <1>1 DEF JobState
<1>5. e \in Envelope
  BY <1>1, <1>2, <1>3, <1>4 DEF Envelope
<1>6. OwnLineage(e)
  BY <1>1, <1>2, StateAssumption DEF OwnLineage, Key
<1>7. Complete(e)
  <2>1. PRFiles[r.key.sha] \subseteq Shown(r)
    BY DEF JobSound, Covered
  <2> QED
    BY <1>2, <2>1 DEF Complete, Seen
<1> QED
  BY <1>2, <1>5, <1>6, <1>7 DEF Sound

(* A record that is continued keeps its lineage, because its head is an    *)
(* ancestor, and its completeness, because a file is either unchanged since*)
(* that head or among those shown.                                         *)
LEMMA ContinuedRecord ==
  ASSUME NEW r, Typed(r), JobSound(r), r.phase = "record",
         r.decision = "incremental"
  PROVE  /\ RunEnvelope(r) \in Envelope
         /\ RunEnvelope(r).key = r.key
         /\ Sound(RunEnvelope(r))
<1> DEFINE e == RunEnvelope(r)
           p == r.prior
           new == r.key.sha
           old == r.hint
<1>1. /\ r \in JobState /\ r.key \in Key /\ r.found \subseteq {r.key}
      /\ p \in Envelope
  BY DEF Typed, JobSound, OwnFinding
<1>2. /\ old \in Shas /\ p.key = WithSha(r.key, old) /\ Sound(p)
      /\ old \in Ancestors[new] /\ new \in Shas
  BY <1>1 DEF JobSound, Resumed, PriorSound, Key
<1>3. WithSha(p.key, new) = r.key
  BY <1>1, <1>2 DEF WithSha, Key
<1>4. /\ e.key = r.key
      /\ e.findings = p.findings \cup r.found
      /\ e.carried = p.carried \cup p.findings
      /\ e.seen = p.seen \cup Seen(r)
      /\ e = [key |-> e.key, findings |-> e.findings, carried |-> e.carried,
              seen |-> e.seen]
  BY <1>1, <1>3 DEF RunEnvelope, MigrateToSha, Envelope
<1>5. Seen(r) \subseteq Files \X Versions /\ r.found \subseteq Finding
  BY <1>1, ShownFiles DEF JobState
<1> HIDE DEF e
<1>6. e \in Envelope
  <2>1. p.findings \subseteq Finding /\ p.carried \subseteq Finding
        /\ p.seen \subseteq Files \X Versions
    BY <1>1 DEF Envelope
  <2>2. /\ e.key \in Key /\ e.findings \in SUBSET Finding
        /\ e.carried \in SUBSET Finding /\ e.seen \in SUBSET (Files \X Versions)
    BY <1>1, <1>4, <1>5, <2>1
  <2> QED
    BY <1>4, <2>2 DEF Envelope
<1>7. OwnLineage(e)
  <2> SUFFICES ASSUME NEW f \in e.findings \cup e.carried
               PROVE  /\ f.pr = r.key.pr /\ f.model = r.key.model
                      /\ f.sha \in Ancestors[new]
    BY <1>4 DEF OwnLineage
  <2>1. CASE f \in p.findings \cup p.carried
    <3>1. f.pr = p.key.pr /\ f.model = p.key.model /\ f.sha \in Ancestors[p.key.sha]
      BY <1>2, <2>1 DEF Sound, OwnLineage
    <3>2. p.key.pr = r.key.pr /\ p.key.model = r.key.model /\ p.key.sha = old
      BY <1>1, <1>2, WithShaType
    <3>3. Ancestors[old] \subseteq Ancestors[new]
      BY <1>2, StateAssumption
    <3> QED
      BY <3>1, <3>2, <3>3
  <2>2. CASE f \in r.found
    BY <1>1, <1>2, <2>2, StateAssumption
  <2> QED
    BY <1>4, <2>1, <2>2
<1>8. Quoted = {} => Complete(e)
  <2> SUFFICES ASSUME Quoted = {}, NEW f \in PRFiles[new]
               PROVE  <<f, Version[new][f]>> \in e.seen
    BY <1>4 DEF Complete
  <2>0. f \in Files
    BY <1>2, StateAssumption
  <2>1. CASE Version[old][f] = Version[new][f]
    <3>1. f \in PRFiles[old]
      BY <1>2, <2>1, ScopeAssumption
    <3>2. Complete(p) /\ p.key.sha = old
      BY <1>1, <1>2, WithShaType DEF Sound
    <3>3. <<f, Version[old][f]>> \in p.seen
      BY <3>1, <3>2 DEF Complete
    <3> QED
      BY <1>4, <2>1, <3>3
  <2>2. CASE Version[old][f] # Version[new][f]
    <3>1. f \in Changed(old, new)
      BY <2>0, <2>2 DEF Changed
    <3>2. f \in Shown(r)
      BY <3>1 DEF JobSound, Covered
    <3> QED
      BY <1>4, <3>2 DEF Seen
  <2> QED
    BY <2>1, <2>2
<1> QED
  BY <1>2, <1>4, <1>6, <1>7, <1>8 DEF Sound, e

LEMMA RecordWritten ==
  ASSUME NEW r, Typed(r), JobSound(r), r.phase = "record"
  PROVE  /\ RunEnvelope(r) \in Envelope
         /\ RunEnvelope(r).key = r.key
         /\ Sound(RunEnvelope(r))
  BY NewRecord, ContinuedRecord

LEMMA RecordRunKeeps ==
  ASSUME Inv, NEW j \in Jobs, RecordRun(j)
  PROVE  Inv'
<1> DEFINE e == RunEnvelope(job[j])
           n == PathFor(job[j].key)
<1>1. Typed(job[j]) /\ JobSound(job[j]) /\ job[j].phase = "record"
  BY TypedJob DEF Inv, RecordRun
<1>2. e \in Envelope /\ e.key = job[j].key /\ Sound(e)
  BY <1>1, RecordWritten
<1> HIDE DEF e
<1>3. job[j].key \in Key /\ n \in Names
  BY <1>1, NameOfKey DEF Typed
<1>4. files' = [files EXCEPT ![n] = Record(e)]
  BY <1>2 DEF RecordRun, Save, e
<1>5. Record(e) \in Content
  BY <1>2 DEF Record, Content
<1>6. files' \in [Names -> Content]
  BY <1>4, <1>5 DEF Inv, TypeOK
<1>7. FilesSound'
  <2> SUFFICES ASSUME NEW m \in Names, files'[m].kind = "record"
               PROVE  Sound(files'[m].state) /\ PathFor(files'[m].state.key) = m
    BY DEF FilesSound
  <2>1. CASE m = n
    <3>1. files'[m].state = e
      BY <1>4, <2>1 DEF Inv, TypeOK, Record
    <3> QED
      BY <1>2, <2>1, <3>1
  <2>2. CASE m # n
    <3>1. files'[m] = files[m]
      BY <1>4, <2>2 DEF Inv, TypeOK
    <3> QED
      BY <3>1 DEF Inv, FilesSound
  <2> QED
    BY <2>1, <2>2
<1>8. \A i \in Jobs : Typed(job'[i]) /\ JobSound(job'[i])
  <2> TAKE i \in Jobs
  <2>1. job'[i] = IF i = j THEN Idle ELSE job[i]
    BY DEF RecordRun, Inv, TypeOK
  <2>2. Typed(job[i]) /\ JobSound(job[i])
    BY TypedJob DEF Inv
  <2> QED
    BY <2>1, <2>2, IdleSound
<1>9. job' \in [Jobs -> JobState]
  BY IdleSound DEF RecordRun, Inv, TypeOK, Typed
<1>10. TypeOK'
  <2>1. UNCHANGED <<published, runs, damages>>
    BY DEF RecordRun
  <2> QED
    BY <1>6, <1>8, <1>9, <2>1 DEF Inv, TypeOK, Typed
<1> QED
  BY <1>7, <1>8, <1>10 DEF Inv

LEMMA DieKeeps ==
  ASSUME Inv, NEW j \in Jobs, Die(j)
  PROVE  Inv'
  BY IdleSound, OneJob DEF Die, Inv, TypeOK

LEMMA DamageKeeps ==
  ASSUME Inv, NEW n \in Names, Damage(n)
  PROVE  Inv'
<1>1. PICK kind \in Damages : files' = [files EXCEPT ![n] = [kind |-> kind]]
  BY DEF Damage
<1>2. [kind |-> kind] \in Content /\ kind # "record"
  BY DEF Content, Damages
<1>3. files' \in [Names -> Content]
  BY <1>1, <1>2 DEF Inv, TypeOK
<1>4. \A m \in Names : files'[m].kind = "record" => files'[m] = files[m]
  BY <1>1, <1>2 DEF Inv, TypeOK
<1>5. UNCHANGED <<job, published, runs>> /\ damages' \in 0..MaxDamage
  BY StateAssumption DEF Damage, Inv, TypeOK
<1>6. TypeOK'
  BY <1>3, <1>5 DEF Inv, TypeOK
<1>7. FilesSound'
  BY <1>4 DEF Inv, FilesSound
<1> QED
  BY <1>5, <1>6, <1>7 DEF Inv

-----------------------------------------------------------------------------
(* The theorems.                                                           *)

LEMMA InitInv ==
  ASSUME Init
  PROVE  Inv
<1>1. Idle \in JobState
  BY IdleSound DEF Typed
<1>2. Missing \in Content
  BY DEF Missing, Content, Damages
<1>3. \A j \in Jobs : job[j] = Idle /\ Typed(job[j]) /\ JobSound(job[j])
  BY IdleSound DEF Init
<1>4. TypeOK
  BY <1>1, <1>2, <1>3, StateAssumption DEF Init, TypeOK, Typed
<1>5. FilesSound
  BY DEF Init, FilesSound, Missing
<1> QED
  BY <1>3, <1>4, <1>5 DEF Inv

LEMMA NextInv ==
  ASSUME Inv, [Next]_vars
  PROVE  Inv'
<1>1. CASE UNCHANGED vars
  BY <1>1 DEF vars, Inv, TypeOK, FilesSound
<1>2. ASSUME NEW j \in Jobs, Start(j) PROVE Inv'
  BY <1>2, StartKeeps
<1>3. ASSUME NEW j \in Jobs, LoadCurrent(j) PROVE Inv'
  BY <1>3, LoadCurrentKeeps
<1>4. ASSUME NEW j \in Jobs, LoadPrevious(j) PROVE Inv'
  BY <1>4, LoadPreviousKeeps
<1>5. ASSUME NEW j \in Jobs, Probe(j) PROVE Inv'
  BY <1>5, ProbeKeeps
<1>6. ASSUME NEW j \in Jobs, Scope(j) PROVE Inv'
  BY <1>6, ScopeKeeps
<1>7. ASSUME NEW j \in Jobs, Review(j) PROVE Inv'
  BY <1>7, ReviewKeeps
<1>8. ASSUME NEW j \in Jobs, RecordRun(j) PROVE Inv'
  BY <1>8, RecordRunKeeps
<1>9. ASSUME NEW j \in Jobs, Die(j) PROVE Inv'
  BY <1>9, DieKeeps
<1>10. ASSUME NEW n \in Names, Damage(n) PROVE Inv'
  BY <1>10, DamageKeeps
<1> QED
  BY <1>1, <1>2, <1>3, <1>4, <1>5, <1>6, <1>7, <1>8, <1>9, <1>10 DEF Next

THEOREM Invariance == Spec => []Inv
<1>1. Init => Inv
  BY InitInv
<1>2. Inv /\ [Next]_vars => Inv'
  BY NextInv
<1> QED
  BY <1>1, <1>2, PTL DEF Spec

(* Every file, run and counter keeps its type, whatever is damaged when. *)
THEOREM TypeCorrect == Spec => []TypeOK
<1>1. Inv => TypeOK
  BY DEF Inv
<1> QED
  BY <1>1, Invariance, PTL

(* No record holds a finding of another pull request or model, or of a head*)
(* that a forced push threw away.                                          *)
THEOREM Lineage == Spec => []NoForeignFindings
<1>1. Inv => NoForeignFindings
  BY DEF Inv, FilesSound, Sound, NoForeignFindings
<1> QED
  BY <1>1, Invariance, PTL

(* As long as git quotes no path, the reviews behind a record were shown   *)
(* every file of the pull request as it is at the record's head.           *)
THEOREM Coverage ==
  ASSUME Quoted = {}
  PROVE  Spec => []FullyReviewed
<1>1. Inv => FullyReviewed
  BY DEF Inv, FilesSound, Sound, FullyReviewed
<1> QED
  BY <1>1, Invariance, PTL

(* A run writes the record of its own key and leaves its neighbours alone. *)
THEOREM OwnRecord == Spec => OnlyOwnRecordWritten
<1> DEFINE Own ==
      \A n \in Names :
        files'[n] # files[n] /\ files'[n].kind = "record" =>
          \E j \in Jobs : job[j].phase = "record" /\ PathFor(job[j].key) = n
<1>1. ASSUME Inv, [Next]_vars PROVE [Own]_vars
  <2>1. CASE UNCHANGED files
    BY <2>1
  <2>2. ASSUME NEW j \in Jobs, RecordRun(j) PROVE Own
    <3>1. Typed(job[j]) /\ JobSound(job[j]) /\ job[j].phase = "record"
      BY <1>1, <2>2, TypedJob DEF Inv, RecordRun
    <3>2. RunEnvelope(job[j]).key = job[j].key
      BY <3>1, RecordWritten
    <3>3. \A n \in Names : n # PathFor(job[j].key) => files'[n] = files[n]
      BY <1>1, <2>2, <3>2 DEF RecordRun, Save, Inv, TypeOK
    <3> QED
      BY <3>1, <3>3
  <2>3. ASSUME NEW n \in Names, Damage(n) PROVE Own
    BY <1>1, <2>3 DEF Damage, Damages, Inv, TypeOK
  <2>4. UNCHANGED files \/ (\E j \in Jobs : RecordRun(j)) \/ (\E n \in Names : Damage(n))
    BY <1>1 DEF Next, vars, Start, LoadCurrent, LoadPrevious, Probe, Scope,
                Review, Die
  <2> QED
    BY <2>1, <2>2, <2>3, <2>4
<1>2. Inv /\ [Next]_vars => [Own]_vars
  BY <1>1
<1> QED
  BY <1>2, Invariance, PTL DEF Spec, OnlyOwnRecordWritten
=============================================================================
