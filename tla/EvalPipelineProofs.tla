-------------------------- MODULE EvalPipelineProofs --------------------------
(***************************************************************************)
(* Proofs about the files of the bake-off, for any number of pull requests,*)
(* heads, findings and commands: what a script leaves behind when it has   *)
(* gone over every pull request passes its own check, and only a capture of*)
(* the pinned head counts as scored.                                       *)
(***************************************************************************)
EXTENDS EvalPipeline, FiniteSetTheorems, FunctionTheorems, TLAPS

Captures ==
  {c \in [status : Statuses, sha : Shas \cup {NoSha}, body : Bodies \cup {{}}] :
     c.body # {} => c.status \in {"captured", "replayed", "completed"}}

Files ==
  /\ registry \in [PRs -> Shas] /\ dataset \in [PRs -> Shas]
  /\ runs \in [Sides -> [PRs -> Captures]]
  /\ fixtures \in [Sides -> [PRs -> Captures]]
  /\ bake \in [PRs -> Captures]
  /\ \A s \in Sides, p \in PRs : runs[s][p].sha \in Shas
  /\ DOMAIN parity = PRs /\ DOMAIN overlap = PRs
  /\ DOMAIN scored = PRs /\ DOMAIN records = PRs
  /\ commands \in 0..MaxCommands

Running ==
  [script : {"capture", "copy", "compare", "overlap", "report", "score", "bake", "build"},
   side : Sides \cup {""}, targets : SUBSET PRs, todo : SUBSET PRs,
   mode : {"", "live", "force", "force_dry", "rows", "all", "json", "md",
           "offline", "replay"}]

(* The running script, if there is one.                                    *)
Doing ==
  job # Idle =>
    /\ job \in Running
    /\ job.todo \subseteq job.targets
    /\ job.script \in {"capture", "copy"} => job.side \in Sides
    /\ job.script = "bake" => job.mode \in {"offline", "replay", "live"}
    /\ job.mode = "md" => job.script = "report"
    /\ done = Idle

(* What it has worked off is as it would write it now, because nothing it  *)
(* reads changes while it runs.                                            *)
Progress ==
  /\ job.script = "copy" => \A p \in job.targets \ job.todo :
                              fixtures[job.side][p] = runs[job.side][p]
  /\ job.script = "compare" => \A p \in job.targets \ job.todo : parity[p] = Compared(p)
  /\ job.script = "overlap" => \A p \in job.targets \ job.todo :
                                 overlap[p] = Overlap(Compared(p))
  /\ job.script = "score" => /\ dataset = registry
                             /\ \A p \in job.targets \ job.todo : scored[p] = Scored(p)
  /\ job.script = "build" => \A p \in job.targets \ job.todo : records[p] = Record(p)
  /\ job.mode = "md" => report = Report

Inv == Files /\ Doing /\ Progress /\ FreshAfterRun

-----------------------------------------------------------------------------
(* What a file says depends on the files it is derived from only.          *)

LEMMA ComparedStays ==
  ASSUME UNCHANGED fixtures
  PROVE  /\ \A p : Compared(p)' = Compared(p)
         /\ \A targets : SummaryRows(targets)' = SummaryRows(targets)
         /\ Aggregate' = Aggregate
<1>1. \A p : Compared(p)' = Compared(p)
  BY DEF Compared
<1>2. \A targets : SummaryRows(targets)' = SummaryRows(targets)
  BY <1>1 DEF SummaryRows
<1>3. [p \in PRs |-> Compared(p)]' = [p \in PRs |-> Compared(p)]
  BY <1>1
<1>4. Aggregate' = Aggregate
  BY <1>3 DEF Aggregate
<1> QED
  BY <1>1, <1>2, <1>4

LEMMA ScoredStays ==
  ASSUME UNCHANGED <<registry, runs>>
  PROVE  /\ \A p : Scored(p)' = Scored(p)
         /\ \A targets : ScoringRows(targets)' = ScoringRows(targets)
<1>1. \A p : Scored(p)' = Scored(p)
  BY DEF Scored
<1> QED
  BY <1>1 DEF ScoringRows

LEMMA RecordStays ==
  ASSUME UNCHANGED <<registry, runs, bake>>
  PROVE  /\ \A p : Record(p)' = Record(p)
         /\ \A targets : IndexRows(targets)' = IndexRows(targets)
<1>1. \A p : Record(p)' = Record(p)
  BY DEF Record
<1> QED
  BY <1>1 DEF IndexRows

LEMMA ReportStays ==
  ASSUME UNCHANGED <<parity, overlap, aggregate>>
  PROVE  Report' = Report
  BY DEF Report

(* A capture of a review of any outcome.                                   *)
LEMMA CaptureType ==
  ASSUME NEW status \in Statuses, NEW sha \in Shas \cup {NoSha},
         NEW body \in Bodies \cup {{}},
         body # {} => status \in {"captured", "replayed", "completed"}
  PROVE  /\ Capture(status, sha, body) \in Captures
         /\ Capture(status, sha, body).sha = sha
  BY DEF Capture, Captures

LEMMA StatusNames ==
  {"missing", "torn", "pending", "failed", "captured", "unfilled",
   "skipped_dry_run", "replayed", "error", "completed"} \subseteq Statuses
  BY DEF Statuses

-----------------------------------------------------------------------------
(* Steps.                                                                  *)

LEMMA InitInv == Init => Inv
<1> SUFFICES ASSUME Init PROVE Inv
  OBVIOUS
<1>1. PICK sha \in Shas :
        /\ registry = [p \in PRs |-> sha]
        /\ \E start \in Starts :
             /\ runs = [s \in Sides |-> [p \in PRs |->
                       IF start[s][p] = Pending THEN Capture("pending", sha, {})
                       ELSE Capture("captured", sha, start[s][p])]]
             /\ \/ fixtures = runs
                \/ fixtures = [runs EXCEPT !["openrouter"] =
                                 [p \in PRs |-> Capture("pending", sha, {})]]
             /\ bake = [p \in PRs |->
                       IF start["openrouter"][p] = Pending THEN Capture("skipped_dry_run", sha, {})
                       ELSE Capture("completed", sha, start["openrouter"][p])]
  BY DEF Init
<1>2. PICK start \in Starts :
             /\ runs = [s \in Sides |-> [p \in PRs |->
                       IF start[s][p] = Pending THEN Capture("pending", sha, {})
                       ELSE Capture("captured", sha, start[s][p])]]
             /\ \/ fixtures = runs
                \/ fixtures = [runs EXCEPT !["openrouter"] =
                                 [p \in PRs |-> Capture("pending", sha, {})]]
             /\ bake = [p \in PRs |->
                       IF start["openrouter"][p] = Pending THEN Capture("skipped_dry_run", sha, {})
                       ELSE Capture("completed", sha, start["openrouter"][p])]
  BY <1>1
<1>3. "openrouter" \in Sides
  BY DEF Sides
<1>4. \A s \in Sides, p \in PRs : start[s][p] # Pending => start[s][p] \in Bodies
  BY EvalAssumption
<1>5. /\ Capture("pending", sha, {}) \in Captures
      /\ Capture("pending", sha, {}).sha = sha
      /\ Capture("skipped_dry_run", sha, {}) \in Captures
  BY CaptureType, StatusNames
<1>6. \A b \in Bodies : /\ Capture("captured", sha, b) \in Captures
                        /\ Capture("captured", sha, b).sha = sha
                        /\ Capture("completed", sha, b) \in Captures
  BY CaptureType, StatusNames
<1>7. /\ runs \in [Sides -> [PRs -> Captures]]
      /\ \A s \in Sides, p \in PRs : runs[s][p].sha \in Shas
  BY <1>2, <1>4, <1>5, <1>6
<1>8. fixtures \in [Sides -> [PRs -> Captures]]
  BY <1>2, <1>5, <1>7
<1>9. bake \in [PRs -> Captures]
  BY <1>2, <1>3, <1>4, <1>5, <1>6
<1>10. Files
  <2>1. registry \in [PRs -> Shas] /\ dataset \in [PRs -> Shas]
    BY <1>1 DEF Init
  <2>2. /\ DOMAIN parity = PRs /\ DOMAIN overlap = PRs
        /\ DOMAIN scored = PRs /\ DOMAIN records = PRs
    BY DEF Init
  <2>3. commands \in 0..MaxCommands
    BY EvalAssumption DEF Init
  <2> QED
    BY <1>7, <1>8, <1>9, <2>1, <2>2, <2>3 DEF Files
<1>11. job = Idle /\ done = Idle
  BY DEF Init
<1> QED
  BY <1>10, <1>11 DEF Inv, Doing, Progress, FreshAfterRun, Idle

(* While a script runs and none has just finished, only the files and the  *)
(* script's progress are at stake.                                         *)
LEMMA NotDone ==
  ASSUME Files', Doing', Progress', done' = Idle
  PROVE  Inv'
  BY DEF Inv, FreshAfterRun, Idle

LEMMA IdleFields == Idle.script = "idle" /\ Idle.mode = ""
  BY DEF Idle

Names ==
  {"capture", "copy", "compare", "overlap", "report", "score", "bake", "build"}

(* One pull request of a script's list.                                    *)
LEMMA WorkingStep ==
  ASSUME Inv, NEW script \in Names, NEW p, Working(script, p)
  PROVE  /\ job.script = script /\ p \in PRs /\ job.targets \subseteq PRs
         /\ script \in {"capture", "copy"} => job.side \in Sides
         /\ script = "bake" => job.mode \in {"offline", "replay", "live"}
         /\ script # "report" => job'.mode # "md"
         /\ job'.script = script /\ job'.side = job.side /\ job'.mode = job.mode
         /\ job'.targets = job.targets /\ job'.todo = job.todo \ {p}
         /\ done' = Idle
         /\ Doing'
<1>1. job.script = script /\ script # "idle" /\ p \in job.todo
  BY DEF Working, Names
<1>2. job # Idle
  BY <1>1, IdleFields
<1>3. /\ job \in Running /\ job.todo \subseteq job.targets
      /\ job.script \in {"capture", "copy"} => job.side \in Sides
      /\ job.script = "bake" => job.mode \in {"offline", "replay", "live"}
      /\ job.mode = "md" => job.script = "report"
      /\ done = Idle
  BY <1>2 DEF Inv, Doing
<1>4. job' = [job EXCEPT !.todo = @ \ {p}] /\ done' = done
  BY DEF Working
<1>5. /\ job' \in Running
      /\ job'.script = job.script /\ job'.side = job.side /\ job'.mode = job.mode
      /\ job'.targets = job.targets /\ job'.todo = job.todo \ {p}
  BY <1>3, <1>4 DEF Running
<1>6. p \in PRs /\ job.targets \subseteq PRs
  BY <1>1, <1>3 DEF Running
<1>7. Doing'
  BY <1>1, <1>3, <1>4, <1>5 DEF Doing
<1> QED
  BY <1>1, <1>3, <1>4, <1>5, <1>6, <1>7

LEMMA CaptureInv ==
  ASSUME Inv, NEW p \in PRs, CaptureOne(p)
  PROVE  Inv'
<1>1. Working("capture", p) /\ "capture" \in Names
  BY DEF CaptureOne, Names
<1>2. /\ job'.script = "capture" /\ job.side \in Sides /\ job'.mode # "md"
      /\ done' = Idle /\ Doing' /\ job.script = "capture"
  BY <1>1, WorkingStep
<1>3. Progress'
  BY <1>2 DEF Progress
<1>4. registry[p] \in Shas /\ runs \in [Sides -> [PRs -> Captures]]
  BY DEF Inv, Files
<1>5. \A c \in Outcomes(p, job.mode) : c \in Captures /\ c.sha \in Shas
  <2>1. /\ Capture("pending", registry[p], {}) \in Captures
        /\ Capture("pending", registry[p], {}).sha = registry[p]
        /\ Capture("failed", registry[p], {}) \in Captures
        /\ Capture("failed", registry[p], {}).sha = registry[p]
    BY <1>4, CaptureType, StatusNames
  <2>2. \A b \in Bodies : /\ Capture("captured", registry[p], b) \in Captures
                          /\ Capture("captured", registry[p], b).sha = registry[p]
    BY <1>4, CaptureType, StatusNames
  <2> QED
    BY <1>4, <2>1, <2>2 DEF Outcomes, Reviewed
<1>6. \/ runs' = runs
      \/ \E c \in Outcomes(p, job.mode) : runs' = [runs EXCEPT ![job.side][p] = c]
  BY DEF CaptureOne
<1>7. /\ runs' \in [Sides -> [PRs -> Captures]]
      /\ \A s \in Sides, q \in PRs : runs'[s][q].sha \in Shas
  <2>1. \A s \in Sides, q \in PRs : runs[s][q].sha \in Shas
    BY DEF Inv, Files
  <2>2. ASSUME NEW c \in Captures, c.sha \in Shas,
               runs' = [runs EXCEPT ![job.side][p] = c]
        PROVE  /\ runs' \in [Sides -> [PRs -> Captures]]
               /\ \A s \in Sides, q \in PRs : runs'[s][q].sha \in Shas
    <3>1. [runs[job.side] EXCEPT ![p] = c] \in [PRs -> Captures]
      BY <1>2, <1>4
    <3>2. runs' \in [Sides -> [PRs -> Captures]]
      BY <1>2, <1>4, <2>2, <3>1
    <3>3. \A s \in Sides, q \in PRs : runs'[s][q] = c \/ runs'[s][q] = runs[s][q]
      BY <1>2, <1>4, <2>2
    <3> QED
      BY <2>1, <2>2, <3>2, <3>3
  <2> QED
    BY <1>4, <1>5, <1>6, <2>1, <2>2
<1>8. UNCHANGED <<registry, dataset, commands, fixtures, metrics, scores, bakeoff>>
  BY DEF CaptureOne, Working
<1>9. Files'
  BY <1>7, <1>8 DEF Inv, Files, metrics, scores, bakeoff
<1> QED
  BY <1>2, <1>3, <1>9, NotDone

LEMMA CopyInv ==
  ASSUME Inv, NEW p \in PRs, CopyOne(p)
  PROVE  Inv'
<1>1. Working("copy", p) /\ "copy" \in Names
  BY DEF CopyOne, Names
<1>2. /\ job'.script = "copy" /\ job.side \in Sides /\ job'.mode # "md"
      /\ done' = Idle /\ Doing' /\ job.script = "copy"
      /\ job'.targets = job.targets /\ job'.todo = job.todo \ {p}
      /\ job'.side = job.side
  BY <1>1, WorkingStep
<1>3. /\ fixtures' = [fixtures EXCEPT ![job.side][p] = runs[job.side][p]]
      /\ UNCHANGED <<registry, dataset, commands, runs, metrics, scores, bakeoff>>
  BY DEF CopyOne, Working
<1>4. /\ runs \in [Sides -> [PRs -> Captures]]
      /\ fixtures \in [Sides -> [PRs -> Captures]]
  BY DEF Inv, Files
<1>5. runs[job.side][p] \in Captures
  BY <1>2, <1>4
<1>6. [fixtures[job.side] EXCEPT ![p] = runs[job.side][p]] \in [PRs -> Captures]
  BY <1>2, <1>4, <1>5
<1>7. fixtures' \in [Sides -> [PRs -> Captures]]
  BY <1>2, <1>3, <1>4, <1>6
<1>8. Files'
  BY <1>3, <1>7 DEF Inv, Files, metrics, scores, bakeoff
<1>9. Progress'
  <2>1. \A q \in job.targets \ job.todo : fixtures[job.side][q] = runs[job.side][q]
    BY <1>2 DEF Inv, Progress
  <2>2. \A q : fixtures'[job.side][q] =
                 IF q = p THEN runs[job.side][q] ELSE fixtures[job.side][q]
    BY <1>2, <1>3, <1>4, <1>6
  <2>3. \A q \in job'.targets \ job'.todo : fixtures'[job'.side][q] = runs'[job'.side][q]
    BY <1>2, <1>3, <2>1, <2>2
  <2> QED
    BY <1>2, <2>3 DEF Progress
<1> QED
  BY <1>2, <1>8, <1>9, NotDone

LEMMA CompareInv ==
  ASSUME Inv, NEW p \in PRs, CompareOne(p)
  PROVE  Inv'
<1>1. Working("compare", p) /\ "compare" \in Names
  BY DEF CompareOne, Names
<1>2. /\ job'.script = "compare" /\ job'.mode # "md"
      /\ done' = Idle /\ Doing' /\ job.script = "compare"
      /\ job'.targets = job.targets /\ job'.todo = job.todo \ {p}
  BY <1>1, WorkingStep
<1>3. /\ parity' = [parity EXCEPT ![p] = Compared(p)]
      /\ UNCHANGED <<registry, dataset, commands, runs, fixtures, overlap, scores, bakeoff>>
  BY DEF CompareOne, Working
<1>4. DOMAIN parity = PRs
  BY DEF Inv, Files
<1>5. Files'
  BY <1>3, <1>4 DEF Inv, Files, scores, bakeoff
<1>6. \A q : Compared(q)' = Compared(q)
  BY <1>3, ComparedStays
<1>7. Progress'
  <2>1. \A q \in job.targets \ job.todo : parity[q] = Compared(q)
    BY <1>2 DEF Inv, Progress
  <2>2. job.targets \subseteq PRs
    BY <1>1, WorkingStep
  <2>3. \A q \in job'.targets \ job'.todo : parity'[q] = Compared(q)'
    BY <1>2, <1>3, <1>4, <1>6, <2>1, <2>2
  <2> QED
    BY <1>2, <2>3 DEF Progress
<1> QED
  BY <1>2, <1>5, <1>7, NotDone

LEMMA OverlapInv ==
  ASSUME Inv, NEW p \in PRs, OverlapOne(p)
  PROVE  Inv'
<1>1. Working("overlap", p) /\ "overlap" \in Names
  BY DEF OverlapOne, Names
<1>2. /\ job'.script = "overlap" /\ job'.mode # "md"
      /\ done' = Idle /\ Doing' /\ job.script = "overlap"
      /\ job'.targets = job.targets /\ job'.todo = job.todo \ {p}
  BY <1>1, WorkingStep
<1>3. /\ overlap' = [overlap EXCEPT ![p] = Overlap(Compared(p))]
      /\ UNCHANGED <<registry, dataset, commands, runs, fixtures, parity, scores, bakeoff>>
  BY DEF OverlapOne, Working
<1>4. DOMAIN overlap = PRs
  BY DEF Inv, Files
<1>5. Files'
  BY <1>3, <1>4 DEF Inv, Files, scores, bakeoff
<1>6. \A q : Compared(q)' = Compared(q)
  BY <1>3, ComparedStays
<1>7. Progress'
  <2>1. \A q \in job.targets \ job.todo : overlap[q] = Overlap(Compared(q))
    BY <1>2 DEF Inv, Progress
  <2>2. job.targets \subseteq PRs
    BY <1>1, WorkingStep
  <2>3. \A q \in job'.targets \ job'.todo : overlap'[q] = Overlap(Compared(q)')
    BY <1>2, <1>3, <1>4, <1>6, <2>1, <2>2
  <2> QED
    BY <1>2, <2>3 DEF Progress
<1> QED
  BY <1>2, <1>5, <1>7, NotDone

LEMMA ScoreInv ==
  ASSUME Inv, NEW p \in PRs, ScoreOne(p)
  PROVE  Inv'
<1>1. Working("score", p) /\ "score" \in Names
  BY DEF ScoreOne, Names
<1>2. /\ job'.script = "score" /\ job'.mode # "md"
      /\ done' = Idle /\ Doing' /\ job.script = "score"
      /\ job'.targets = job.targets /\ job'.todo = job.todo \ {p}
  BY <1>1, WorkingStep
<1>3. /\ scored' = [scored EXCEPT ![p] = Scored(p)]
      /\ UNCHANGED <<registry, dataset, commands, runs, fixtures, metrics, bakeoff>>
  BY DEF ScoreOne, Working
<1>4. DOMAIN scored = PRs
  BY DEF Inv, Files
<1>5. Files'
  BY <1>3, <1>4 DEF Inv, Files, metrics, bakeoff
<1>6. \A q : Scored(q)' = Scored(q)
  BY <1>3, ScoredStays
<1>7. Progress'
  <2>1. dataset = registry /\ \A q \in job.targets \ job.todo : scored[q] = Scored(q)
    BY <1>2 DEF Inv, Progress
  <2>2. job.targets \subseteq PRs
    BY <1>1, WorkingStep
  <2>3. \A q \in job'.targets \ job'.todo : scored'[q] = Scored(q)'
    BY <1>2, <1>3, <1>4, <1>6, <2>1, <2>2
  <2> QED
    BY <1>2, <1>3, <2>1, <2>3 DEF Progress
<1> QED
  BY <1>2, <1>5, <1>7, NotDone

LEMMA BakeInv ==
  ASSUME Inv, NEW p \in PRs, BakeOne(p)
  PROVE  Inv'
<1>1. Working("bake", p) /\ "bake" \in Names
  BY DEF BakeOne, Names
<1>2. /\ job'.script = "bake" /\ job'.mode # "md"
      /\ done' = Idle /\ Doing' /\ job.mode \in {"offline", "replay", "live"}
  BY <1>1, WorkingStep
<1>3. PICK c \in BakeOutcomes(p, job.mode) : bake' = [bake EXCEPT ![p] = c]
  BY DEF BakeOne
<1>4. UNCHANGED <<registry, dataset, commands, runs, fixtures, metrics, scores, records>>
  BY DEF BakeOne, Working
<1>5. registry[p] \in Shas /\ bake \in [PRs -> Captures]
  BY DEF Inv, Files
<1>6. c \in Captures
  <2>1. /\ Capture("unfilled", registry[p], {}) \in Captures
        /\ Capture("skipped_dry_run", registry[p], {}) \in Captures
        /\ Capture("error", registry[p], {}) \in Captures
    BY <1>5, CaptureType, StatusNames
  <2>2. \A b \in Bodies : /\ Capture("completed", registry[p], b) \in Captures
                          /\ Capture("replayed", registry[p], b) \in Captures
    BY <1>5, CaptureType, StatusNames
  <2> QED
    BY <1>2, <1>3, <2>1, <2>2 DEF BakeOutcomes, Replayed, Answered
<1>7. bake' \in [PRs -> Captures]
  BY <1>3, <1>5, <1>6
<1>8. Files'
  BY <1>4, <1>7 DEF Inv, Files, metrics, scores
<1>9. Progress'
  BY <1>2 DEF Progress
<1> QED
  BY <1>2, <1>8, <1>9, NotDone

LEMMA BuildInv ==
  ASSUME Inv, NEW p \in PRs, BuildOne(p)
  PROVE  Inv'
<1>1. Working("build", p) /\ "build" \in Names
  BY DEF BuildOne, Names
<1>2. /\ job'.script = "build" /\ job'.mode # "md"
      /\ done' = Idle /\ Doing' /\ job.script = "build"
      /\ job'.targets = job.targets /\ job'.todo = job.todo \ {p}
  BY <1>1, WorkingStep
<1>3. /\ records' = [records EXCEPT ![p] = Record(p)]
      /\ UNCHANGED <<registry, dataset, commands, runs, fixtures, bake, metrics, scores>>
  BY DEF BuildOne, Working
<1>4. DOMAIN records = PRs
  BY DEF Inv, Files
<1>5. Files'
  BY <1>3, <1>4 DEF Inv, Files, metrics, scores
<1>6. \A q : Record(q)' = Record(q)
  BY <1>3, RecordStays
<1>7. Progress'
  <2>1. \A q \in job.targets \ job.todo : records[q] = Record(q)
    BY <1>2 DEF Inv, Progress
  <2>2. job.targets \subseteq PRs
    BY <1>1, WorkingStep
  <2>3. \A q \in job'.targets \ job'.todo : records'[q] = Record(q)'
    BY <1>2, <1>3, <1>4, <1>6, <2>1, <2>2
  <2> QED
    BY <1>2, <2>3 DEF Progress
<1> QED
  BY <1>2, <1>5, <1>7, NotDone

-----------------------------------------------------------------------------
LEMMA LaunchInv ==
  ASSUME Inv, Launch
  PROVE  Inv'
<1>1. /\ job' \in Jobs /\ done' = Idle /\ job = Idle
      /\ UNCHANGED <<captures, fixtures, metrics, scores, bakeoff>>
      /\ commands < MaxCommands /\ commands' = commands + 1
  BY DEF Launch
<1>2. Files'
  <2>1. commands' \in 0..MaxCommands
    BY <1>1, EvalAssumption DEF Inv, Files
  <2> QED
    BY <1>1, <2>1 DEF Inv, Files, captures, metrics, scores, bakeoff
<1>3. RunDirs \subseteq PRs
  BY DEF RunDirs
<1>4. \A all \in SUBSET PRs : Sized(all) \subseteq SUBSET PRs
  BY DEF Sized
<1>5. /\ job' \in Running /\ job'.todo = job'.targets
      /\ job'.script \in {"capture", "copy"} => job'.side \in Sides
      /\ job'.script = "bake" => job'.mode \in {"offline", "replay", "live"}
      /\ job'.mode # "md"
      /\ job'.script = "score" => dataset = registry
  <2> DEFINE Ok(j) == /\ j \in Running /\ j.todo = j.targets
                      /\ j.script \in {"capture", "copy"} => j.side \in Sides
                      /\ j.script = "bake" => j.mode \in {"offline", "replay", "live"}
                      /\ j.mode # "md"
                      /\ j.script = "score" => dataset = registry
  <2>1. ASSUME NEW j \in CaptureJobs PROVE Ok(j)
    <3>1. PICK s \in Sides, ts \in Sized(PRs), m \in {"live", "force", "force_dry"} :
            j = Job("capture", s, ts, m)
      BY <2>1 DEF CaptureJobs
    <3>2. ts \in SUBSET PRs
      BY <1>4
    <3> QED
      BY <3>1, <3>2 DEF Job, Running
  <2>2. ASSUME NEW j \in MirrorJobs PROVE Ok(j)
    <3>1. j = Job("copy", "codex", {p \in PRs : runs["codex"][p] # Missing}, "")
      BY <2>2 DEF MirrorJobs
    <3> QED
      BY <3>1 DEF Job, Running, Sides
  <2>3. ASSUME NEW j \in NormalizeJobs PROVE Ok(j)
    <3>1. PICK ts \in Sized({p \in PRs : runs["openrouter"][p] # Missing}) :
            j = Job("copy", "openrouter", ts, "")
      BY <2>3 DEF NormalizeJobs
    <3>2. ts \in SUBSET PRs
      BY <1>4
    <3> QED
      BY <3>1, <3>2 DEF Job, Running, Sides
  <2>4. ASSUME NEW j \in CompareJobs PROVE Ok(j)
    <3>1. PICK ts \in Sized(PRs) : j = Job("compare", "", ts, "")
      BY <2>4 DEF CompareJobs
    <3>2. ts \in SUBSET PRs
      BY <1>4
    <3> QED
      BY <3>1, <3>2 DEF Job, Running
  <2>5. ASSUME NEW j \in OverlapJobs PROVE Ok(j)
    <3>1. PICK ts \in Sized(RunDirs) \cup {{}}, m \in {"rows", "all"} :
            j = Job("overlap", "", ts, m)
      BY <2>5 DEF OverlapJobs
    <3>2. ts \in SUBSET PRs
      BY <1>3, <1>4
    <3> QED
      BY <3>1, <3>2 DEF Job, Running
  <2>6. ASSUME NEW j \in ReportJobs PROVE Ok(j)
    <3>1. j = Job("report", "", {}, "json") /\ {} \in SUBSET PRs
      BY <2>6 DEF ReportJobs
    <3> QED
      BY <3>1 DEF Job, Running
  <2>7. ASSUME NEW j \in ScoreJobs PROVE Ok(j)
    <3>1. dataset = registry /\ \E ts \in Sized(PRs) : j = Job("score", "", ts, "")
      BY <2>7 DEF ScoreJobs
    <3>2. PICK ts \in Sized(PRs) : j = Job("score", "", ts, "")
      BY <3>1
    <3>3. ts \in SUBSET PRs
      BY <1>4
    <3> QED
      BY <3>1, <3>2, <3>3 DEF Job, Running
  <2>8. ASSUME NEW j \in BakeJobs PROVE Ok(j)
    <3>1. PICK ts \in Sized(PRs), m \in {"offline", "replay", "live"} :
            j = Job("bake", "", ts, m)
      BY <2>8 DEF BakeJobs
    <3>2. ts \in SUBSET PRs
      BY <1>4
    <3> QED
      BY <3>1, <3>2 DEF Job, Running
  <2>9. ASSUME NEW j \in BuildJobs PROVE Ok(j)
    <3>1. PICK ts \in Sized(PRs) : j = Job("build", "", ts, "")
      BY <2>9 DEF BuildJobs
    <3>2. ts \in SUBSET PRs
      BY <1>4
    <3> QED
      BY <3>1, <3>2 DEF Job, Running
  <2> HIDE DEF Ok
  <2>10. Ok(job')
    BY <1>1, <2>1, <2>2, <2>3, <2>4, <2>5, <2>6, <2>7, <2>8, <2>9 DEF Jobs
  <2> QED
    BY <2>10 DEF Ok
<1>6. Doing'
  BY <1>1, <1>5 DEF Doing
<1>7. Progress'
  <2>1. job'.targets \ job'.todo = {}
    BY <1>5
  <2>2. dataset' = dataset /\ registry' = registry
    BY <1>1 DEF captures
  <2> QED
    BY <1>5, <2>1, <2>2 DEF Progress
<1> QED
  BY <1>1, <1>2, <1>6, <1>7, NotDone

LEMMA WriteReportInv ==
  ASSUME Inv, WriteReport
  PROVE  Inv'
<1>1. /\ job.script = "report" /\ report' = Report
      /\ job' = [job EXCEPT !.mode = "md"]
      /\ UNCHANGED <<captures, fixtures, parity, overlap, aggregate,
                     scores, bakeoff, done, commands>>
  BY DEF WriteReport
<1>2. job # Idle
  BY <1>1, IdleFields
<1>3. job \in Running /\ job.todo \subseteq job.targets /\ done = Idle
  BY <1>2 DEF Inv, Doing
<1>4. /\ job' \in Running /\ job'.script = "report"
      /\ job'.targets = job.targets /\ job'.todo = job.todo
  BY <1>1, <1>3 DEF Running
<1>5. Doing'
  BY <1>1, <1>3, <1>4 DEF Doing
<1>6. Files'
  BY <1>1 DEF Inv, Files, captures, scores, bakeoff
<1>7. Progress'
  BY <1>1, <1>4, ReportStays DEF Progress
<1> QED
  BY <1>1, <1>3, <1>5, <1>6, <1>7, NotDone

LEMMA DieInv ==
  ASSUME Inv, Die
  PROVE  Inv'
<1>1. job # Idle /\ job' = Idle /\ UNCHANGED <<captures, metrics, scores, done, commands>>
  BY DEF Die
<1>2. /\ job \in Running /\ job.todo \subseteq job.targets /\ done = Idle
      /\ job.script \in {"capture", "copy"} => job.side \in Sides
  BY <1>1 DEF Inv, Doing
<1>3. job.todo \subseteq PRs
  BY <1>2 DEF Running
<1>4. Torn \in Captures
  BY CaptureType, StatusNames DEF Torn
<1>5. fixtures \in [Sides -> [PRs -> Captures]] /\ bake \in [PRs -> Captures]
  BY DEF Inv, Files
<1>6. fixtures' \in [Sides -> [PRs -> Captures]]
  <2>1. \/ fixtures' = fixtures
        \/ job.script = "copy" /\ \E p \in job.todo :
             fixtures' = [fixtures EXCEPT ![job.side][p] = Torn]
    BY DEF Die
  <2>2. ASSUME NEW p \in PRs, job.side \in Sides,
               fixtures' = [fixtures EXCEPT ![job.side][p] = Torn]
        PROVE  fixtures' \in [Sides -> [PRs -> Captures]]
    <3>1. [fixtures[job.side] EXCEPT ![p] = Torn] \in [PRs -> Captures]
      BY <1>4, <1>5, <2>2
    <3> QED
      BY <1>5, <2>2, <3>1
  <2> QED
    BY <1>2, <1>3, <1>5, <2>1, <2>2
<1>7. bake' \in [PRs -> Captures]
  <2>1. \/ bake' = bake
        \/ \E p \in job.todo : bake' = [bake EXCEPT ![p] = Torn]
    BY DEF Die
  <2> QED
    BY <1>3, <1>4, <1>5, <2>1
<1>8. DOMAIN records' = PRs
  <2>1. \/ records' = records
        \/ \E p \in job.todo : records' = [records EXCEPT ![p] = None]
    BY DEF Die
  <2> QED
    BY <2>1 DEF Inv, Files
<1>9. Files'
  BY <1>1, <1>6, <1>7, <1>8 DEF Inv, Files, captures, metrics, scores
<1>10. Doing'
  BY <1>1 DEF Doing
<1>11. Progress'
  BY <1>1, IdleFields DEF Progress
<1> QED
  BY <1>1, <1>2, <1>9, <1>10, <1>11, NotDone

(* What people do between two scripts.                                     *)
LEMMA ByHandInv ==
  ASSUME Inv, (\E p \in PRs : Repin(p) \/ LabelRecord(p)) \/ Relabel
  PROVE  Inv'
<1>1. PICK what : ByHand(what)
  BY DEF Repin, LabelRecord, Relabel
<1>2. /\ job' = job /\ job = Idle /\ done' = Idle
      /\ commands < MaxCommands /\ commands' = commands + 1
      /\ UNCHANGED <<runs, fixtures, metrics, scores, bake>>
  BY <1>1 DEF ByHand
<1>3. commands' \in 0..MaxCommands
  BY <1>2, EvalAssumption DEF Inv, Files
<1>4. /\ registry' \in [PRs -> Shas] /\ dataset' \in [PRs -> Shas]
      /\ DOMAIN records' = PRs
  <2>1. /\ registry \in [PRs -> Shas] /\ dataset \in [PRs -> Shas]
        /\ DOMAIN records = PRs
    BY DEF Inv, Files
  <2>2. CASE Relabel
    BY <2>1, <2>2 DEF Relabel
  <2>3. ASSUME NEW p \in PRs, Repin(p)
        PROVE  /\ registry' \in [PRs -> Shas] /\ dataset' \in [PRs -> Shas]
               /\ DOMAIN records' = PRs
    BY <2>1, <2>3 DEF Repin
  <2>4. ASSUME NEW p \in PRs, LabelRecord(p)
        PROVE  /\ registry' \in [PRs -> Shas] /\ dataset' \in [PRs -> Shas]
               /\ DOMAIN records' = PRs
    BY <2>1, <2>4 DEF LabelRecord
  <2> QED
    BY <2>2, <2>3, <2>4
<1>5. Files'
  BY <1>2, <1>3, <1>4 DEF Inv, Files, metrics, scores
<1>6. Doing' /\ Progress'
  BY <1>2, IdleFields DEF Doing, Progress
<1> QED
  BY <1>2, <1>5, <1>6, NotDone

(* The last file of a script: what it has gone over is as it should be.    *)
LEMMA WorkedOffStep ==
  ASSUME Inv, NEW script \in Names, WorkedOff(script)
  PROVE  /\ job.script = script /\ job.todo = {} /\ done' = job /\ job' = Idle
         /\ UNCHANGED <<captures, fixtures, parity, overlap, report, scored,
                        bake, records, commands>>
         /\ Files' /\ Doing' /\ Progress'
<1>1. /\ job.script = script /\ job.todo = {} /\ done' = job /\ job' = Idle
      /\ UNCHANGED <<captures, fixtures, parity, overlap, report, scored,
                     bake, records, commands>>
  BY DEF WorkedOff
<1>2. Files'
  BY <1>1 DEF Inv, Files, captures
<1>3. Doing' /\ Progress'
  BY <1>1, IdleFields DEF Doing, Progress
<1> QED
  BY <1>1, <1>2, <1>3

LEMMA FinishFilesInv ==
  ASSUME Inv, FinishFiles
  PROVE  Inv'
<1>1. PICK script \in {"capture", "copy", "bake", "overlap"} :
        WorkedOff(script) /\ (script = "overlap" => job.mode = "rows")
  BY DEF FinishFiles
<1>2. script \in Names
  BY DEF Names
<1>3. /\ job.script = script /\ job.todo = {} /\ done' = job
      /\ UNCHANGED <<captures, fixtures>>
      /\ Files' /\ Doing' /\ Progress'
  BY <1>1, <1>2, WorkedOffStep
<1>4. FreshAfterRun'
  <2>1. CASE script = "copy"
    <3>1. job \in Running /\ job.side \in Sides
      <4>1. job # Idle
        BY <1>3, <2>1, IdleFields
      <4> QED
        BY <1>3, <2>1, <4>1 DEF Inv, Doing
    <3>2. \A p \in job.targets : fixtures[job.side][p] = runs[job.side][p]
      BY <1>3, <2>1 DEF Inv, Progress
    <3>3. runs' = runs /\ fixtures' = fixtures
      BY <1>3 DEF captures
    <3>4. done'.side = job.side /\ done'.targets = job.targets
      BY <1>3
    <3>5. ASSUME done'.targets = {p \in PRs : runs'[done'.side][p] # Missing}
          PROVE  \A p \in PRs : runs'[done'.side][p] # Missing
                   => fixtures'[done'.side][p] = runs'[done'.side][p]
      BY <3>2, <3>3, <3>4, <3>5
    <3>6. done'.script = "copy"
      BY <1>3, <2>1
    <3> QED
      BY <3>5, <3>6 DEF FreshAfterRun, CopyCheck
  <2>2. CASE script = "overlap"
    BY <1>1, <1>3, <2>2 DEF FreshAfterRun
  <2>3. CASE script \in {"capture", "bake"}
    BY <1>3, <2>3 DEF FreshAfterRun
  <2> QED
    BY <1>1, <2>1, <2>2, <2>3
<1> QED
  BY <1>3, <1>4 DEF Inv

LEMMA FinishCompareInv ==
  ASSUME Inv, FinishCompare
  PROVE  Inv'
<1>1. "compare" \in Names /\ WorkedOff("compare") /\ summary' = SummaryRows(job.targets)
  BY DEF FinishCompare, Names
<1>2. /\ job.script = "compare" /\ job.todo = {} /\ done' = job
      /\ UNCHANGED <<captures, fixtures, parity>>
      /\ Files' /\ Doing' /\ Progress'
  BY <1>1, WorkedOffStep
<1>3. \A p \in job.targets : parity[p] = Compared(p)
  BY <1>2 DEF Inv, Progress
<1>4. job.targets = PRs => CompareCheck'
  BY <1>1, <1>2, <1>3, ComparedStays DEF CompareCheck
<1>5. FreshAfterRun'
  BY <1>2, <1>4 DEF FreshAfterRun
<1> QED
  BY <1>2, <1>5 DEF Inv

LEMMA FinishOverlapInv ==
  ASSUME Inv, FinishOverlap
  PROVE  Inv'
<1>1. "overlap" \in Names /\ WorkedOff("overlap") /\ aggregate' = Aggregate
  BY DEF FinishOverlap, Names
<1>2. /\ job.script = "overlap" /\ job.todo = {} /\ done' = job
      /\ UNCHANGED <<captures, fixtures, overlap>>
      /\ Files' /\ Doing' /\ Progress'
  BY <1>1, WorkedOffStep
<1>3. \A p \in job.targets : overlap[p] = Overlap(Compared(p))
  BY <1>2 DEF Inv, Progress
<1>4. RunDirs' = RunDirs
  BY <1>2 DEF captures, RunDirs
<1>5. /\ Aggregate' = Aggregate
      /\ \A p : Compared(p)' = Compared(p)
  BY <1>2, ComparedStays
<1>6. job.targets = RunDirs => OverlapCheck'
  BY <1>1, <1>2, <1>3, <1>4, <1>5 DEF OverlapCheck
<1>7. FreshAfterRun'
  BY <1>2, <1>4, <1>6 DEF FreshAfterRun
<1> QED
  BY <1>2, <1>7 DEF Inv

LEMMA FinishReportInv ==
  ASSUME Inv, FinishReport
  PROVE  Inv'
<1>1. /\ "report" \in Names /\ WorkedOff("report") /\ page' = Report
      /\ job.mode = "md" /\ UNCHANGED aggregate
  BY DEF FinishReport, Names
<1>2. /\ job.script = "report" /\ done' = job
      /\ UNCHANGED <<parity, overlap, report>>
      /\ Files' /\ Doing' /\ Progress'
  BY <1>1, WorkedOffStep
<1>3. report = Report
  BY <1>1 DEF Inv, Progress
<1>4. ReportCheck'
  BY <1>1, <1>2, <1>3, ReportStays DEF ReportCheck
<1>5. FreshAfterRun'
  BY <1>2, <1>4 DEF FreshAfterRun
<1> QED
  BY <1>2, <1>5 DEF Inv

LEMMA FinishScoreInv ==
  ASSUME Inv, FinishScore
  PROVE  Inv'
<1>1. "score" \in Names /\ WorkedOff("score") /\ scoring' = ScoringRows(job.targets)
  BY DEF FinishScore, Names
<1>2. /\ job.script = "score" /\ job.todo = {} /\ done' = job
      /\ UNCHANGED <<captures, scored>>
      /\ Files' /\ Doing' /\ Progress'
  BY <1>1, WorkedOffStep
<1>3. dataset = registry /\ \A p \in job.targets : scored[p] = Scored(p)
  BY <1>2 DEF Inv, Progress
<1>4. UNCHANGED <<registry, runs>> /\ dataset' = dataset
  BY <1>2 DEF captures
<1>5. job.targets = PRs => ScoreCheck'
  BY <1>1, <1>2, <1>3, <1>4, ScoredStays DEF ScoreCheck
<1>6. FreshAfterRun'
  BY <1>2, <1>5 DEF FreshAfterRun
<1> QED
  BY <1>2, <1>6 DEF Inv

LEMMA FinishBuildInv ==
  ASSUME Inv, FinishBuild
  PROVE  Inv'
<1>1. "build" \in Names /\ WorkedOff("build") /\ index' = IndexRows(job.targets)
  BY DEF FinishBuild, Names
<1>2. /\ job.script = "build" /\ job.todo = {} /\ done' = job
      /\ UNCHANGED <<captures, bake, records>>
      /\ Files' /\ Doing' /\ Progress'
  BY <1>1, WorkedOffStep
<1>3. \A p \in job.targets : records[p] = Record(p)
  BY <1>2 DEF Inv, Progress
<1>4. UNCHANGED <<registry, runs, bake>>
  BY <1>2 DEF captures
<1>5. job.targets = PRs => BuildCheck'
  BY <1>1, <1>2, <1>3, <1>4, RecordStays DEF BuildCheck
<1>6. FreshAfterRun'
  BY <1>2, <1>5 DEF FreshAfterRun
<1> QED
  BY <1>2, <1>6 DEF Inv

LEMMA StutterInv ==
  ASSUME Inv, UNCHANGED vars
  PROVE  Inv'
<1>1. /\ UNCHANGED <<captures, fixtures, metrics, scores, bakeoff, job, done, commands>>
      /\ UNCHANGED <<registry, dataset, runs, parity, summary, overlap, aggregate,
                     report, page, scored, scoring, bake, records, index>>
  BY DEF vars, captures, metrics, scores, bakeoff
<1>2. Files' /\ Doing'
  BY <1>1 DEF Inv, Files, Doing
<1>3. Progress'
  BY <1>1, ComparedStays, ScoredStays, RecordStays, ReportStays DEF Inv, Progress
<1>4. /\ \A s : CopyCheck(s)' = CopyCheck(s)
      /\ RunDirs' = RunDirs
  BY <1>1 DEF CopyCheck, RunDirs
<1>5. CompareCheck' = CompareCheck /\ OverlapCheck' = OverlapCheck
  BY <1>1, <1>4, ComparedStays DEF CompareCheck, OverlapCheck
<1>6. /\ ReportCheck' = ReportCheck /\ ScoreCheck' = ScoreCheck
      /\ BuildCheck' = BuildCheck
  BY <1>1, ScoredStays, RecordStays, ReportStays DEF ReportCheck, ScoreCheck, BuildCheck
<1>7. FreshAfterRun'
  BY <1>1, <1>4, <1>5, <1>6 DEF Inv, FreshAfterRun
<1> QED
  BY <1>2, <1>3, <1>7 DEF Inv

(* The files keep their types, a running script's files are up to date with*)
(* what it reads, and a finished one's pass its check.                     *)
THEOREM Invariance == Spec => []Inv
<1>1. Init => Inv
  BY InitInv
<1>2. Inv /\ [Next]_vars => Inv'
  <2> SUFFICES ASSUME Inv, [Next]_vars PROVE Inv'
    OBVIOUS
  <2>1. ASSUME NEW p \in PRs,
               \/ CaptureOne(p) \/ CopyOne(p) \/ CompareOne(p) \/ OverlapOne(p)
               \/ ScoreOne(p) \/ BakeOne(p) \/ BuildOne(p)
        PROVE  Inv'
    BY <2>1, CaptureInv, CopyInv, CompareInv, OverlapInv, ScoreInv, BakeInv, BuildInv
  <2>2. CASE Relabel \/ \E p \in PRs : Repin(p) \/ LabelRecord(p)
    BY <2>2, ByHandInv
  <2>3. CASE FinishFiles \/ FinishCompare \/ FinishOverlap \/ FinishReport
             \/ FinishScore \/ FinishBuild
    BY <2>3, FinishFilesInv, FinishCompareInv, FinishOverlapInv, FinishReportInv,
       FinishScoreInv, FinishBuildInv
  <2>4. CASE Launch \/ WriteReport \/ Die
    BY <2>4, LaunchInv, WriteReportInv, DieInv
  <2>5. CASE UNCHANGED vars
    BY <2>5, StutterInv
  <2> QED
    BY <2>1, <2>2, <2>3, <2>4, <2>5 DEF Next
<1> QED
  BY <1>1, <1>2, PTL DEF Spec

(* A capture names a head and only a capture holds findings, whatever dies *)
(* or is edited when.                                                      *)
THEOREM TypeCorrect == Spec => []TypeOK
<1>1. Inv => TypeOK
  <2> SUFFICES ASSUME Inv PROVE TypeOK
    OBVIOUS
  <2>1. \A c \in Captures : IsCapture(c)
    BY DEF Captures, IsCapture
  <2>2. \A s \in Sides, p \in PRs : runs[s][p] \in Captures /\ fixtures[s][p] \in Captures
    BY DEF Inv, Files
  <2>3. \A p \in PRs : bake[p] \in Captures
    BY DEF Inv, Files
  <2>4. job # Idle => job.todo \subseteq job.targets /\ job.targets \subseteq PRs
    BY DEF Inv, Doing, Running
  <2> QED
    BY <2>1, <2>2, <2>3, <2>4 DEF Inv, Files, TypeOK
<1> QED
  BY <1>1, Invariance, PTL

(* A script that has gone over every pull request leaves files its own     *)
(* check accepts, whatever died or was left out before.                    *)
THEOREM Idempotence == Spec => []FreshAfterRun
<1>1. Inv => FreshAfterRun
  BY DEF Inv
<1> QED
  BY <1>1, Invariance, PTL

-----------------------------------------------------------------------------
(* The gate.                                                               *)

(* Rounding to the nearest is off by a half at most.                       *)
LEMMA RoundedBounds ==
  ASSUME NEW n \in Nat, NEW d \in Nat, d > 0
  PROVE  /\ Rounded(n, d) \in Nat
         /\ 2 * d * Rounded(n, d) <= 2 * n + d
<1>1. 2 * n + d \in Nat /\ 2 * d \in Nat /\ 2 * d > 0
  OBVIOUS
<1>2. \A a, b \in Nat : b > 0 => a \div b \in Nat /\ b * (a \div b) <= a
  OBVIOUS
<1> QED
  BY <1>1, <1>2 DEF Rounded

(* The pairs a total counts are finitely many.                             *)
Pool(S, ps) == UNION {{p} \X S[p] : p \in ps}

LEMMA PoolFinite ==
  ASSUME NEW ps \in SUBSET PRs, NEW S \in [ps -> SUBSET Findings]
  PROVE  /\ IsFiniteSet(Pool(S, ps))
         /\ Cardinality(Pool(S, ps)) <= Cardinality(PRs) * Cardinality(Findings)
<1>1. Pool(S, ps) \in SUBSET (PRs \X Findings)
  BY DEF Pool
<1>2. /\ IsFiniteSet(PRs \X Findings)
      /\ Cardinality(PRs \X Findings) = Cardinality(PRs) * Cardinality(Findings)
  BY FS_Product, EvalAssumption
<1> QED
  BY <1>1, <1>2, FS_Subset

(* What was found is what was found again and what was not, because a      *)
(* review has a bug once.                                                  *)
Splits(c, again, lost, ps) ==
  /\ ps \subseteq PRs /\ c \in [ps -> Bodies \cup {{}}]
  /\ \A p \in ps : /\ again[p] \subseteq Bugs(c[p])
                   /\ \A f : f \in lost[p] <=> f \in c[p] /\ f[1] \notin again[p]

LEMMA FoundSplits ==
  ASSUME NEW c, NEW again, NEW lost, NEW ps, Splits(c, again, lost, ps)
  PROVE  /\ Cardinality(Pool(again, ps)) \in Nat
         /\ Cardinality(Pool(lost, ps)) \in Nat
         /\ Cardinality(Pool(c, ps)) =
              Cardinality(Pool(again, ps)) + Cardinality(Pool(lost, ps))
         /\ Cardinality(Pool(c, ps)) <= Cardinality(PRs) * Cardinality(Findings)
<1> DEFINE All == UNION {{p} \X c[p] : p \in ps}
           Hits == {x \in All : x[2][1] \in again[x[1]]}
           Again == UNION {{p} \X again[p] : p \in ps}
           Gone == UNION {{p} \X lost[p] : p \in ps}
           h == [x \in Hits |-> <<x[1], x[2][1]>>]
<1>0. All = Pool(c, ps) /\ Again = Pool(again, ps) /\ Gone = Pool(lost, ps)
  BY DEF Pool
<1> USE DEF Splits
<1>1. ps \in SUBSET PRs /\ c \in [ps -> SUBSET Findings]
  BY EvalAssumption
<1>2. /\ IsFiniteSet(All)
      /\ Cardinality(All) <= Cardinality(PRs) * Cardinality(Findings)
  BY <1>0, <1>1, PoolFinite
<1>3. Gone = All \ Hits
  <2>1. \A p \in ps : \A f : <<p, f>>[1] = p /\ <<p, f>>[2] = f
    OBVIOUS
  <2>2. \A x : x \in Gone => x \in All /\ x \notin Hits
    OBVIOUS
  <2>3. \A x : x \in All /\ x \notin Hits => x \in Gone
    OBVIOUS
  <2> QED
    BY <2>2, <2>3
<1>4. h \in Bijection(Hits, Again)
  <2>1. h \in [Hits -> Again]
    OBVIOUS
  <2>2. ASSUME NEW x \in Hits, NEW y \in Hits, h[x] = h[y]
        PROVE  x = y
    <3>1. PICK p \in ps : x \in {p} \X c[p] /\ y \in {p} \X c[p]
      BY <2>2
    <3>2. x[2] \in c[p] /\ y[2] \in c[p] /\ x[2][1] = y[2][1]
      BY <2>2, <3>1
    <3>3. c[p] \in Bodies \cup {{}}
      BY <3>1
    <3>4. x[2] = y[2]
      BY <3>2, <3>3, EvalAssumption
    <3> QED
      BY <3>1, <3>4
  <2>3. ASSUME NEW y \in Again
        PROVE  \E x \in Hits : h[x] = y
    <3>1. PICK p \in ps : y \in {p} \X again[p]
      BY <2>3
    <3>2. PICK f \in c[p] : f[1] = y[2]
      BY <3>1 DEF Bugs
    <3>3. <<p, f>> \in All /\ <<p, f>> \in Hits
      BY <3>1, <3>2
    <3>4. h[<<p, f>>] = <<p, y[2]>> /\ y = <<p, y[2]>>
      BY <3>1, <3>2, <3>3
    <3> QED
      BY <3>3, <3>4
  <2> QED
    BY <2>1, <2>2, <2>3, Fun_IsBij
<1>5. IsFiniteSet(Hits) /\ Cardinality(Gone) = Cardinality(All) - Cardinality(Hits)
      /\ IsFiniteSet(Gone)
  <2>1. Hits \subseteq All /\ All \cap Hits = Hits
    OBVIOUS
  <2> QED
    BY <1>2, <1>3, <2>1, FS_Subset, FS_Difference
<1>6. IsFiniteSet(Again) /\ Cardinality(Again) = Cardinality(Hits)
  BY <1>4, <1>5, FS_Bijection, Fun_ExistsBij
<1>7. Cardinality(All) \in Nat /\ Cardinality(Hits) \in Nat /\ Cardinality(Gone) \in Nat
  BY <1>2, <1>5, FS_CardinalityType
<1> QED
  <2> HIDE DEF All, Hits, Again, Gone
  <2> QED
    BY <1>0, <1>2, <1>5, <1>6, <1>7

(* With the copies checked, what is compared is what was captured.         *)
CapturedPair(p) ==
  LET c == runs["codex"][p]
      o == runs["openrouter"][p]
  IN  [status |-> Status(c, o), codex |-> c, openrouter |-> o]

LEMMA ComparedIsCaptured ==
  ASSUME Inv, \A s \in Sides : CopyCheck(s), NEW p \in PRs
  PROVE  /\ Compared(p) = CapturedPair(p)
         /\ Compared(p).status = "ready" <=> p \in Paired
         /\ p \in RunDirs
<1>1. "codex" \in Sides /\ "openrouter" \in Sides
  BY DEF Sides
<1>2. ASSUME NEW s \in Sides
      PROVE  Read(fixtures[s][p]) = runs[s][p] /\ runs[s][p] # Missing
  <2>1. runs[s][p].sha # NoSha
    BY EvalAssumption DEF Inv, Files
  <2>2. Missing.sha = NoSha /\ Torn.sha = NoSha
    BY DEF Missing, Torn, Capture
  <2>3. fixtures[s][p] = runs[s][p]
    BY <2>1, <2>2 DEF CopyCheck
  <2> QED
    BY <2>1, <2>2, <2>3 DEF Read
<1>3. Compared(p) = CapturedPair(p)
  BY <1>1, <1>2 DEF Compared, CapturedPair
<1>4. p \in Paired <=> /\ runs["codex"][p].status = "captured"
                       /\ runs["openrouter"][p].status = "captured"
                       /\ runs["codex"][p].sha = runs["openrouter"][p].sha
  BY DEF Paired, Sides
<1>5. CapturedPair(p).status = "ready" <=> p \in Paired
  BY <1>4 DEF CapturedPair, Status
<1> QED
  BY <1>1, <1>2, <1>3, <1>5 DEF RunDirs

(* A passed gate whose checks are green says how much was found again, to  *)
(* the rounding of the rate.                                               *)
LEMMA GateRounded ==
  ASSUME Inv, \A s \in Sides : CopyCheck(s), OverlapCheck, ReportCheck, report.passed
  PROVE  LET found == Total(Found, Paired)
             again == Total(FoundAgain, Paired)
         IN  /\ found \in Nat \ {0} /\ again \in Nat
             /\ found <= Cardinality(PRs) * Cardinality(Findings)
             /\ 2 * Need * found <= 20000 * again + found
<1> DEFINE cmp == [p \in PRs |-> Compared(p)]
           c == [p \in Paired |-> runs["codex"][p].body]
           o == [p \in Paired |-> runs["openrouter"][p].body]
           bugs == [p \in Paired |-> Bugs(c[p]) \cap Bugs(o[p])]
           lost == [p \in Paired |-> {f \in c[p] : f[1] \notin bugs[p]}]
           found == Cardinality(Pool(c, Paired))
           tp == Cardinality(Pool(bugs, Paired))
           fn == Cardinality(Pool(lost, Paired))
<1>1. Paired \in SUBSET PRs
  BY DEF Paired
<1>2. c \in [Paired -> Bodies \cup {{}}]
  <2>1. \A p \in PRs : runs["codex"][p] \in Captures
    BY DEF Inv, Files, Sides
  <2> QED
    BY <1>1, <2>1 DEF Captures
<1>3. /\ tp \in Nat /\ fn \in Nat /\ found = tp + fn
      /\ found <= Cardinality(PRs) * Cardinality(Findings)
  <2>1. Splits(c, bugs, lost, Paired)
    BY <1>1, <1>2 DEF Splits
  <2> HIDE DEF c, bugs, lost
  <2> QED
    BY <2>1, FoundSplits
<1>4. \A p \in PRs : /\ cmp[p].codex = runs["codex"][p]
                     /\ cmp[p].openrouter = runs["openrouter"][p]
                     /\ cmp[p].status = "ready" <=> p \in Paired
  BY ComparedIsCaptured DEF CapturedPair
<1>5. Ready(cmp) = Paired
  BY <1>1, <1>4 DEF Ready
<1>6. \A p \in Paired : Matched(cmp[p]) = bugs[p] /\ CodexOnly(cmp[p]) = lost[p]
  BY <1>1, <1>4 DEF Matched, CodexOnly
<1>7. /\ Total(LAMBDA p : Matched(cmp[p]), Ready(cmp)) = tp
      /\ Total(LAMBDA p : CodexOnly(cmp[p]), Ready(cmp)) = fn
  <2> HIDE DEF cmp, bugs, lost
  <2> QED
    BY <1>5, <1>6 DEF Total, Pool
<1>8. Total(Found, Paired) = found /\ Total(FoundAgain, Paired) = tp
  <2>1. \A p \in Paired : Found(p) = c[p] /\ FoundAgain(p) = bugs[p]
    BY DEF Found, FoundAgain
  <2> HIDE DEF c, bugs
  <2> QED
    BY <2>1 DEF Total, Pool
<1>9. Ratio(tp, tp + fn) # Undefined /\ Ratio(tp, tp + fn) >= Need
  <2> HIDE DEF cmp, tp, fn
  <2>1. GatePasses(aggregate)
    BY DEF ReportCheck, Report
  <2>2. aggregate = AggregateOf(cmp)
    BY DEF OverlapCheck, Aggregate, cmp
  <2>3. AggregateOf(cmp).micro.recall = Ratio(tp, tp + fn)
    BY <1>7 DEF AggregateOf, Metrics
  <2> QED
    BY <2>1, <2>2, <2>3 DEF GatePasses
<1>10. found > 0 /\ Rounded(10000 * tp, found) >= Need
  <2> HIDE DEF tp, fn, found
  <2> QED
    BY <1>3, <1>9 DEF Ratio
<1>11. /\ Rounded(10000 * tp, found) \in Nat
       /\ 2 * found * Rounded(10000 * tp, found) <= 2 * (10000 * tp) + found
  <2> HIDE DEF tp, fn, found
  <2> DEFINE n == 10000 * tp
  <2>1. n \in Nat /\ found \in Nat /\ found > 0
    BY <1>3, <1>10
  <2> HIDE DEF n
  <2>2. Rounded(n, found) \in Nat /\ 2 * found * Rounded(n, found) <= 2 * n + found
    BY <2>1, RoundedBounds
  <2> QED
    BY <2>2 DEF n
<1>12. 2 * Need * found <= 20000 * tp + found
  <2> HIDE DEF tp, fn, found
  <2>1. Need \in Nat /\ found \in Nat
    BY <1>3, EvalAssumption
  <2>2. \A r, n, d \in Nat : n <= r => 2 * n * d <= 2 * d * r
    OBVIOUS
  <2>3. 2 * Need * found <= 2 * found * Rounded(10000 * tp, found)
    BY <1>10, <1>11, <2>1, <2>2
  <2> QED
    BY <1>3, <1>11, <2>1, <2>3
<1> QED
  BY <1>3, <1>8, <1>10, <1>12

(* What the gate promises at the code's threshold of 0.80: it passes only  *)
(* if the candidate found its share, as long as the baseline found fewer   *)
(* than 4000 bugs, so that rounding to four digits cannot lift a share to  *)
(* the threshold.                                                          *)
THEOREM GateBelow ==
  ASSUME Need = 8000
  PROVE  Spec => [](Total(Found, Paired) < 4000 => GateHolds)
<1>1. Inv /\ Total(Found, Paired) < 4000 => GateHolds
  <2> SUFFICES ASSUME Inv, Total(Found, Paired) < 4000,
                      \A s \in Sides : CopyCheck(s), OverlapCheck, ReportCheck, report.passed
               PROVE  /\ Total(Found, Paired) > 0
                      /\ 10000 * Total(FoundAgain, Paired) >= Need * Total(Found, Paired)
    BY DEF GateHolds
  <2>1. /\ Total(Found, Paired) \in Nat \ {0} /\ Total(FoundAgain, Paired) \in Nat
        /\ 2 * 8000 * Total(Found, Paired)
             <= 20000 * Total(FoundAgain, Paired) + Total(Found, Paired)
    BY GateRounded
  <2>2. \A d, a \in Nat : d < 4000 /\ 2 * 8000 * d <= 20000 * a + d
          => 10000 * a >= 8000 * d
    OBVIOUS
  <2> QED
    BY <2>1, <2>2
<1> QED
  BY <1>1, Invariance, PTL

(* The same with a bound on the sample instead of the state.               *)
THEOREM Gate ==
  ASSUME Need = 8000, Cardinality(PRs) * Cardinality(Findings) < 4000
  PROVE  Spec => []GateHolds
<1>1. Inv /\ (Total(Found, Paired) < 4000 => GateHolds) => GateHolds
  <2> SUFFICES ASSUME Inv, Total(Found, Paired) < 4000 => GateHolds,
                      \A s \in Sides : CopyCheck(s), OverlapCheck, ReportCheck, report.passed
               PROVE  GateHolds
    BY DEF GateHolds
  <2>1. /\ Total(Found, Paired) \in Nat
        /\ Total(Found, Paired) <= Cardinality(PRs) * Cardinality(Findings)
    BY GateRounded
  <2>2. Cardinality(PRs) * Cardinality(Findings) \in Nat
    BY EvalAssumption, FS_CardinalityType
  <2> QED
    BY <2>1, <2>2
<1> QED
  BY <1>1, GateBelow, Invariance, PTL

-----------------------------------------------------------------------------
(* The report.                                                             *)

(* What parity_report would say if it went back to the captures.           *)
ReportOfCaptures ==
  LET pair == [p \in PRs |-> CapturedPair(p)]
  IN  [status |-> "report", passed |-> GatePasses(AggregateOf(pair)),
       aggregate |-> AggregateOf(pair),
       rows |-> [p \in PRs |-> [overlap |-> Overlap(pair[p]),
                               agreeing |-> Cardinality(Agreeing(pair[p]))]]]

Traceable ==
  (\A s \in Sides : CopyCheck(s)) /\ CompareCheck /\ OverlapCheck /\ ReportCheck
    => report = ReportOfCaptures /\ page = ReportOfCaptures

(* The checks leave no gap: when those of the copies, the comparisons, the *)
(* overlaps and the report are all green, the report is that of the        *)
(* captures, whatever died or was run for some pull requests only, and     *)
(* however many findings there are.  Of the four, eval/README.md:153-155   *)
(* lists the last two.                                                     *)
THEOREM ReportTraceable == Spec => []Traceable
<1>1. Inv => Traceable
  <2> SUFFICES ASSUME Inv, \A s \in Sides : CopyCheck(s), CompareCheck, OverlapCheck,
                      ReportCheck
               PROVE  report = ReportOfCaptures /\ page = ReportOfCaptures
    BY DEF Traceable
  <2> DEFINE pair == [p \in PRs |-> CapturedPair(p)]
  <2>1. \A p \in PRs : Compared(p) = CapturedPair(p) /\ p \in RunDirs
    BY ComparedIsCaptured
  <2>2. [p \in PRs |-> Compared(p)] = pair
    BY <2>1
  <2>3. aggregate = AggregateOf(pair)
    BY <2>2 DEF OverlapCheck, Aggregate
  <2>4. ASSUME NEW p \in PRs
        PROVE  /\ overlap[p] = Overlap(pair[p]) /\ overlap[p] # None
               /\ parity[p] = pair[p] /\ parity[p] # None
    <3>1. overlap[p] = Overlap(pair[p]) /\ parity[p] = pair[p]
      BY <2>1 DEF OverlapCheck, CompareCheck
    <3>2. pair[p].status # "none"
      BY DEF CapturedPair, Status
    <3>3. Overlap(pair[p]).status = pair[p].status
      BY DEF Overlap
    <3>4. None.status = "none"
      BY DEF None
    <3> QED
      BY <3>1, <3>2, <3>3, <3>4
  <2>5. {p \in PRs : overlap[p] # None} = PRs
    BY <2>4
  <2>6. Report = ReportOfCaptures
    <3> HIDE DEF pair
    <3>1. Report.rows = [p \in PRs |-> [overlap |-> Overlap(pair[p]),
                                       agreeing |-> Cardinality(Agreeing(pair[p]))]]
      BY <2>4, <2>5 DEF Report
    <3> QED
      BY <2>3, <3>1 DEF Report, ReportOfCaptures, pair
  <2> QED
    BY <2>6 DEF ReportCheck
<1> QED
  BY <1>1, Invariance, PTL
=============================================================================
