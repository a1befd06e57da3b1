----------------------------- MODULE EvalPipeline -----------------------------
(***************************************************************************)
(* The files of the bake-off and the scripts that derive one from another. *)
(*                                                                         *)
(*   sample-prs.yaml -> runs -> fixtures -> parity, overlap, aggregate     *)
(*                   \       \                     -> report -> the gate   *)
(*                    \       -> scored   (with the labelled dataset)      *)
(*                     -> bake -> records, index  (labelled by people)     *)
(*                                                                         *)
(* Somebody runs one script after the other.  A script works its pull      *)
(* requests off file by file and may die between two files.  Every script  *)
(* has a --check that compares its files with what it would write now.     *)
(*                                                                         *)
(* The pull requests are worked off in any order; the scripts sort them,   *)
(* which is the same up to their names.                                    *)
(*                                                                         *)
(* Code: eval/*.py, evaluation/bakeoff/*.py.                               *)
(***************************************************************************)
EXTENDS Integers, FiniteSets

CONSTANTS
  PRs, Shas, NoSha,
  Findings,     \* <<bug, severity>>: two findings of one bug match
  Bodies,       \* sets of findings a review may report, a bug once
  NoSeverity,
  Need,         \* the gate's threshold, in ten-thousandths
  Starts,       \* what may have been captured: [Sides -> [PRs -> body, or pending]]
  Pending,
  Scripts,      \* the commands somebody runs
  MaxCommands   \* bound: commands

Sides == {"codex", "openrouter"}

ASSUME EvalAssumption ==
  /\ IsFiniteSet(PRs) /\ IsFiniteSet(Findings)
  /\ Bodies \subseteq SUBSET Findings
  /\ \A b \in Bodies : \A f, g \in b : f[1] = g[1] => f = g
  /\ Starts \subseteq [Sides -> [PRs -> Bodies \cup {Pending}]]
  /\ NoSha \notin Shas
  /\ Need \in 0..10000 /\ MaxCommands \in Nat

VARIABLES
  registry,    \* sample-prs.yaml: [PRs -> the pinned head]
  dataset,     \* labelled_dataset: [PRs -> the head of its entries]
  runs,        \* eval/runs/<id>/<side>.json
  fixtures,    \* tests/fixtures/{baseline,candidate}/<id>/
  parity,      \* tests/fixtures/parity_report/<id>.json
  summary,     \* tests/fixtures/parity_report/_summary.json
  overlap,     \* eval/runs/<id>/overlap.json
  aggregate,   \* eval/overlap_aggregate.json
  report, page,\* eval/parity_report.json and .md
  scored,      \* eval/runs/<id>/codex_scored.json
  scoring,     \* eval/runs/_codex_scoring_summary.json
  bake,        \* evaluation/bakeoff/runs/<id>/openrouter.json
  records,     \* evaluation/bakeoff/comparison/<id>.json
  index,       \* evaluation/bakeoff/comparison/_index.json
  job,         \* the running script
  done,        \* the script that has just finished over every pull request
  commands     \* bound: commands so far

captures == <<registry, dataset, runs>>
metrics == <<parity, summary, overlap, aggregate, report, page>>
scores == <<scored, scoring>>
bakeoff == <<bake, records, index>>
vars == <<captures, fixtures, metrics, scores, bakeoff, job, done, commands>>

-----------------------------------------------------------------------------
(* Captures.  A file that cannot be read counts as missing.                *)

Capture(status, sha, body) == [status |-> status, sha |-> sha, body |-> body]
Missing == Capture("missing", NoSha, {})
Torn == Capture("torn", NoSha, {})
Read(file) == IF file = Torn THEN Missing ELSE file

None == [status |-> "none"]   \* a derived file that is not there, or torn

RunDirs == {p \in PRs : \E s \in Sides : runs[s][p] # Missing}

Status(c, o) ==
  IF c.status = "captured" /\ o.status = "captured"
  THEN IF c.sha # o.sha THEN "head_sha_drift" ELSE "ready"
  ELSE IF c.status = "captured" THEN "codex_only"
  ELSE IF o.status = "captured" THEN "openrouter_only"
  ELSE "pending"

Compared(p) ==
  LET c == Read(fixtures["codex"][p])
      o == Read(fixtures["openrouter"][p])
  IN  [status |-> Status(c, o), codex |-> c, openrouter |-> o]

(* The buckets of a comparison.                                            *)
Bugs(body) == {f[1] : f \in body}
Matched(cmp) == Bugs(cmp.codex.body) \cap Bugs(cmp.openrouter.body)
CodexOnly(cmp) == {f \in cmp.codex.body : f[1] \notin Matched(cmp)}
OpenrouterOnly(cmp) == {f \in cmp.openrouter.body : f[1] \notin Matched(cmp)}
Agreeing(cmp) == {f \in cmp.codex.body \cap cmp.openrouter.body : f[2] # NoSeverity}

-----------------------------------------------------------------------------
(* Rates, in ten-thousandths: the code rounds to four digits.              *)

Undefined == -1
Rounded(n, d) == (2 * n + d) \div (2 * d)
Ratio(n, d) == IF d <= 0 THEN Undefined ELSE Rounded(10000 * n, d)
F1(p, r) ==
  IF p = Undefined \/ r = Undefined THEN Undefined
  ELSE IF p + r = 0 THEN 0 ELSE Rounded(2 * p * r, p + r)

Metrics(tp, fp, fn) ==
  LET p == Ratio(tp, tp + fp)  r == Ratio(tp, tp + fn)
  IN  [tp |-> tp, fp |-> fp, fn |-> fn, precision |-> p, recall |-> r, f1 |-> F1(p, r)]

Unmeasured(tp, fp, fn) ==
  [tp |-> tp, fp |-> fp, fn |-> fn,
   precision |-> Undefined, recall |-> Undefined, f1 |-> Undefined]

(* eval/runs/<id>/overlap.json, and a row of the aggregate. *)
Overlap(cmp) ==
  LET tp == Cardinality(Matched(cmp))
      fp == Cardinality(OpenrouterOnly(cmp))
      fn == Cardinality(CodexOnly(cmp))
  IN  [status |-> cmp.status, heads |-> <<cmp.codex.sha, cmp.openrouter.sha>>,
       metrics |-> IF cmp.status = "ready" THEN Metrics(tp, fp, fn)
                   ELSE Unmeasured(tp, fp, fn)]

-----------------------------------------------------------------------------
(* What compare_findings, overlap_score and parity_report write.           *)

SummaryRows(targets) ==
  [status |-> "summary", rows |-> [p \in targets |-> Overlap(Compared(p))]]

(* The sizes of a bucket, added up over pull requests.                     *)
Total(bucket(_), ps) == Cardinality(UNION {{p} \X bucket(p) : p \in ps})

Ready(cmp) == {p \in DOMAIN cmp : cmp[p].status = "ready"}

(* Rates are pooled over the ready pull requests, agreement is counted over*)
(* all of them.                                                            *)
AggregateOf(cmp) ==
  LET tp == Total(LAMBDA p : Matched(cmp[p]), Ready(cmp))
      agree == Total(LAMBDA p : Agreeing(cmp[p]), DOMAIN cmp)
  IN  [status |-> "aggregate",
       rows |-> [p \in DOMAIN cmp |-> Overlap(cmp[p])],
       ready |-> Ready(cmp),
       micro |-> Metrics(tp, Total(LAMBDA p : OpenrouterOnly(cmp[p]), Ready(cmp)),
                         Total(LAMBDA p : CodexOnly(cmp[p]), Ready(cmp))),
       agreeing |-> agree,
       agreement |-> IF Ready(cmp) = {} THEN Undefined ELSE Ratio(agree, tp)]

Aggregate == AggregateOf([p \in PRs |-> Compared(p)])

(* check_overlap_threshold: without --allow-unmeasurable. *)
GatePasses(agg) ==
  agg # None /\ agg.micro.recall # Undefined /\ agg.micro.recall >= Need

(* parity_report: a row for every overlap.json, whatever the sample says.  *)
Report ==
  [status |-> "report", passed |-> GatePasses(aggregate), aggregate |-> aggregate,
   rows |-> [p \in {q \in PRs : overlap[q] # None} |->
               [overlap |-> overlap[p],
                agreeing |-> IF parity[p] = None THEN 0 ELSE Cardinality(Agreeing(parity[p]))]]]

-----------------------------------------------------------------------------
(* What score_codex_baseline and build_comparison_set write.               *)

Scored(p) ==
  LET c == runs["codex"][p]
  IN  IF c.status = "captured" /\ c.sha = registry[p]
      THEN [status |-> "scored", head |-> registry[p], capture |-> c.status, body |-> c.body]
      ELSE [status |-> "skipped", head |-> registry[p], capture |-> c.status, body |-> {}]

ScoringRows(targets) ==
  [status |-> "summary", rows |-> [p \in targets |-> Scored(p)]]

(* The two captures side by side.  Labels start out empty every time.      *)
RecordStatus(c, o, labelled) ==
  IF c.status = "captured" /\ o.status = "completed"
  THEN IF labelled THEN "ready_for_scoring" ELSE "ready_for_labeling"
  ELSE IF c.status = "captured" THEN "awaiting_openrouter"
  ELSE IF o.status = "completed" THEN "awaiting_codex"
  ELSE "pending"

Record(p) ==
  LET c == runs["codex"][p]
      o == Read(bake[p])
      labelled == c.body \cup o.body = {}
  IN  [status |-> RecordStatus(c, o, labelled), head |-> registry[p],
       codex |-> c, openrouter |-> o, labelled |-> labelled]

IndexRows(targets) ==
  [status |-> "index",
   rows |-> [p \in targets |->
               LET rec == Record(p)
               IN  [status |-> rec.status, head |-> rec.head,
                    codex |-> rec.codex.status, openrouter |-> rec.openrouter.status,
                    found |-> <<Cardinality(rec.codex.body), Cardinality(rec.openrouter.body),
                                Cardinality(Matched(rec))>>]]]

-----------------------------------------------------------------------------
(* The checks.                                                             *)

\* For the mutation of CopyCheck: only the status of a copy is compared.
CopyCheckStatus(side) ==
  \A p \in PRs : runs[side][p] # Missing => fixtures[side][p].status = runs[side][p].status

CopyCheck(side) ==
  \A p \in PRs : runs[side][p] # Missing => fixtures[side][p] = runs[side][p]

CompareCheck == (\A p \in PRs : parity[p] = Compared(p)) /\ summary = SummaryRows(PRs)

OverlapCheck ==
  (\A p \in RunDirs : overlap[p] = Overlap(Compared(p))) /\ aggregate = Aggregate

ReportCheck == report = Report /\ page = Report

(* The dataset is refused when an entry's head is not the pinned one. *)
ScoreCheck ==
  /\ dataset = registry
  /\ \A p \in PRs : scored[p] = Scored(p)
  /\ scoring = ScoringRows(PRs)

BuildCheck == (\A p \in PRs : records[p] = Record(p)) /\ index = IndexRows(PRs)

-----------------------------------------------------------------------------
(* Running a script.                                                       *)

Idle == [script |-> "idle", mode |-> ""]
Job(script, side, targets, mode) ==
  [script |-> script, side |-> side, targets |-> targets, todo |-> targets, mode |-> mode]

Sized(all) == {{p} : p \in all} \cup {all}

(* What may be asked of each script, and the pull requests it then works   *)
(* off.  mirror_codex_baseline knows no --pr-id.                           *)
CaptureJobs ==
  {Job("capture", s, ts, m) : s \in Sides, ts \in Sized(PRs), m \in {"live", "force", "force_dry"}}
MirrorJobs == {Job("copy", "codex", {p \in PRs : runs["codex"][p] # Missing}, "")}
NormalizeJobs ==
  {Job("copy", "openrouter", ts, "") : ts \in Sized({p \in PRs : runs["openrouter"][p] # Missing})}
CompareJobs == {Job("compare", "", ts, "") : ts \in Sized(PRs)}
OverlapJobs ==
  {Job("overlap", "", ts, "rows") : ts \in Sized(RunDirs)}
  \cup {Job("overlap", "", ts, "all") : ts \in Sized(RunDirs) \cup {{}}}
ReportJobs == {Job("report", "", {}, "json")}
ScoreJobs ==
  IF dataset = registry THEN {Job("score", "", ts, "") : ts \in Sized(PRs)} ELSE {}

(* --mode scaffold and --mode dry both write a placeholder: "offline".     *)
BakeJobs ==
  UNION {{Job("bake", "", ts, m) : ts \in Sized(PRs)} : m \in {"offline", "replay", "live"}}
BuildJobs == {Job("build", "", ts, "") : ts \in Sized(PRs)}

Jobs ==
  CaptureJobs \cup MirrorJobs \cup NormalizeJobs \cup CompareJobs \cup OverlapJobs
  \cup ReportJobs \cup ScoreJobs \cup BakeJobs \cup BuildJobs

Launch ==
  /\ job = Idle /\ commands < MaxCommands
  /\ job' \in {j \in Jobs : j.script \in Scripts}
  /\ commands' = commands + 1
  /\ done' = Idle
  /\ UNCHANGED <<captures, fixtures, metrics, scores, bakeoff>>

Working(script, p) ==
  /\ job.script = script /\ p \in job.todo
  /\ job' = [job EXCEPT !.todo = @ \ {p}]
  /\ UNCHANGED <<registry, dataset, done, commands>>

(* A checkout of the pinned head and a dry run of the review there: it may *)
(* fail, or print no result.                                               *)
Reviewed(sha) ==
  {Capture("failed", sha, {})} \cup {Capture("captured", sha, b) : b \in Bodies}

\* For the mutation of Outcomes: a capture is written without its head.
OutcomesHeadless(p, mode) ==
  {Capture("pending", registry[p], {})}
  \cup (IF mode = "force_dry" THEN {} ELSE Reviewed(NoSha))

(* A placeholder, for want of keys or because it was asked for, or a review.*)
Outcomes(p, mode) ==
  {Capture("pending", registry[p], {})}
  \cup (IF mode = "force_dry" THEN {} ELSE Reviewed(registry[p]))

AlreadyCaptured(side, p) == runs[side][p].status = "captured"

(* run_codex_baseline, run_openrouter_baseline *)
CaptureOne(p) ==
  /\ Working("capture", p)
  /\ IF job.mode = "live" /\ AlreadyCaptured(job.side, p) THEN UNCHANGED runs
     ELSE \E c \in Outcomes(p, job.mode) : runs' = [runs EXCEPT ![job.side][p] = c]
  /\ UNCHANGED <<fixtures, metrics, scores, bakeoff>>

\* For the mutation of CopyOne: a copy with the right status is left alone.
CopyOneLazy(p) ==
  /\ Working("copy", p)
  /\ fixtures' = IF fixtures[job.side][p].status = runs[job.side][p].status THEN fixtures
                 ELSE [fixtures EXCEPT ![job.side][p] = runs[job.side][p]]
  /\ UNCHANGED <<runs, metrics, scores, bakeoff>>

(* mirror_codex_baseline, normalize_openrouter_findings *)
CopyOne(p) ==
  /\ Working("copy", p)
  /\ fixtures' = [fixtures EXCEPT ![job.side][p] = runs[job.side][p]]
  /\ UNCHANGED <<runs, metrics, scores, bakeoff>>

CompareOne(p) ==
  /\ Working("compare", p)
  /\ parity' = [parity EXCEPT ![p] = Compared(p)]
  /\ UNCHANGED <<runs, fixtures, summary, overlap, aggregate, report, page, scores, bakeoff>>

OverlapOne(p) ==
  /\ Working("overlap", p)
  /\ overlap' = [overlap EXCEPT ![p] = Overlap(Compared(p))]
  /\ UNCHANGED <<runs, fixtures, parity, summary, aggregate, report, page, scores, bakeoff>>

ScoreOne(p) ==
  /\ Working("score", p)
  /\ scored' = [scored EXCEPT ![p] = Scored(p)]
  /\ UNCHANGED <<runs, fixtures, metrics, scoring, bakeoff>>

(* run_openrouter: the diff is posted to the model, or a recorded answer is*)
(* read again, if there is one.  Whatever was there is overwritten.        *)
Answered(sha) ==
  {Capture("error", sha, {})} \cup {Capture("completed", sha, b) : b \in Bodies}
Replayed(sha) ==
  {Capture(s, sha, {}) : s \in {"unfilled", "error"}}
  \cup {Capture("replayed", sha, b) : b \in Bodies}

BakeOutcomes(p, mode) ==
  CASE mode = "offline" -> {Capture(s, registry[p], {}) : s \in {"unfilled", "skipped_dry_run"}}
    [] mode = "replay" -> Replayed(registry[p])
    [] mode = "live" -> Answered(registry[p])

BakeOne(p) ==
  /\ Working("bake", p)
  /\ \E c \in BakeOutcomes(p, job.mode) : bake' = [bake EXCEPT ![p] = c]
  /\ UNCHANGED <<runs, fixtures, metrics, scores, records, index>>

BuildOne(p) ==
  /\ Working("build", p)
  /\ records' = [records EXCEPT ![p] = Record(p)]
  /\ UNCHANGED <<runs, fixtures, metrics, scores, bake, index>>

(* parity_report writes the JSON, then the page. *)
WriteReport ==
  /\ job.script = "report" /\ job.mode = "json"
  /\ report' = Report
  /\ job' = [job EXCEPT !.mode = "md"]
  /\ UNCHANGED <<captures, fixtures, parity, summary, overlap, aggregate, page,
                 scores, bakeoff, done, commands>>

(* The last file of a script sums up the pull requests it was asked for;   *)
(* the aggregate always sums up the sample.                                *)
WorkedOff(script) ==
  /\ job.script = script /\ job.todo = {}
  /\ done' = job /\ job' = Idle
  /\ UNCHANGED <<captures, fixtures, parity, overlap, report, scored, bake, records, commands>>

FinishFiles ==
  /\ \/ WorkedOff("capture") \/ WorkedOff("copy") \/ WorkedOff("bake")
     \/ job.mode = "rows" /\ WorkedOff("overlap")
  /\ UNCHANGED <<summary, aggregate, page, scoring, index>>

FinishCompare ==
  /\ WorkedOff("compare")
  /\ summary' = SummaryRows(job.targets)
  /\ UNCHANGED <<aggregate, page, scoring, index>>

FinishOverlap ==
  /\ job.mode = "all" /\ WorkedOff("overlap")
  /\ aggregate' = Aggregate
  /\ UNCHANGED <<summary, page, scoring, index>>

FinishReport ==
  /\ job.mode = "md" /\ WorkedOff("report")
  /\ page' = Report
  /\ UNCHANGED <<summary, aggregate, scoring, index>>

FinishScore ==
  /\ WorkedOff("score")
  /\ scoring' = ScoringRows(job.targets)
  /\ UNCHANGED <<summary, aggregate, page, index>>

FinishBuild ==
  /\ WorkedOff("build")
  /\ index' = IndexRows(job.targets)
  /\ UNCHANGED <<summary, aggregate, page, scoring>>

(* The script dies.  Fixtures, bake-off captures and comparison records are*)
(* written in place, so the file at hand may be left torn.                 *)
Die ==
  /\ job # Idle
  /\ job' = Idle
  /\ \/ UNCHANGED <<fixtures, bake, records, index>>
     \/ /\ job.script = "copy"
        /\ \E p \in job.todo : fixtures' = [fixtures EXCEPT ![job.side][p] = Torn]
        /\ UNCHANGED <<bake, records, index>>
     \/ /\ job.script = "bake"
        /\ \E p \in job.todo : bake' = [bake EXCEPT ![p] = Torn]
        /\ UNCHANGED <<fixtures, records, index>>
     \/ /\ job.script = "build" /\ job.todo # {}
        /\ \E p \in job.todo : records' = [records EXCEPT ![p] = None]
        /\ UNCHANGED <<fixtures, bake, index>>
     \/ /\ job.script = "build" /\ job.todo = {}
        /\ index' = None
        /\ UNCHANGED <<fixtures, bake, records>>
  /\ UNCHANGED <<captures, metrics, scores, done, commands>>

-----------------------------------------------------------------------------
(* What people do between the scripts.                                     *)

ByHand(what) ==
  /\ job = Idle /\ commands < MaxCommands /\ what \in Scripts
  /\ commands' = commands + 1
  /\ done' = Idle
  /\ UNCHANGED <<runs, fixtures, metrics, scores, bake, index, job>>

(* head_sha of a pull request is rewritten (a force-push). *)
Repin(p) ==
  /\ ByHand("repin")
  /\ \E sha \in Shas \ {registry[p]} : registry' = [registry EXCEPT ![p] = sha]
  /\ UNCHANGED <<dataset, records>>

Relabel ==
  /\ ByHand("relabel") /\ dataset # registry
  /\ dataset' = registry
  /\ UNCHANGED <<registry, records>>

(* Every finding of a record is given its label. *)
LabelRecord(p) ==
  /\ ByHand("label")
  /\ records[p].status = "ready_for_labeling"
  /\ records' = [records EXCEPT ![p].labelled = TRUE]
  /\ UNCHANGED <<registry, dataset>>

-----------------------------------------------------------------------------
(* The committed files: captures or placeholders, the copies (those of the *)
(* candidate perhaps not made yet), and all that follows from them.        *)
Init ==
  /\ \E sha \in Shas :
       /\ registry = [p \in PRs |-> sha]
       /\ \E start \in Starts :
            /\ runs = [s \in Sides |-> [p \in PRs |->
                      IF start[s][p] = Pending THEN Capture("pending", sha, {})
                      ELSE Capture("captured", sha, start[s][p])]]
            /\ \/ fixtures = runs
               \/ fixtures = [runs EXCEPT !["openrouter"] =
                                [p \in PRs |-> Capture("pending", sha, {})]]
            /\ bake = [p \in PRs |->
                      IF start["openrouter"][p] = Pending THEN Capture("skipped_dry_run", sha, {})
                      ELSE Capture("completed", sha, start["openrouter"][p])]
  /\ dataset = registry
  /\ parity = [p \in PRs |-> Compared(p)] /\ summary = SummaryRows(PRs)
  /\ overlap = [p \in PRs |-> Overlap(Compared(p))] /\ aggregate = Aggregate
  /\ report = Report /\ page = Report
  /\ scored = [p \in PRs |-> Scored(p)] /\ scoring = ScoringRows(PRs)
  /\ records = [p \in PRs |-> Record(p)] /\ index = IndexRows(PRs)
  /\ job = Idle /\ done = Idle /\ commands = 0

Next ==
  \/ Launch \/ WriteReport \/ Die \/ Relabel
  \/ FinishFiles \/ FinishCompare \/ FinishOverlap \/ FinishReport
  \/ FinishScore \/ FinishBuild
  \/ \E p \in PRs :
       \/ CaptureOne(p) \/ CopyOne(p) \/ CompareOne(p) \/ OverlapOne(p)
       \/ ScoreOne(p) \/ BakeOne(p) \/ BuildOne(p) \/ Repin(p) \/ LabelRecord(p)

Spec == Init /\ [][Next]_vars

-----------------------------------------------------------------------------
(* Properties.                                                             *)

Statuses == {"missing", "torn", "pending", "failed", "captured", "unfilled",
             "skipped_dry_run", "replayed", "error", "completed"}

IsCapture(c) ==
  /\ c.status \in Statuses /\ c.sha \in Shas \cup {NoSha}
  /\ c.body # {} => c.status \in {"captured", "replayed", "completed"} /\ c.body \in Bodies

(* The files hold what their readers expect: a capture names a head, and   *)
(* only a capture holds findings.                                          *)
TypeOK ==
  /\ registry \in [PRs -> Shas] /\ dataset \in [PRs -> Shas]
  /\ \A s \in Sides, p \in PRs : /\ IsCapture(runs[s][p]) /\ IsCapture(fixtures[s][p])
                                 /\ runs[s][p].sha \in Shas
  /\ \A p \in PRs : IsCapture(bake[p])
  /\ commands \in 0..MaxCommands
  /\ job # Idle => job.todo \subseteq job.targets /\ job.targets \subseteq PRs

(* "The script is idempotent" (tests/fixtures/parity_report/README.md:41): *)
(* a script that has gone over every pull request leaves files that its own*)
(* --check accepts, whatever died or was left out before.                  *)
FreshAfterRun ==
  /\ done.script = "copy" /\ done.targets = {p \in PRs : runs[done.side][p] # Missing}
       => CopyCheck(done.side)
  /\ done.script = "compare" /\ done.targets = PRs => CompareCheck
  /\ done.script = "overlap" /\ done.targets = RunDirs /\ done.mode = "all" => OverlapCheck
  /\ done.script = "report" => ReportCheck
  /\ done.script = "score" /\ done.targets = PRs => ScoreCheck
  /\ done.script = "build" /\ done.targets = PRs => BuildCheck

(* With every check green and the gate passed, the captures themselves meet*)
(* the threshold: some pull request was captured on both sides at one head,*)
(* and over these the candidate found the share it must of what the        *)
(* baseline found.                                                         *)
Paired == {p \in PRs : /\ \A s \in Sides : runs[s][p].status = "captured"
                       /\ runs["codex"][p].sha = runs["openrouter"][p].sha}
Found(p) == runs["codex"][p].body
FoundAgain(p) == Bugs(runs["codex"][p].body) \cap Bugs(runs["openrouter"][p].body)

GateHolds ==
  /\ \A s \in Sides : CopyCheck(s)
  /\ OverlapCheck /\ ReportCheck
  /\ report.passed
  => /\ Total(Found, Paired) > 0
     /\ 10000 * Total(FoundAgain, Paired) >= Need * Total(Found, Paired)
=============================================================================
