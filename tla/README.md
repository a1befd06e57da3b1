# Verification of the dotbot / OpenRouter code review action

TLA+ models of the Python program under `cli/`, of the composite action
(`action.yml`) that runs it, and of the scripts under `eval/` and `evaluation/`
that compare its findings with a baseline's, TLC configurations that check them
on small instances, and TLAPS proofs of the results that matter most.

Paths are relative to the repository; line numbers are those of the commit the
models were written from.

## 1. The system

The program runs in one of two modes, chosen by `cli/main.py`.

* **Review mode** reads a pull request, asks one or several models (the
  *roster*) for findings, posts them as review comments and publishes one
  summary comment per model. A later job of the same pull request continues the
  earlier review: the summary names the commit reviewed last, the Actions cache
  holds the models' threads, and the prompt covers only the new commits.
* **Act mode** (`/dotbot ...` comments) lets a model with file and shell tools
  edit the checkout, commits what it changed and pushes it.

### 1.1 Components

| component | code | state it keeps | operations | talks to |
|---|---|---|---|---|
| action wrapper | `action.yml`, `.github/workflows/dotbot-*.yml` | Actions cache, concurrency group | validate, prepare, restore, run, save | GitHub Actions, the CLI's environment |
| resume decision | `cli/review/{prepare_resume_state,resume_state}.py`, `review_workflow.py:295-437` | none (reads summaries, cache, git) | find previous SHA, compute cache keys, decide | issue comments, git, thread store |
| review workflow | `cli/workflows/review_workflow.py` | `config.review_model`, snapshots | per model: snapshot, prompt, run, post, publish | all of the below |
| thread store | `cli/clients/openrouter_thread_store.py` | JSON files of message logs | save, load, latest | OpenRouter client |
| OpenRouter client, agent loop | `cli/clients/openrouter_client.py`, `openrouter_tools.py` | message log of the turn | execute_text, execute_structured, tools | OpenRouter, file system, shell |
| event stream | `cli/clients/openrouter_stream.py` | accumulated content and tool-call deltas | consume SSE events | OpenRouter |
| Codex client | `cli/clients/codex_client.py`, `codex_event_debugger.py` | none of its own | run a turn through the SDK | external SDK |
| diff anchors | `cli/review/{patch_parser,anchor_engine,comment_validator}.py` | line maps of each changed file | parse a patch, resolve a range, choose inline or general | posting |
| finding validation and posting | `cli/review/{comment_validator,posting}.py` | counters of posted, dropped, remapped findings | validate, batch, 422 fallback, remap | GitHub |
| prior comments | `cli/review/dedupe.py`, `review_workflow.py:702-801` | snapshot of unresolved threads | collect, carry forward | GitHub, checkout |
| review state | `cli/core/{review_state,review_state_store,review_state_manager,sha_delta,filesystem}.py` | one JSON file per pull request and head | save, load, migrate, discard, resolve a delta | git |
| act workflow | `cli/workflows/edit_workflow.py`, `cli/clients/git_ops.py` | checkout, index, HEAD, remote branch | preflight, agent turn, commit, push, reply | git, GitHub |
| dispatch and configuration | `cli/main.py`, `cli/core/{config,model_config,models}.py` | the configuration | parse the event and the command, check trust, choose the mode | environment, event payload |
| GitHub client | `cli/clients/github_client.py` | none | REST and GraphQL calls, pagination | GitHub |
| context artifacts | `cli/review/{context_manager,artifacts}.py` | files the model may read | atomic writes | file system |
| prompts | `cli/review/review_prompt.py`, `cli/workflows/edit_prompt.py`, `prompts/` | none | text composition | models |
| pairing and scoring | `eval/{overlap_score,compare_findings,score_codex_baseline}.py` | none | pair two lists of findings, score one against labelled entries | evaluation |
| evaluation | `eval/`, `evaluation/bakeoff/` | captures and the files derived from them | capture, mirror, normalise, compare, measure, report, score, build; each with a `--check` | files, GitHub, the CLI |

### 1.2 How the components interact

Within a job everything is sequential: one Python process, no threads. The
concurrency is between the job and the rest of the world. Developers push while
a job runs; GitHub starts, cancels and overlaps jobs; a runner may die between
any two steps; GitHub and git commands fail; and three stores outlive a job
without any transaction between them: the issue comments (summaries with the
reviewed SHA in hidden metadata), the Actions cache (thread files under a key
with the SHA) and the branch itself.

```
 event -> action.yml: checkout -> prepare (newest summary -> SHA, cache keys)
          -> restore cache -> CLI -> save cache
 CLI   -> get_pr -> per model: resume decision -> model turn (thread store)
                    -> post findings -> delete old summary -> create summary
 act   -> checkout -> preflight (HEAD, remote head, dirty paths) -> agent turn
          -> commit touched paths -> push | fetch, rebase, push | force with lease
```

### 1.3 What is hard, and what would make it correct

| component | hard behaviour | what correctness means |
|---|---|---|
| resume decision, action wrapper, summaries | pushes during a job, overlapping and cancelled jobs, evicted and stale caches, threads saved before findings are posted, several models sharing one newest summary, forced pushes | no commit is skipped: what a summary names, and what a resumed model is told to leave out, has been reviewed and posted on by that model; one summary per model; the head that stays is reviewed in the end |
| act workflow | developers push between checkout, preflight, fetch and push; the agent commits, amends, removes and rebases; any git command fails | nothing others pushed is lost, everything the agent did arrives, nothing else does, and the reply tells the truth |
| posting | GitHub refuses a batch because of one comment (422); a finding is validated, remapped or skipped | every finding is posted once or counted as dropped |
| agent loop | tool results must answer tool calls, iteration cap, schema turn, failing requests | a message log that is always well formed, and a saved thread that can be resumed |
| review state | crash during a write, unreadable files, several heads | an incremental review continues a record of the same key and lineage only, and a chain of them leaves no file out |
| event stream | chunks split anywhere, tool-call deltas out of order | tools are given exactly what was sent for them |
| anchors | ranges outside the diff, hunk boundaries, hunks without lines at the head, lines that are cut in two | the parser's lines are those of the file; GitHub accepts the place; a finding on changed lines is not moved |
| pairing and scoring | ties, ranges written backwards or without an end, the order of the dataset | no finding is paired twice, the pairing is stable, the score does not depend on an order |
| evaluation | a script that dies between two files, or is run for some pull requests; captures of two heads; files changed by hand | what passes all checks is true of the captures |

## 2. The modules

The order is that of the damage a mistake would do: first what decides which
commits are ever reviewed, then what pushes to branches, then what posts, then
the machinery below, and the evaluation beside it.

| module | component | abstract specification or reference | runs | theorems |
|---|---|---|---|---|
| `ReviewResume`, `CommitCoverage` | resume decision, action wrapper, summaries, caches, threads | `CommitCoverage`: publish only what is posted | `resume_*` | type correctness, coverage for one model and for a roster, refinement, one summary, threads up to date |
| `EditWorkflow`, `SharedBranch` | act workflow, git operations | `SharedBranch`: a command lands once and rewrites only what it took | `edit_*` | all properties of `edit_branch` and `UnseenCommitKept`, refinement |
| `ReviewPosting` | validation, posting, 422 fallback, remapping, prior comments | none: the properties compare the counters with GitHub | `posting_*` | all properties of `posting_jobs`, and what is carried forward |
| `AgentLoop`, `ThreadStore` | OpenRouter client, stream, tools, thread store | `ThreadStore`: threads only grow, and only by finished turns | `agent_*` | all properties of `agent_turns`, refinement, and a bound on the requests |
| `DiffAnchors` | patch parser, anchor engine, validator, renames | the script that turns the base into the head: what a comment may be attached to is defined on it | `anchor_patches` | all three properties |
| `ReviewState` | records, store, manager, delta decision and scope | none: the properties relate records to history | `state_runs` | all four properties |
| `FindingMatch` | pairing and scoring of findings | stable pairing; the least entry of a lexicographic order | `eval_match` | all four properties, and that the pairing is the only stable one and at least half of the largest |
| `EvalPipeline` | the scripts of `eval/` and `evaluation/bakeoff/` and the files between them | none: the properties compare derived files with captures | `eval_files` | all four properties (the gate: up to 4000 findings), and that green checks make the report that of the captures |

`MC<Module>` gives a module its small instance, `<Module>Proofs` holds its
theorems.

## 3. Review continuation: `ReviewResume`, `CommitCoverage`

### 3.1 The model

`ReviewResume` is the whole life of a pull request under review mode: pushes and
the events they raise, the steps of `action.yml`, the steps of
`process_review`, the summaries, the cache and the thread files.

| variable | code |
|---|---|
| `head`, `pending` | the pull request's head; the SHAs of the events waiting for a job |
| `comments`, `clock` | the summary comments with the SHA and model of their metadata (`resume_state.py:22-37`), in order of creation |
| `caches` | entries of the Actions cache; the key is the roster's first model and the SHA (`prepare_resume_state.py`) |
| `home` | the thread directory of a machine where the CLI is run by hand |
| `job` | one record per job: its step, configuration, checkout, what else its clone holds (`tip`), the SHA found by the prepare step, cache hit, the head from `get_pr`, the model it is at, the base of a resumed review, its thread directory |
| `posted`, `unread` | history variables: the commits each model has posted its findings on; the commits of a head it published a summary of that a full review of an older checkout was not shown |

A commit is an abstract point with its set of ancestors; a thread is the set of
commits it has been shown; a push that raises no event is one made with
`GITHUB_TOKEN`. A job's checkout is the commit of its *event*
(`dotbot-review.yml:20-22` gives `actions/checkout` no `ref`), however many
pushes came since; the merge with the base branch that the runner really checks
out is left out. `fetch-depth: 0` fetches every branch of the repository, so git
also knows the head of the moment unless the pull request comes from a fork:
`tip` is either. A run by hand has whatever checkout the user has. Waiting events
replace each other in a concurrency group (`Jobs` of one element) and queue up
otherwise. The actions follow the code in order: `StartAction`, `Prepare`, `RestoreCache`, `FetchPullRequest`,
`ResolveResume`, `ExecuteReview` (the thread is saved in the same step, before
anything is posted), `PostResults`, `DeletePriorSummary`, `CreateSummary`,
`SaveCache`; `StartLocal` enters at `FetchPullRequest`. `AbortJob` ends a job
between any two of them. Text, findings and prompts are left out: what counts is
which commits a model was told to look at (`Scope`).

`CommitCoverage` is the promise without jobs, caches and threads: findings are
posted, together with the commits a review of an older checkout left out; a
model publishes a summary of a head only when every commit of that head is one of
the two, and withdraws only its own summaries. `ReviewResume`
implements it under `published <- {<<model, sha>>}` (the summaries that name a
model).

### 3.2 What is checked

`MCReviewResume` gives the instances: a chain of two or three commits, a fork of
three (2 and 3 are siblings on 1), one or two models, at most three jobs.

| run | instance | result |
|---|---|---|
| `resume_overlap` | two models, two jobs at once, as the workflow of `README.md:17-37` (no concurrency group) allows; fast-forward pushes, a summary of the old version to begin with, every failure but that of a thread file and a silent push | `TypeOK`, `NoCommitSkipped`, `ResumeBaseCovered`, `ThreadKnowsBase`, `CoverageSpec` hold |
| `resume_single` | one model, pushes from any commit to any other, action and local runs, dry runs, dying jobs, lost thread files and silent pushes | `NoCommitSkipped`, `OneSummaryPerModel` hold |
| `resume_liveness` | two models, three commits, cancel-in-progress only | `HeadGetsReviewed` holds |
| `resume_roster` | a roster that loses and regains a model | **violated**: `ResumeBaseCovered` |

The violation is a disagreement between the code and its documents (`findings`
in `PROJECT.json`):

* **Roster changes.** `README.md:145-146` says that changing the roster will not
  reuse the wrong review. The base of a resumed review is the newest summary of
  *any* model, and the cache found under it holds every model's thread; a model
  that missed a job resumes its old thread from a commit only the other has
  reviewed.

A second disagreement is part of the model and of what `NoCommitSkipped` says.
`README.md:216-217` has the summary store "the previously reviewed head SHA". The
SHA it stores is what `get_pr` returns (`review_workflow.py:871`); what a model
reads in a full review is the checkout of the event's commit. Commits pushed in
between (while the event waits for a runner, or during the installation of the
dependencies and the CLI) are named by the summary, and skipped by later resumed
reviews of the local kind, though no model was shown them. `NoCommitSkipped` is
therefore stated with this exception and no other: every commit of a published
head has been posted on, or is in `unread`, which holds exactly the commits of a
published head that a full review's checkout lacked. Without `unread` both runs
violate it. Action jobs do not *resume* from such a summary: they need a cache
entry of that SHA, and entries are saved under the event's; so `ResumeBaseCovered`
and `ThreadKnowsBase` hold without any exception.

The model shows two more when it is given other constants. With
`Kinds = {"local"}` and two models, `ResumeBaseCovered` fails: without the
prepare step each model looks for the newest summary itself and finds the one
its predecessor in the roster has just published for the current head. With two
jobs at once `OneSummaryPerModel` fails: both delete the old summary, then both
create one.

**Bounds.** Two commits are enough for a reviewed and a new one, three for
a base, one that is skipped and the head, which is what the roster violation and
siblings need; three jobs for one that reviews, one that dies or misses a model,
and one that resumes. `MaxRuns` bounds the number of jobs, so the system stops:
the configurations turn the deadlock check off. The theorems of 3.3 remove the
bounds from the safety results.

`resume_single` maps the two sibling commits onto each other and
`resume_overlap` the two jobs (`SYMMETRY`): nothing in the specification or in the
properties of these runs tells them apart.

**Assumed in the passing runs.** A fixed roster, and for several models
fast-forward pushes and action jobs, are needed as described above; `Rosters`
have no model twice (`config.py:282-291`). `ThreadKnowsBase` needs thread files
that can be written and read (a job whose file cannot be written saves the
previous thread under the new SHA) and jobs of one kind.

**Fairness.** `FairSpec` has weak fairness on the next step of a job and on the
start of a waiting job: GitHub's scheduler starts a queued job and a runner
goes on. There is none on pushes, events, failures or cancellations.

### 3.3 What is proved

`ReviewResumeProofs` proves `TypeCorrect` (`Spec => []TypeOK`) for all
constants that satisfy the three assumptions of `ReviewResume`, and, for any set of commits with a reflexive and
transitive ancestor relation, any number of models, jobs and runs, and every
failure:

* `RosterCovered`: with one fixed roster (of any length), fast-forward pushes,
  action jobs without dry run, `NoCommitSkipped` and `ResumeBaseCovered` always
  hold, however many jobs overlap and however late they start;
* `SoleModelCovered`: with one model `NoCommitSkipped` holds for arbitrary pushes,
  local runs on any checkout and dry runs, and the base of a resumed review is
  covered in the same sense (`ResumeBaseRead`);
* `RosterImplementsCoverage`, `SoleModelImplementsCoverage`: under the same
  hypotheses `Spec` implements `CommitCoverage`;
* `SummaryReplaced`: one job at a time and deletions that succeed leave at most
  one summary per model;
* `ThreadsUpToDate`: with one fixed roster, fast-forward pushes, action jobs (dry
  or not) and thread files that can be written and read, a resumed thread has been shown every commit its model is told to skip.

Neither safety property is inductive: nothing in them says why the SHA a job
found is safe for the model it is about to start. `RosterInv(R)` adds it. The
newest summary may have been written by an early model of the roster before the
others had finished, so the *summary* only vouches for its own model; but a
resume also needs the cache entry of that SHA, and an entry is saved only by a
job that got through the whole roster, under its event's SHA: the commit a full
review has read, and an ancestor of the head up to which a resumed one has. The
invariant therefore says: a summary is covered (`unread` included) by its own
model; every model of the roster has posted on the whole of a cache entry's
commit; hence also on the previous SHA of a job with a cache hit and the base of a
resumed review; the models before the current one have posted on the job's event;
and the event is an ancestor of the branch's head, and of the target once
`get_pr` has read it. With one model
(`SoleInv`) a summary vouches for everybody, and the direction of the pushes and
the cache do not matter. The proofs have one step per action and a lemma for
what every other job keeps (`RosterJobStays`, `SoleJobStays`). The refinement
proofs need the invariant only where a summary is created (`PublishCovered`).
`ReplaceInv` says that a job about to create a summary has left no other of its
model.

`ThreadsUpToDate` has an invariant of its own, `ThreadInv(R)`: a cache entry of a
commit holds threads of all the roster's models that know this commit; the
threads a job restored know the previous SHA, and those of the models that have
had their turn know the event's commit, under which they will be saved.
`ExecuteReview` leads from one to the other: it shows the thread the checkout, or
exactly the commits from the base to the head, and the base is the previous SHA. A job that dies saves nothing, so its threads are lost with it.

Only model-checked: `HeadGetsReviewed`, which is liveness under fairness and
beyond the prover.

## 4. Act mode: `EditWorkflow`

### 4.1 The model

One command from the checkout to its exit, with developers pushing all along. A
branch is the sequence of its commits and a commit the contents it gives to some
paths; the git commands are modelled by what they do to HEAD, the remote
tracking branch, the index and the files.

| variable | code |
|---|---|
| `remote` | the branch at origin, or `NoBranch` when the head is in a fork |
| `repo` | HEAD, `origin/<branch>` as last fetched, index, files, a rebase in progress and the commit it began at (`orig`) |
| `job` | the workflow: `before`, `lease`, `snapshot`, `dirty` are `_EditPreflightState`, `touched` is `agent_touched_paths`; `exit` and `reply` are the outcome; `seen`, `work`, `made` and `landed` are history (the checkout, the paths the agent changed, the files as it left them, what this run pushed) |

`Checkout` (the PR's head, the event's SHA for a comment on a diff line, or a
user's own dirty checkout), `Preflight`, `PreparePrompt`, the agent's tools in
any order (`AgentWrites`, `AgentRemoves`, `AgentGitRm`, `AgentCommits`,
`AgentAmends`, `AgentResets`, `AgentRebases`), `AgentEnds`, `Probe` (touched
paths, ahead, dry run), `FinalizeCommit`, then `PushForceWithLease`, or
`PushHead`, `Fetch`, `Rebase`, `AbortRebase`, `PushRebased`. Every early return is
there with its exit code and its reply; a git command that is killed after 120
seconds (`Killed`) raises `TimeoutExpired`, which only `main` catches. A conflict
is two commits that write one path differently, so a path stands for a region of
the code.

A rebase takes several steps of git. It may be refused before it begins
(`Blocked`), finish, stop at a commit that conflicts, or be killed after any
number of replayed commits (`Halfway`: HEAD, index and files are at the branch
plus those commits, and the commit it began at is kept). After a conflict the
workflow aborts it and does not look at the result, so the abort may work, fail
or be killed; after a kill nothing aborts it. What a commit or an `add` that
fails has staged stays staged.

The shell gives the agent any command. Those of `ToolKinds` cover what the
workflow can tell apart afterwards: files written, removed or removed through
git, commits added, replaced or dropped, and a rebase left unfinished. Left out are
commands that act on origin (a push, fetch or pull of the agent's own) or on
another branch, and the conflict markers a stopped rebase writes to the files of
the conflict.

### 4.2 What is checked

| run | instance | result |
|---|---|---|
| `edit_branch` | on a pull request whose branch is at origin, or by hand in a dirty checkout; every tool, every failure, pushes and forced pushes from the preflight on | `TypeOK`, `NoChangesMeansNone`, `PushedMeansLanded`, `CommitsOnlyTouched`, `UserChangesStay`, `OnlyKnownCommitsLand`, `BranchSpec` hold |
| `edit_lease` | a push between checkout and preflight | **violated**: `UnseenCommitKept` |

* **`BranchSpec`.** Seen from the branch, a command is four steps of
  `SharedBranch`: others share the branch (`Share`), the command takes it
  (`Take`), lands at most once (`Land`) or ends without (`End`). Landing only adds
  to the branch, unless the branch is still exactly what the command took, and
  brings back no commit of others but those it took. `UnseenCommitKept`, which
  `edit_lease` refutes, follows from it.
* **Lease.** `--force-with-lease=<ref>:<sha>` is as good as the SHA. It is read
  from origin at the preflight, after the checkout: what was pushed in between
  is covered by the lease, unknown to the agent, and dropped if it amended a
  commit. For a comment on a diff line the checkout is the event's SHA, so the
  window starts when the comment is written.
* **`git rm`.** Seen in the model, against `README.md:41-43` (the action "pushes
  the result"): a path removed through git is among the touched paths (`git diff
  --cached` lists it) but `git add -- <path>` does not know it and exits with
  128; the turn ends with "Git operation failed" and nothing pushed.

Two more come with other constants. `Remotes = {NoBranch}` violates
`NoChangesMeansNone`: `git_head_is_ahead` answers `False` when origin has no
such branch (a pull request from a fork), so commits the agent made itself are
dropped; paths it left uncommitted are pushed, to a new branch at origin.
`Staged = TRUE` with local runs violates `CommitsOnlyTouched`: `git commit -m`
without paths takes the whole index. The properties are stated for what the code
does in two more places. An agent that only drops commits (`git reset --hard
HEAD~1`) leaves nothing dirty and nothing ahead, so HEAD is not compared with the
checkout (`edit_workflow.py:479` is not reached) and the answer is "no changes":
`NoChangesMeansNone` promises that HEAD is a beginning of the checkout and that no
change of the agent's own is left, not that nothing was dropped. A rebase that
was killed, or whose abort failed, leaves the checkout in the middle of it, and
`UserChangesStay` then finds the user's changes in the commit it began at.

One more behaviour is in the model and contradicts no document: when developers
force-push a commit of the checkout away during the command, the retry's rebase
brings it back. `OnlyKnownCommitsLand` is stated accordingly.

**Bounds.** Two paths (one touched, one not, or a conflict on one), two commits
on the branch and two that developers may push (one per path), and four tools.
Every conflict, refusal and retry of the code happens within them. A command
ends, so the deadlock check is off.

### 4.3 What is proved

`EditWorkflowProofs` proves every property of `edit_branch`, and
`UnseenCommitKept`, for any set of
paths, any use of the tools in any number, any pushes and every failure:

* `TypeCorrect`, `Landed` (`PushedMeansLanded`), `UserKeeps` (`UserChangesStay`)
  and `NothingRevived` (`OnlyKnownCommitsLand`) without further assumption;
* `NoneLeft` (`NoChangesMeansNone`) when origin has the branch (`NoBranch \notin
  Remotes`), `OnlyTouched` (`CommitsOnlyTouched`) when nothing was staged
  (`~Staged`), and `NothingLost` (`UnseenCommitKept`) and `ImplementsSharedBranch`
  (`BranchSpec`) when nobody pushes between checkout and preflight
  (`QuietCheckout`, no comment on a diff line): the three assumptions that 4.2
  shows to be necessary.

None of the properties is inductive. The invariant `Inv` says besides where the
work of the agent is at every step of the workflow. `Branches`: the branch, the
checkout and the tracking branch are sequences of commits of others until the
workflow pushes. `Heads`: until a rebase the commits of others in HEAD are where
the checkout had them (`Placed`), and on the way to a push without force HEAD
extends the checkout (`Extended`); after one it extends the branch as fetched.
`Leased`: if nobody pushes before the preflight, the lease is what was checked
out, and without a lease origin has no such branch. `Worked`: what the agent
changed differs from what the user left in the files, so the comparison with the
snapshot finds it. `StagedOwn`: unless the user staged something, what is staged
is the agent's work. `Landing`: from the workflow's commit on, HEAD has what the
agent made of the paths it changed, and after the rebase at least those that
differ from the checkout. `Safe`: until a rebase stops the user's changes are in
the files; from there to its abort each is in the files if it is dirty and in
the commit to go back to if it is not. `Promises` are the properties themselves.

The contents of a branch are defined by the last writer of each path, so the
lemmas are about last writers: appending a commit changes those of its paths
only, and a rebase, which replays the commits that the other side has not, keeps
the last writer of a path if the other side does not have that very commit
(`RebaseKeepsLast`). It has neither a commit that writes a user's change nor one
that makes a path differ from the checkout, for by `Placed` and `Extended` such a
commit is the agent's or the workflow's. Arguments by induction on a branch go by
the least position that a claim does not hold for (`Least`, `Greatest`).

For the refinement the steps of a run are sorted into three kinds: the checkout,
those that leave the branch alone (`StaysOff`) and the pushes that move it
(`Moves`). `LandsOnce` adds to `Inv` that a run which has landed is over.

## 5. Findings: `ReviewPosting`

### 5.1 The model

From the snapshot of the pull request's comments to the published summary, for
every model of a roster and over several jobs. A finding is an *issue* of the
code, which stands for the snippet a comment quotes under "Current code": a
prior thread applies to the checkout exactly if the checkout has its issue.

| variable | code |
|---|---|
| `code` | the issues the branch has; developers change it at any time (`Edit`) |
| `threads` | dotbot's inline review threads; users resolve them (`Resolve`) |
| `general` | issue comments made of remapped findings |
| `summaries` | models with a summary comment |
| `job.tree`, `.idx`, `.dry` | the checkout, the place in the roster, `DRY_RUN` |
| `job.known`, `.live`, `.prior` | `_ReviewSnapshots`: was there a summary to tell dotbot's author by, the applicable threads, those the prompt shows |
| `job.queue`, `.remap`, `.inline`, `.skipped`, `.dropped`, `.remapped` | the payloads still to post, and the counters of `ReviewPostingOutcome` as the sets they count |

`CaptureSnapshots` is one step although the code makes two or three requests:
only dotbot adds threads and summaries, and one job runs at a time. `RunModel`
is the model's turn with `_sanitize_review_result` and
`validate_findings_against_diff`. Findings are new issues of the checkout, as
the schema prompt demands, and which of them anchor is arbitrary here: where a
finding goes is `DiffAnchors`. `carried_forward` is an arbitrary list (unknown
identifiers, stale threads, repeated ones, wrong snippets), because the code
checks it. `PostBatch`, `PostInline` and `PostGeneral` are the ladder of
`posting.py`: one submission, a 422 leads to single submissions, a 422 there
skips the comment, and any other failure ends the job, whether or not GitHub had
carried the request out. A general comment's 422 ends the job too. `Abort` may
happen anywhere.

### 5.2 What is checked

| run | instance | result |
|---|---|---|
| `posting_jobs` | two issues, two models, two jobs, dry or not | `TypeOK`, `Accounting`, `LaterModelsSeeEarlier`, `NoRepeat` hold |

* `Accounting`: every finding is in exactly one place, and what the run counts
  as posted is on GitHub exactly once. The batch that fails with anything but a
  422 must not be retried one by one, because it may have worked.
* `NoRepeat`: an unresolved thread is repeated only by a run that could not know
  it: no summary in its snapshot, or more prior comments than the prompt has
  room for (200). Never by the run that opened it.
* `LaterModelsSeeEarlier`: the prompt of a later model (`job.prior`) shows every
  unresolved thread of the earlier ones on code the checkout has, or it is full
  of older threads. It rests on the order of deletion and creation of the
  summaries: a later model finds dotbot's author because the earlier one
  published. The exception is real: src/cli/workflows/review_workflow.py:861-864
  says that a later model sees the earlier comments, and dedupe.py:97-98 keeps
  the first 200, so on a pull request with 200 older threads it sees none of
  them.
* A job that finds no summary is blind: cli/README.md:136 says that earlier
  inline comments are enough to detect a prior review, but
  `collect_dotbot_author_logins` reads summaries only. After a first job that
  died between its inline comments and its summary, the next one repeats them
  (`NoRepeat` exempts it).

**Bounds.** Two issues are needed for a batch of which one comment is refused;
two models for a roster; two jobs for a summary of an earlier job. `PromptLimit`
is 2, so two threads on one issue and one on the other (after blind runs) exceed
it. Two entries in `carried_forward` are enough for a repeated one. The issues
are symmetric. The program stops after `MaxJobs`, so the deadlock check is off.

**Assumed.** Nobody reopens a resolved thread while a job runs, and one job runs
at a time (`concurrency` in `dotbot-review.yml`). With the workflow of the
README, which has no concurrency group, two jobs repeat each other's findings.

Met while modelling, and left as they are: a comment that was skipped after a
422 is mentioned in the log but not in the published summary; general comments
carry a marker that nothing reads, so later runs repeat them; and the
auto-resolution of fixed threads that cli/README.md:141 describes does not
exist.

### 5.3 What is proved

`ReviewPostingProofs` proves all four properties of `posting_jobs`, and that
what a summary carries forward are distinct live threads of the snapshot
(`CarriedCorrect`), for every finite set of issues, roster, prompt limit and
number of jobs. The inductive invariant `IInv` adds to them what the snapshot
promises while a job runs (`SnapshotHolds`: the threads it found, with what is
open now still among what was open then), that the findings avoid what the model
was shown (`FindingsAreNew`), which places are still empty in which phase
(`Untouched`), and that a non-dry job has published between two of its models
(`SummaryBetween`). `NoRepeat` follows from two lemmas: a new thread was a
waiting finding (`NewThreadsWaited`), and a waiting finding that an unresolved
thread covers was not known to the run (`WaitingIsNew`). `LaterModelsSee` rests on
`LeftOut`: a thread that the prompt leaves out comes after exactly `PromptLimit`
that it shows. Its proof takes the first place in the list at which
`PromptLimit` threads are older, from the well-foundedness of `<` on the
naturals.

## 6. Turns of the model: `AgentLoop`

### 6.1 The model

One module for the OpenRouter client, its stream, its tools and its thread
store, because what they promise together is one thing: the conversation that
the next request sends is the one that was held. Turns run one after the other
(a roster is reviewed in sequence), and any number of models share the directory
of threads.

| variable | code |
|---|---|
| `files` | the thread files, by model and thread identifier: `_thread_path` |
| `turn.log` | `messages`, without the text: role, calls, and the call that is answered |
| `turn.slots` | `StreamingResult.tool_calls`: per index, whether the `id` has come, and the pieces of arguments merged so far |
| `turn.pending`, `.iter`, `.final` | the loops of `_agent_loop` |
| `turn.sent`, `.frames` | what the provider has sent of the current answer |
| `turn.requests`, `.whole`, `.executed` | history for the properties |

`StartThread` is `latest_thread_id`, `load` and the prompt. `Send` is a request
whose answer has any number of calls; `Receive` is one frame of one call, with
the calls interleaved in every order, and the frame merged, skipped because it
does not parse, or merged with a damaged character. `Answer` ends the stream,
after the last frame or earlier: the code looks neither at `finish_reason` nor
for `[DONE]`. `ExecuteTool` runs one tool or refuses its arguments; either way a
tool message answers the call. `SchemaTurn` is the request for JSON, whose answer
may be blank. `SaveThread` writes the file in place; `Fail` and `Kill` end the
turn by an exception and by the death of the process.

### 6.2 What is checked

| run | instance | result |
|---|---|---|
| `agent_turns` | two turns of two models, two iterations, two calls of two pieces, every fault but "cut" | `TypeOK`, `RequestsWellFormed`, `StoredThreadsFinished`, `ExecutedAsSent`, `StoreSpec` hold |

* `RequestsWellFormed`: every request sends a conversation in which the calls of
  an assistant are answered in order by the messages that follow, whatever was
  lost, refused or cut before, in this turn or in an earlier one of the thread.
* `ExecutedAsSent`: a tool that does something was given exactly the arguments
  the model sent for that call, no call is run twice, and of an answer that
  arrived whole none is passed over.
* `StoredThreadsFinished`: a thread on disk ends a turn.
* `StoreSpec`: the files implement `ThreadStore`, in which a thread has one model,
  is replaced only by a finished conversation that continues it (`Save`), and is
  never taken up again once its file is torn (`Lose`). It implies `HistoryKept`.

**Bounds.** Two calls are needed to interleave, two pieces for a first and a
last one, two iterations for a cap that is not the first answer, two turns for a
resumed thread, two models for the wrong one. With three pieces a lost middle
piece may leave arguments that still parse, and `ExecutedAsSent` fails: a frame
that does not parse is dropped on purpose (`_decode_sse_line`), so the run stays
with two. The models are symmetric. The program stops after `MaxTurns`, so the
deadlock check is off.

Met while modelling, with other constants:

* That threads are kept apart by model is not a property of the code: README.md:145
  says "Review state (resume threads, ...) is isolated per model", and with
  `Extends = {<<A, B>>}` (the name of one model begins with that of the other)
  `StoreSpec` fails after two turns, with the conversation of `B` stored as a
  thread of `A`. The run and the two theorems below leave this case out and
  claim nothing about it. `latest_thread_id` (openrouter_thread_store.py:103) takes every file
  whose name starts with `openrouter-thread-v1-<repo>-pr-<n>-<model>-`; the prefix
  of `gpt-4` also takes the files of `gpt-4-mini`, and nothing compares the
  model that the payload stores. A review by `gpt-4` then resumes the
  conversation of `gpt-4-mini` when that one is later.
* With `Faults = {"cut"}`, `ExecutedAsSent` fails after four steps.
  `_iter_sse_events` decodes every chunk alone, with `errors="replace"`; a
  character whose bytes lie on both sides of a chunk boundary becomes replacement
  characters, the JSON still parses, and a tool is run with altered arguments
  (`write_file` writes them). tests/test_openrouter_stream.py:147 says that chunk
  boundaries are arbitrary and tests a cut in the ASCII part of a frame only.
* `execute_tool` promises never to raise for errors of the model, but a command
  whose output is not UTF-8 raises `UnicodeDecodeError` and ends the turn (`Fail`
  in the phase "tools").
* A stream that ends before any call ends the loop as an answer in plain text.
* A thread file is torn by a death during its write, unlike the files of
  `core/filesystem.py`. `latest_thread_id` skips it and resumes an older one.

### 6.3 What is proved

`AgentLoopProofs` proves every property of `agent_turns`, and that the cap on
iterations bounds the requests of a turn (`RequestsCorrect`), for every set of
models, cap, number of calls and pieces. `AgentAssumption` asks for a model, a
turn, an iteration and a piece at least.

* `TypeCorrect`, `RequestsCorrect` share the invariant `TypeOK /\ Counters`:
  the place in the turn fixes how many requests have been made.
* `RequestsAccepted`, `StoredCorrect` rest on `Conversation`. In the middle of
  the tools a conversation is not well formed, so the invariant says how far it
  is (`PartlyAnswered`): the calls still pending are the last ones of a message
  *j*, and the rest of the log is their predecessors' answers. Three lemmas
  follow a message that is added: `AppendPlain`, `AppendCalls`, `AppendAnswer`.
* `HistoryCorrect` (`HistoryKept`) and `ImplementsThreadStore` (`StoreSpec`)
  assume `Extends = {}`, which is necessary (see above). They rest on `Ownership`: identifiers are fresh, one model has
  each, and the file of the running turn is a beginning of its conversation. For
  the refinement, `Undivided` adds that an identifier with a file, torn or not,
  is of one model, and that a turn is never in a torn thread; then the end of a
  turn is a `Save`, a `Lose` or nothing (`EndStores`).
* `ExecutedCorrect` assumes that no frame is cut and, where frames may be lost,
  that a call's arguments come in at most two pieces: the counterexamples above
  show both to be necessary. `Delivery` says what a slot holds of what its call
  has sent so far, and that the calls executed come before those pending. A lost
  frame leaves a gap, and with two pieces a gap is seen: arguments that lack the
  first or the last piece do not parse (`LossIsSeen`, `SomeSent`,
  `FirstAndLast`).

## 7. Records of reviews: `ReviewState`

### 7.1 The model

| variable | code |
|---|---|
| `files` | the directory of `ReviewStateStore`: a record, or what is left of one, under the path of each key |
| `job` | runs under way: key, the previous head it is told (`hint`), the record found, the decision, the scope, what it found |
| `published` | heads that a summary names, from which a hint comes |
| `runs`, `damages` | counters for the bounds |

A run looks for a record of its key (`LoadCurrent`), then for one of the head
reviewed before (`LoadPrevious`), asks git for ancestry and changes (`Probe`),
chooses the files of the prompt (`Scope`), reviews them (`Review`) and writes
its record (`RecordRun`), a continued one after `migrate_to_sha`. Two runs of
different keys interleave in all steps; a run may die anywhere (`Die`); a file
may vanish, be cut, or hold another schema (`Damage`). A record is written by
renaming a temporary file, so a death tears none.

Nothing under `cli/` calls `record_review_run`, `migrate_to_sha`, `record_state`
or `discard`, although review_state.py:395-396 says that the action writes
records. In production, then, no record is ever found and every review is a full
one. The model plays the caller that tests/test_review_state_multirun.py plays.

`seen` of a record is history: which version of which file the reviews behind it
were shown.

### 7.2 What is checked

| run | instance | result |
|---|---|---|
| `state_runs` | four commits, two models, two files, three runs of which two at once, one damage | `TypeOK`, `NoForeignFindings`, `FullyReviewed`, `OnlyOwnRecordWritten` hold |

* `NoForeignFindings`: a record that later runs continue never holds a finding
  of another model, or of a commit that a forced push threw away.
* `FullyReviewed`: however full, incremental, failed and repeated runs follow
  each other, the record of a head stands for reviews of every file of the pull
  request in that head's version.
* `OnlyOwnRecordWritten`: a run writes under its own key only, so the record it
  fell back on is still there for a run of the older head.

**Bounds.** Commits 1 and 2 are in line, 3 is beside 2 after a forced push, and
4 is another name of 2 (an amended message): a head with an ancestor, without
one, and with the same contents. Two of three runs are a chain with a third
beside. File "g" has a blank in its path. One damage suffices, since a look-up
asks for two files and the second is asked for only when the first cannot be
used. Two models have different slugs (`SlugAssumption`); the program may stop
after `MaxRuns`.

**Assumed.** Ancestry is a preorder. `ScopeAssumption`: a file that belongs to
the pull request at a head and has not changed since an ancestor belonged to it
there. It fails for a merge that keeps the branch's version of a file of the
base; then the incremental scope leaves that file out.

Met while modelling:

* `_DIFF_HEADER_RE` (review_workflow.py:70) matches no path with a blank and no
  quoted one, so such a file is missing from the scope when the diff is given
  inline, against the docstring (:81-88) and :454. The prompt still holds the
  diff itself, which is why `FullyReviewed` holds with a blank. A *quoted* path
  (git quotes non-ASCII letters) is not recognised in the output of
  `--name-only` either, which is what is used when the diff is too large for the
  prompt: with `Quoted = {"g"}` `FullyReviewed` fails.
* `load` (review_state_store.py:208) promises that a damaged file reads as none
  (:119-121), but a file cut inside a character raises `UnicodeDecodeError`: the
  run ends (`Raises`).

### 7.3 What is proved

`ReviewStateProofs` proves all four properties for every history that the
assumptions allow, every set of models and files, any number of runs at once and
any damage; `Coverage` assumes `Quoted = {}`. None is inductive. The invariant
says that every record on disk is sound and under its own path (`FilesSound`);
that a record a run holds is sound and of the run's key with the hinted head
(`PriorSound`, `Probed`), and one that an incremental run continues is of an
ancestor (`Resumed`); that a run past its scope will be shown every file of the
pull request that has changed since (`Covered`); and that its findings are its
own (`OwnFinding`). The step that matters is that soundness passes from the
record of an ancestor to the continued one: a file changed since is in the scope
or the diff, and an unchanged one was seen before, by `ScopeAssumption`.

## 8. Pairing and scoring: `FindingMatch`

### 8.1 The model

| variable | code |
|---|---|
| `codex`, `openrouter` | the normalised findings of both sides for one pull request |
| `rest`, `matches` | the candidates that `match_findings` has not walked over yet, and the pairs it has claimed |
| `asked`, `left`, `best` | the finding that `match_finding` is asked about, the labelled entries not yet compared with it, and the strongest one of every finding so far |

`Walk` takes one candidate in the order of the sort (distance, then the
identifiers), `Ask` turns to the next finding, `Compare` compares it with any
entry that is left, so the entries come in every order. `Severity` and
`Normalize` are the conversions: a priority outside 0..3 gives way to the tag in
the title, a missing end is the start, a range may be written backwards. Words
stand for the keywords of a finding's text.

### 8.2 What is checked

| run | instance | result |
|---|---|---|
| `eval_match` | up to two findings of five kinds on each side, five labelled entries | `TypeOK`, `OneToOne`, `Stable`, `StrongestEntry` hold |

* `OneToOne`: no finding is in two pairs, so the counts on both sides add up.
* `Stable`: a candidate is passed over only for a closer pair that shares a
  finding.
* `StrongestEntry` compares the chain of `if`s in `_is_stronger` with an order
  that is defined independently (`Key`, `Less`), and shows that the order of the
  dataset's entries has no influence.

**Bounds.** Two findings on each side are what a rejected pair and a choice of
partners need; the kinds have a range written backwards, one without an end,
none, a path of its own and a priority out of range. The entries tie on quality,
on distance and on words. The tolerance of 3 lies between the distances that
occur.

Met while modelling:

* Closest first is not most pairs: with findings at lines 4 and 6 against 6 and
  9, the walk keeps one pair (6 and 6) where two are possible.
  overlap_spec.md:122 calls the result an "upper bound on the true match set";
  it is not an upper bound.
* The exclusion of P3 findings in overlap_spec.md §5.2 is not in the code, and
  no caller gives a category, so the mismatch of §4.1 never occurs.
* The pairing depends on the order of findings through their identifiers when
  distances tie; only the scoring is independent of order.

### 8.3 What is proved

`FindingMatchProofs` proves all four properties for lists of any length, any
tolerance and any dataset. `Pairing` says besides what a pair agrees in (`Agrees`:
both findings have lines, of one file, within the tolerance); its one-to-one part
is inductive as it stands. `Stability` needs that the pairs walked over come before those in `rest` (`WalkedFirst`).
`Scoring` needs that `IsStronger`, among entries that apply, *is* the
lexicographic order of the keys (`StrongerIsLess`), and that this is transitive
and total (`LessIsTransitive` and the distinct ids): a strongest entry of those
seen stays one when the next is compared.

Two theorems go beyond the run and say what the pairing is, once the walk is
done. `OnlyStablePairing`: it is the only set of candidates that is one to one
and stable, so it depends on the findings and their order in the lists alone
(overlap_spec.md:250 promises a deterministic pairing). Of two such sets take
the first candidate, in the order of the sort, that only one of them has
(`FirstCandidate`): the other must have an earlier one that bars it, and that
one they share. `AtLeastHalf`: it has at least half as many pairs as any set of
candidates that is one to one, so a measured recall is at most a factor of two
below the best possible; every pair of the larger set shares a finding with a
pair of the walk, on one side or the other, and no two share one on the same
side (`SharingPairs`). The example above shows that the factor two is reached.

## 9. The evaluation's files: `EvalPipeline`

### 9.1 The model

| variable | code |
|---|---|
| `registry`, `dataset` | the pinned head of each sample pull request, and the head of its labelled entries |
| `runs`, `fixtures` | captures of both sides under `eval/runs/`, and their copies under `tests/fixtures/` |
| `parity`, `summary`, `overlap`, `aggregate`, `report`, `page` | what `compare_findings`, `overlap_score`, `overlap_aggregate` and `parity_report` derive |
| `scored`, `scoring` | what `score_codex_baseline` derives |
| `bake`, `records`, `index` | the bake-off: captures of `run_openrouter`, and the records that people label |
| `job`, `done` | the running script with the pull requests it still has to do; the one that has just ended |

`Launch` starts one of the scripts with its options (one pull request or all,
`--force`, dry, replay, live). It then takes one pull request after another in
any order (`CaptureOne`, `CopyOne`, `CompareOne`, `OverlapOne`, `ScoreOne`,
`BakeOne`, `BuildOne`) and writes its last file (`WriteReport`, the `Finish`
actions), or dies, which tears the file at hand if it is written in place
(`Die`). Between scripts people repin a head, relabel the dataset or label a
record (`Repin`, `Relabel`, `LabelRecord`).

A review is a set of findings, each a bug with a severity; how two are paired is
`FindingMatch`, and here those of one bug are. The `--check` of each script is
an operator (`CopyCheck`, `OverlapCheck`, ...). Rates are rounded to four
digits, as in the code. `sample-prs.yml` and `.yaml` are taken to name the same
heads.

### 9.2 What is checked

| run | instance | result |
|---|---|---|
| `eval_files` | two pull requests, two heads, two bugs, any three commands, from committed files with captures or without, copied or not | `TypeOK`, `FreshAfterRun`, `GateHolds` hold |

* `FreshAfterRun`: a script that has gone over every pull request leaves files
  that its own check accepts, whatever died, was run for a subset or was left
  stale before.
* `GateHolds` goes back from the end of the chain to its beginning: with every
  check green and the report passed, there are captures of both sides at one
  head, and the candidate found the required share of what the baseline found.
* That only captures of the pinned head are scored is a guard of `score_pr`
  (score_codex_baseline.py:721), and is in the definition of `Scored`; no
  property restates it.

**Bounds.** Two pull requests for a rate pooled over one that is ready and one
that is not; two heads for captures that drift apart; bodies with both bugs and
with one, so that a recall of half fails the gate and one of a whole passes.
From consistent files three commands suffice to make a file stale, to derive one
from it, and to run a script beside it or again. Pull requests and heads are
symmetric. Nothing is run after `MaxCommands`, so the deadlock check is off.

Met while modelling:

* The rate of agreeing severities divides the agreements of *all* rows by the
  pairs of the ready ones (overlap_aggregate.py:388, :415), against the comment
  at :411, so a pull request whose heads drifted apart can raise it above 1.
* Re-running a capture after a head was repinned skips it, because a captured
  file is kept whatever its head (run_codex_baseline.py:155); only `--force`
  helps, and a failure under `--force` overwrites a good capture.
* Rebuilding a comparison record empties its labels, so `ready_for_labeling`
  never turns into `ready_for_scoring` through `build_comparison_set`
  (comparison/README.md:251 describes that it does).
* A run with `--pr-id` rewrites the summary or the index with the subset only.
* eval/README.md:173 describes a row with `status = unmeasurable` after a
  force-push; no script writes that status (it is `head_sha_drift`). The CI job
  and the make targets that it and `check_overlap_threshold.py` name do not
  exist, and the drift checks that it lists leave out those of the copies, which
  `GateHolds` needs.
* The bake-off's diff is "at the pinned head_sha" (runs/README.md:35), but `gh
  pr diff` gives that of the current head; the capture still names the pinned
  one.

### 9.3 What is proved

`EvalPipelineProofs` proves `TypeCorrect`, `Idempotence` (`FreshAfterRun`) and
`ReportTraceable` for any number of pull requests, heads, findings and commands. `FreshAfterRun` speaks of finished scripts only; the
invariant adds `Progress`: of the pull requests a running script was asked for,
those no longer in `todo` have the file that it would write now. This is
inductive because no script writes what it reads and nobody edits a file while
one runs.

`GateBelow` and `Gate` prove `GateHolds` for the gate's threshold of 0.80 as long
as the baseline has fewer than 4000 findings to find again. The argument goes
back along the chain:

1. `ComparedIsCaptured`: with the copies checked, what is compared are the
   captures, because a capture is never missing or torn once it was there.
2. `FoundSplits`: what the baseline found is what was found again and what was
   not. Both sides count bugs, the one through matches and the other through
   findings, so the numbers are those of a set and of its image under a
   bijection (a review names a bug once).
3. `GateRounded`: the rate is rounded to the nearest, so a passed gate means
   `20000 * again + found >= 16000 * found`, and below 4000 findings there is no
   share between that and four fifths.

The limit is close to sharp: 3203 of 4004 is 0.79995, which the code rounds to
0.8000 and lets pass. `GateHolds` without a bound is false for that reason.

`ReportTraceable` has no such limit. With the checks of the copies, comparisons,
overlaps and the report green, the report and the page are those that would
follow from the captures directly (`ReportOfCaptures`): no stale file in between
can show. The two drift checks that eval/README.md:153-155 lists are not enough
for this; those of the copies and comparisons are needed.

## 10. The place of a finding: `DiffAnchors`

### 10.1 The model

A changed file is the *script* that turns its base into its head: kept, added
and removed lines. GitHub's patch is what the script shows, in hunks of changes
with a number of context lines around them. The program reads the patch; the
properties speak of the script, so the parser is compared with what it parses.

| variable | code |
|---|---|
| `script` | the file; not visible to the program but through `Patch` |
| `unread` | the lines of the patch that `parse_patch` has not read yet: a header, a line, or what `splitlines` cuts off a line |
| `inHunk`, `headLine`, `bounds` | `in_hunk`, `i_new`, `hunk_min` and `hunk_max` |
| `parsed` | `ParsedPatch`: valid, added and nonblank head lines, hunks |
| `finding`, `outcome` | the finding, and where it goes |

`ReadHeader`, `ReadLine`, `ReadTail` and `EndPatch` are the loop of the parser,
one line each. `Validate` is `validate_finding_against_diff` with
`resolve_range` and the payload made of it: the renamed path, the nearest lines,
the range for a suggestion, or a general comment when the file has no place.

A finding's file is a name relative to the repository from the beginning:
`to_relative_path` (patch_parser.py:193-198), which turns the absolute path of a
finding into one and strips leading dots and slashes of a path outside the
checkout, is left out.

### 10.2 What is checked

| run | instance | result |
|---|---|---|
| `anchor_patches` | every script of up to five lines of five kinds, every finding about lines 1 to 5 of the file, its old name or another | `TypeOK`, `ParsedAsWritten`, `WellPlaced` hold |

* `ParsedAsWritten`: line numbers, added lines and lines with text are those of
  the file, and two lines are in one hunk exactly if the patch shows all that
  lies between.
* `WellPlaced`: GitHub accepts the place (lines of the head in one hunk, with
  text at both ends, a range only for a suggestion); a finding on added lines
  stays there, with its whole range when that is one hunk and short enough; none
  becomes a general comment while its file has a place. This is the promise of
  comment_validator.py:105-110.

**Bounds.** With one context line, five lines are the least that give two hunks
(change, context, nothing, context, change), so ranges that cross a gap, hunks
with no line at the head and files that are removed all occur. `Span` is 4,
shorter than the longest range. The program stops at the outcome.

Met while modelling, with other constants or beside the properties:

* `splitlines` (patch_parser.py:91) also cuts at form feeds, NEL and the like.
  If the remainder begins with a blank or "+", it is counted as a line of its
  own, and every later comment of the hunk is one line off: with tails `" "` or
  `"+"` in `Items`, `ParsedAsWritten` fails.
* README.md:201 says that a finding whose line is not in the diff is filtered or
  remapped. The code moves a finding on a *context* line that is in the diff
  too, to the nearest added line, however far away (`Nearest`); and nothing is
  filtered for its line.
* After the move a suggestion may replace other lines than it was written for:
  one about the context lines 10 to 12, with additions at 9 and 13, becomes one
  about 9 to 13.
* The guard of `resolve_range` against lines below 1 is never reached: a payload
  with one is invalid as a whole. The policy "drop" is used by tests only.

### 10.3 What is proved

`DiffAnchorsProofs` proves the three properties for every script, number of
context lines, span and finding. `TypeCorrect` assumes nothing; `ParserCorrect`
and `PlaceCorrect` assume `QuietTails`, that no line is cut before something
that looks like a line of a patch (see above).

The invariant `Parsing` says where the loop is. `Ordered`: what was read comes
before what was not. `Opened`: past the first header the parser is in a hunk.
`Counted`: its sets are the numbers of the head lines read. `Positioned`: when a
line is next, and its hunk has a head line still ahead, the counter is the
number of the head lines before. This is the point where hunks that begin with
removed lines or have none at the head could go wrong. `Bounded`: the bounds are
the least and greatest line of the current hunk. `HunksReal`, `HunksClosed`:
every recorded hunk is one, and every hunk left behind is recorded. At the end
of the patch that is `ParsedAsWritten`. The place follows from three facts about
it: the nearest line is one of the candidates (`NearestIsOne`), numbers keep the
order of the script (`NumberOrders`), and all numbers between two of a hunk are
shown lines (`NumberReached`).

## 11. What is not modelled

* `codex_client.py`, `codex_event_debugger.py` drive an external SDK; nothing in
  the repository says what it does.
* Prompts and formatting: no decision depends on their wording, except that the
  summary's metadata carries the SHA and the model, which is modelled.
* `context_manager.py`, `artifacts.py` write files for the model to read; no
  step of the program reads them back. `annotate_patch` is for debugging, and
  nobody reads the positions that the artifact lists.
* Dispatch and configuration: which of several sources wins, and which workflow
  an event starts, is one expression each, evaluated once at the start of the
  process.
* The GitHub client: thin wrappers and a loop over pages. What the callers do
  with its answers and failures is in the modules of the callers.
* What the tools of the agent do to files in review mode, and the text of
  answers: no property depends on it.
* Of the evaluation: macro averages, breakdowns by category, and display text.
* The release workflows.

**Beyond the proofs.** `HeadGetsReviewed` is liveness under fairness, which
TLAPS does not do. Everything else that the passing runs check is proved, under
the assumptions that the sections name. Arguments by induction on a sequence or a number are made by a least counterexample instead (`WFMin` of
the library).

**Hazards without a property.** General comments that later runs repeat
(posting.py:582) and two jobs at once (review_workflow.py:889) contradict no
document; characters cut by a chunk boundary (openrouter_stream.py:263), output
that is not UTF-8 (openrouter_tools.py:183) and `git add` of a removed path
(git_ops.py:93) are in the models, with the counterexamples described in their
sections.

## 12. Running the checks

In this directory: `tlc -config ReviewResume_overlap.cfg MCReviewResume.tla` for
a run, `tlapm ReviewResumeProofs.tla` for the proofs of a module. `PROJECT.json`
lists module and configuration of the twelve runs; two of them show a violation
(`resume_roster`, `edit_lease`), the others pass. It also maps every definition
to the lines it stands for, lists the hazards with the properties that cover
them, and names for every checked property a mutant: an operator in the module
itself (its comment begins with "Mutant" or "For the mutation of") that changes
one definition the way a slip in the code would, and makes the property fail.
