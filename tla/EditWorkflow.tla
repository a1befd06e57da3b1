---------------------------- MODULE EditWorkflow ----------------------------
(***************************************************************************)
(* Act mode: a /dotbot command lets an agent change the checkout of a pull *)
(* request; the workflow commits the paths the agent touched and pushes    *)
(* them to the branch, while developers go on pushing to it.               *)
(*                                                                         *)
(* A branch is the sequence of its commits and a commit is the paths it    *)
(* writes; two commits conflict when they write one path differently, so a *)
(* path stands for a region of the code.                                   *)
(*                                                                         *)
(* Code: cli/workflows/edit_workflow.py, cli/clients/git_ops.py and        *)
(* cli/main.py.                                                            *)
(***************************************************************************)
EXTENDS Integers, SequencesExt, FiniteSetsExt

CONSTANTS
  Paths,          \* paths of the repository
  Base,           \* the commits of the pull request when the command is given
  Remotes,        \* what origin may have under the branch's name: Base, NoBranch
  DevCommits,     \* commits developers may push
  Triggers,       \* "issue_comment", "review_comment", "local" (run by hand)
  DryRuns,        \* the values DRY_RUN may have
  AgentTools,     \* what the agent does with its tools, a subset of ToolKinds
  MaxTools,       \* bound: tools the agent uses
  Staged,         \* TRUE: a user may have staged changes before a local run
  QuietCheckout,  \* TRUE: no push between the checkout and the preflight probes
  Faults,         \* the failures that may happen, a subset of FaultKinds
  NoBranch        \* origin has no branch of that name (the head is in a fork)

ToolKinds == {"write", "remove", "git rm", "git commit", "git commit --amend",
              "git reset --hard", "git rebase"}

FaultKinds ==
  {"forced",   \* developers force-push
   "abort",    \* git rebase --abort fails
   "probe",    \* a git command that only reads fails
   "commit",   \* git config or git commit fails
   "timeout",  \* a git command takes longer than 120 seconds and is killed; a
               \* push may have worked, and a rebase may have stopped anywhere
   "origin",   \* origin refuses what it could take, or cannot be reached
   "agent",    \* the agent's turn raises
   "github"}   \* the pull request or its review threads cannot be read

Contents == {"base", "dev", "agent", "user", "absent"}
Authors == {"dev", "agent", "dotbot"}
Trees == [Paths -> Contents]
Commit == [by : Authors, writes : UNION {[S -> Contents] : S \in SUBSET Paths}]

(* A commit that was there before the command or comes from others while   *)
(* it runs, whoever made it.                                               *)
DevCommit ==
  {c \in Commit : /\ c.by = "dev"
                  /\ \A p \in DOMAIN c.writes : c.writes[p] \in {"base", "dev", "absent"}}

ASSUME BranchAssumption ==
  /\ Base \in Seq(DevCommit) \ {<<>>}
  /\ DevCommits \subseteq DevCommit
  /\ NoBranch \notin Seq(Commit)
  /\ Remotes \subseteq {Base, NoBranch}

ASSUME ConfigAssumption ==
  /\ Triggers \subseteq {"issue_comment", "review_comment", "local"}
  /\ DryRuns \subseteq BOOLEAN
  /\ AgentTools \subseteq ToolKinds
  /\ MaxTools \in Nat
  /\ Staged \in BOOLEAN
  /\ QuietCheckout \in BOOLEAN
  /\ Faults \subseteq FaultKinds

VARIABLES
  remote,  \* the branch at origin
  repo,    \* the checkout: HEAD, origin/branch as last fetched, index, files
  job      \* the run of the workflow

vars == <<remote, repo, job>>

Phases == {"queued", "preflight", "prompt", "agent", "probe", "commit",
           "push", "fetch", "rebase", "abort", "repush", "force", "done"}

Replies == {"none", "pushed", "no changes", "dry-run", "nothing to address",
            "failed", "git failed", "probe failed", "rebase in progress"}

History == Seq(Commit) \cup {NoBranch}

(* orig: where a rebase that is not finished began.                        *)
RepoState == [head : Seq(Commit), tracking : History, index : Trees, tree : Trees,
              rebasing : BOOLEAN, orig : Seq(Commit)]

(* seen: the commits of the checkout; before, lease, snapshot and dirty:   *)
(* HEAD, the remote head, the files and the dirty paths at the preflight;  *)
(* work: the paths the agent changed; made: the files as it left them;     *)
(* landed: the branch as this run pushed it.                               *)
JobState == [phase : Phases, trigger : Triggers \cup {"none"}, dry : BOOLEAN,
             tools : 0..MaxTools, seen : Seq(Commit), before : Seq(Commit),
             lease : History, snapshot : Trees, dirty : SUBSET Paths,
             work : SUBSET Paths, made : Trees, touched : SUBSET Paths,
             landed : History, exit : 0..2, reply : Replies]

TypeOK ==
  /\ remote \in History
  /\ repo \in RepoState
  /\ job \in JobState

-----------------------------------------------------------------------------
(* Git.                                                                    *)

Writers(history, p) == {i \in DOMAIN history : p \in DOMAIN history[i].writes}

Content(history, p) ==
  IF Writers(history, p) = {} THEN "base"
  ELSE history[Max(Writers(history, p))].writes[p]

Files(history) == [p \in Paths |-> Content(history, p)]

(* Paths with changes: against the index, against HEAD, and untracked.     *)
Dirty(r) == {p \in Paths : r.tree[p] # r.index[p] \/ r.index[p] # Files(r.head)[p]}

(* The checkout of another commit leaves the changes alone.                *)
Moved(r, head) ==
  LET Over(tree) == [p \in Paths |-> IF p \in Dirty(r) THEN tree[p] ELSE Files(head)[p]]
  IN  [r EXCEPT !.head = head, !.index = Over(@), !.tree = Over(@)]

(* The commit that turns the files of a history into the given ones.       *)
CommitOf(by, history, files) ==
  LET changed == {p \in Paths : files[p] # Files(history)[p]}
  IN  [by |-> by, writes |-> [p \in changed |-> files[p]]]

(* How many commits two branches share, and those of the one beyond them.  *)
Shared(h, g) ==
  Max({n \in 0..Len(h) : n <= Len(g) /\ \A i \in 1..n : h[i] = g[i]})

Beyond(h, g) == SubSeq(h, Shared(h, g) + 1, Len(h))

(* What a rebase of h on g replays: commits g already has are left out.    *)
Without(history, theirs) ==
  LET kept[n \in 0..Len(history)] ==
        IF n = 0 THEN <<>>
        ELSE IF history[n] \in theirs THEN kept[n - 1]
        ELSE Append(kept[n - 1], history[n])
  IN  kept[Len(history)]

Replayed(h, g) == Without(Beyond(h, g), ToSet(Beyond(g, h)))

(* A branch moves without force only forward, or into being.               *)
FastForward(from, to) == from # NoBranch => IsPrefix(from, to)

-----------------------------------------------------------------------------
Init ==
  /\ remote \in Remotes
  /\ repo = [head |-> Base, tracking |-> remote, index |-> Files(Base),
             tree |-> Files(Base), rebasing |-> FALSE, orig |-> Base]
  /\ job = [phase |-> "queued", trigger |-> "none", dry |-> FALSE, tools |-> 0,
            seen |-> Base, before |-> Base, lease |-> NoBranch,
            snapshot |-> Files(Base), dirty |-> {}, work |-> {},
            made |-> Files(Base), touched |-> {}, landed |-> NoBranch, exit |-> 0, reply |-> "none"]

(* Developers, at any time.                                                *)
DevPush ==
  /\ remote # NoBranch
  /\ job.phase # "done"
  /\ QuietCheckout => job.phase # "preflight"
  /\ \E c \in DevCommits \ ToSet(remote) :
       \/ remote' = Append(remote, c)
       \/ /\ "forced" \in Faults
          /\ Len(remote) > 1
          /\ remote' = Append(Front(remote), c)
  /\ UNCHANGED <<repo, job>>

(* actions/checkout with fetch-depth 0: the head of the pull request for a *)
(* comment on it, the commit the event names for a review comment.  Run by *)
(* hand, the workflow finds the files as its user left them.               *)
Checkout ==
  /\ job.phase = "queued"
  /\ \E trigger \in Triggers, dry \in DryRuns :
     LET head == IF trigger = "review_comment" \/ remote = NoBranch THEN Base ELSE remote
         Left(S) == [p \in Paths |-> IF p \in S THEN "user" ELSE Files(head)[p]]
     IN
     \E changed \in SUBSET Paths, rebasing \in BOOLEAN : \E staged \in SUBSET changed :
       /\ trigger # "local" => changed = {} /\ ~rebasing
       /\ ~Staged => staged = {}
       /\ repo' = [head |-> head, tracking |-> remote, index |-> Left(staged),
                   tree |-> Left(changed), rebasing |-> rebasing, orig |-> head]
       /\ job' = [job EXCEPT !.phase = "preflight", !.trigger = trigger, !.dry = dry,
                             !.seen = head]
  /\ UNCHANGED remote

-----------------------------------------------------------------------------
(* The workflow up to the agent's turn.                                    *)

(* Mutant: exits with git's own exit code.                                 *)
EndRaw(exit, reply) ==
  job' = [job EXCEPT !.phase = "done", !.reply = reply,
                     !.exit = IF reply = "git failed" THEN 128 ELSE exit]

(* Every exit reports and replies; a reply that cannot be delivered changes*)
(* nothing.                                                                *)
End(exit, reply) == job' = [job EXCEPT !.phase = "done", !.exit = exit, !.reply = reply]

(* An exception the workflow does not catch ends the program in main, which*)
(* replies to nobody: a failing get_pr, or a git command that is killed.   *)
Raise(exit) == job' = [job EXCEPT !.phase = "done", !.exit = exit]
Killed == "timeout" \in Faults /\ Raise(2)

(* get_pr and _collect_preflight_state_or_reply                            *)
Preflight ==
  /\ job.phase = "preflight"
  /\ \/ /\ ~repo.rebasing
        /\ job' = [job EXCEPT !.phase = "prompt", !.before = repo.head, !.lease = remote,
                              !.snapshot = repo.tree, !.dirty = Dirty(repo)]
     \/ repo.rebasing /\ End(2, "rebase in progress")
     \/ "probe" \in Faults /\ End(2, "probe failed")
     \/ "github" \in Faults /\ Raise(1)
     \/ Killed
  /\ UNCHANGED <<remote, repo>>

(* _prepare_edit_prompt                                                    *)
PreparePrompt ==
  /\ job.phase = "prompt"
  /\ \/ job' = [job EXCEPT !.phase = "agent"]
     \/ End(0, "nothing to address")
     \/ "github" \in Faults /\ End(2, "failed")
  /\ UNCHANGED <<remote, repo>>

-----------------------------------------------------------------------------
(* The agent's turn: any tools in any order.                               *)

UseTool(tool, changed) ==
  /\ job.phase = "agent"
  /\ tool \in AgentTools
  /\ job.tools < MaxTools
  /\ ~repo.rebasing
  /\ job' = [job EXCEPT !.tools = @ + 1, !.work = @ \cup changed]
  /\ UNCHANGED remote

AgentWrites(p) ==
  /\ UseTool("write", {p})
  /\ repo.tree[p] # "agent"
  /\ repo' = [repo EXCEPT !.tree[p] = "agent"]

AgentRemoves(p) ==
  /\ UseTool("remove", {p})
  /\ repo.tree[p] # "absent"
  /\ repo' = [repo EXCEPT !.tree[p] = "absent"]

AgentGitRm(p) ==
  /\ UseTool("git rm", {p})
  /\ p \notin Dirty(repo) /\ repo.tree[p] # "absent"
  /\ repo' = [repo EXCEPT !.tree[p] = "absent", !.index[p] = "absent"]

(* git add -A, then git commit or git commit --amend                       *)
AgentCommits ==
  /\ UseTool("git commit", {})
  /\ repo.tree # Files(repo.head)
  /\ repo' = [repo EXCEPT !.head = Append(@, CommitOf("agent", repo.head, repo.tree)),
                          !.index = repo.tree]

AgentAmends ==
  /\ UseTool("git commit --amend", {})
  /\ Len(repo.head) > 1
  /\ repo.tree # Files(Front(repo.head))
  /\ repo' = [repo EXCEPT !.head = Append(Front(@), CommitOf("agent", Front(@), repo.tree)),
                          !.index = repo.tree]

(* A hard reset drops the last commit and every change, and leaves files   *)
(* alone that git does not know.                                           *)
AgentResets ==
  /\ Len(repo.head) > 1
  /\ LET files == Files(Front(repo.head))
         tree  == [p \in Paths |-> IF repo.index[p] = "absent" /\ files[p] = "absent"
                                   THEN repo.tree[p] ELSE files[p]]
     IN  /\ UseTool("git reset --hard", {p \in Paths : tree[p] # repo.tree[p]})
         /\ repo' = [repo EXCEPT !.head = Front(@), !.index = files, !.tree = tree]

(* A rebase the agent does not finish, stopped at an earlier commit.       *)
AgentRebases ==
  \E n \in 1..Len(repo.head) :
    LET earlier == SubSeq(repo.head, 1, n)
        stopped == Moved(repo, earlier)
    IN  /\ \A p \in Dirty(repo) : "absent" = repo.index[p] /\ "absent" = Files(earlier)[p]
        /\ UseTool("git rebase", {p \in Paths : stopped.tree[p] # repo.tree[p]})
        /\ repo' = [stopped EXCEPT !.rebasing = TRUE, !.orig = repo.head]

AgentEnds ==
  /\ job.phase = "agent"
  /\ \/ job' = [job EXCEPT !.phase = "probe", !.made = repo.tree]
     \/ "agent" \in Faults /\ End(1, "failed")
  /\ UNCHANGED <<remote, repo>>

-----------------------------------------------------------------------------
(* What the workflow makes of it.                                          *)

(* Mutant: leaves out the paths that are gone.                             *)
TouchedPresent == {p \in Dirty(repo) : repo.tree[p] # "absent"}

(* git_changed_paths_since_snapshot                                        *)
Touched == {p \in Dirty(repo) : p \in job.dirty => repo.tree[p] # job.snapshot[p]}

(* Mutant: reads the second of the two counts of git rev-list.             *)
AheadSwapped == remote # NoBranch /\ Beyond(repo.tracking, repo.head) # <<>>

(* git_head_is_ahead: whether origin has the branch is asked of origin, the*)
(* comparison is made with the branch as last fetched.                     *)
Ahead == remote # NoBranch /\ Beyond(repo.head, repo.tracking) # <<>>

(* _collect_post_agent_state_or_reply and the decisions after it           *)
Probe ==
  /\ job.phase = "probe"
  /\ \/ repo.rebasing /\ End(2, "rebase in progress")
     \/ "probe" \in Faults /\ End(2, "probe failed")
     \/ Killed
     \/ /\ ~repo.rebasing /\ Touched = {} /\ ~Ahead
        /\ End(0, IF job.dry THEN "dry-run" ELSE "no changes")
     \/ /\ ~repo.rebasing /\ (Touched # {} \/ Ahead) /\ job.dry
        /\ End(0, "dry-run")
     \/ /\ ~repo.rebasing /\ (Touched # {} \/ Ahead) /\ ~job.dry
        /\ job' = [job EXCEPT !.phase = "commit", !.touched = Touched]
  /\ UNCHANGED <<remote, repo>>

(* git add knows no path that is in neither the index nor the files.       *)
Unknown(r, p) == r.tree[p] = "absent" /\ r.index[p] = "absent"

Added(r, paths) ==
  [r EXCEPT !.index = [p \in Paths |-> IF p \in paths THEN r.tree[p] ELSE @[p]]]

(* Mutant: git add -A.                                                     *)
CommitPathsAll(r, paths) ==
  IF r.tree = Files(r.head) THEN [r EXCEPT !.index = r.tree]
  ELSE [r EXCEPT !.index = r.tree, !.head = Append(@, CommitOf("dotbot", @, r.tree))]

(* git_commit_paths: git commit takes the whole index.                     *)
CommitPaths(r, paths) ==
  LET staged == Added(r, paths)
  IN  IF paths = {} THEN r
      ELSE IF staged.index = Files(r.head) THEN staged
      ELSE [staged EXCEPT !.head = Append(@, CommitOf("dotbot", @, staged.index))]

(* git_is_ancestor                                                         *)
Rewritten(before, after) == before # after /\ ~IsPrefix(before, after)

(* _finalize_git_edit: a commit that fails or is killed may have staged the*)
(* paths.                                                                  *)
FinalizeCommit ==
  /\ job.phase = "commit"
  /\ LET known == \A p \in job.touched : ~Unknown(repo, p)
     IN  \/ /\ known
            /\ repo' = CommitPaths(repo, job.touched)
            /\ \/ job' = [job EXCEPT !.phase =
                           IF Rewritten(job.before, repo'.head) THEN "force" ELSE "push"]
               \/ "probe" \in Faults /\ End(2, "git failed")
               \/ Killed
         \/ /\ UNCHANGED repo \/ (known /\ repo' = Added(repo, job.touched))
            /\ ("commit" \in Faults /\ End(2, "git failed")) \/ Killed
         \/ ~known /\ End(2, "git failed") /\ UNCHANGED repo
  /\ UNCHANGED remote

(* A push that is accepted moves the branch; one that is killed may have.  *)
Accepted ==
  /\ remote' = repo.head
  /\ job' = [job EXCEPT !.phase = "done", !.reply = "pushed", !.landed = repo.head]

TimesOut ==
  \/ Killed /\ UNCHANGED remote
  \/ /\ "timeout" \in Faults
     /\ remote' = repo.head
     /\ job' = [job EXCEPT !.phase = "done", !.exit = 2, !.landed = repo.head]

(* Mutant: git push --force.                                               *)
LeaseNone == remote

Lease == IF job.lease # NoBranch THEN job.lease ELSE repo.tracking

(* git_push_force_with_lease                                               *)
PushForceWithLease ==
  /\ job.phase = "force"
  /\ \/ remote = Lease /\ (Accepted \/ TimesOut)
     \/ /\ remote # Lease \/ "origin" \in Faults
        /\ End(2, "git failed")
        /\ UNCHANGED remote
  /\ UNCHANGED repo

(* git_push_head_to_branch: the first push; any refusal leads to a rebase, *)
(* another failure does not;                                               *)
PushHead ==
  /\ job.phase = "push"
  /\ \/ FastForward(remote, repo.head) /\ (Accepted \/ TimesOut)
     \/ /\ ~FastForward(remote, repo.head) \/ "origin" \in Faults
        /\ job' = [job EXCEPT !.phase = "fetch"]
        /\ UNCHANGED remote
     \/ /\ "origin" \in Faults
        /\ End(2, "git failed")
        /\ UNCHANGED remote
  /\ UNCHANGED repo

Fetch ==
  /\ job.phase = "fetch"
  /\ \/ /\ remote # NoBranch
        /\ repo' = [repo EXCEPT !.tracking = remote]
        /\ job' = [job EXCEPT !.phase = "rebase"]
     \/ /\ "origin" \in Faults
        /\ End(2, "git failed")
        /\ UNCHANGED repo
     \/ Killed /\ UNCHANGED repo
  /\ UNCHANGED remote

(* git rebase refuses while a tracked path is dirty, or when the branch has*)
(* an untracked one.                                                       *)
Blocked(r) ==
  \E p \in Dirty(r) :
    \E tree \in {r.index, Files(r.head), Files(r.tracking)} : tree[p] # "absent"

(* It stops at a commit that conflicts or would write an untracked path.   *)
Stops(r, c) ==
  \/ DOMAIN c.writes \cap Dirty(r) # {}
  \/ \E d \in ToSet(Beyond(r.tracking, r.head)) :
       \E p \in DOMAIN c.writes \cap DOMAIN d.writes : c.writes[p] # d.writes[p]

(* The checkout after the first n commits are replayed on the branch.      *)
Halfway(r, n) ==
  LET done == SubSeq(Replayed(r.head, r.tracking), 1, n)
  IN  [Moved(r, r.tracking \o done) EXCEPT !.rebasing = TRUE, !.orig = r.head]

(* Whoever kills a rebase leaves it where it is; after a conflict it is    *)
(* aborted, whether or not that works.                                     *)
Rebase ==
  /\ job.phase = "rebase"
  /\ LET replayed == Replayed(repo.head, repo.tracking)
     IN  \/ Blocked(repo) /\ End(2, "git failed") /\ UNCHANGED repo
         \/ Killed /\ UNCHANGED repo
         \/ /\ ~Blocked(repo) /\ \A c \in ToSet(replayed) : ~Stops(repo, c)
            /\ repo' = Moved(repo, repo.tracking \o replayed)
            /\ job' = [job EXCEPT !.phase = "repush"]
         \/ /\ ~Blocked(repo)
            /\ \E n \in 0..Len(replayed) :
                 /\ \A i \in 1..n : ~Stops(repo, replayed[i])
                 /\ repo' = Halfway(repo, n)
                 /\ \/ Killed
                    \/ /\ n < Len(replayed) /\ Stops(repo, replayed[n + 1])
                       /\ job' = [job EXCEPT !.phase = "abort"]
  /\ UNCHANGED remote

(* Mutant: git rebase --quit.                                              *)
AbortQuits ==
  /\ job.phase = "abort"
  /\ repo' = [repo EXCEPT !.rebasing = FALSE]
  /\ End(2, "git failed")
  /\ UNCHANGED remote

AbortRebase ==
  /\ job.phase = "abort"
  /\ \/ /\ repo' = [Moved(repo, repo.orig) EXCEPT !.rebasing = FALSE]
        /\ End(2, "git failed") \/ Killed
     \/ /\ UNCHANGED repo
        /\ ("abort" \in Faults /\ End(2, "git failed")) \/ Killed
  /\ UNCHANGED remote

(* Mutant: forces the second push.                                         *)
PushRebasedForce ==
  /\ job.phase = "repush"
  /\ Accepted \/ TimesOut
  /\ UNCHANGED repo

(* and the second, which is the last.                                      *)
PushRebased ==
  /\ job.phase = "repush"
  /\ \/ FastForward(remote, repo.head) /\ (Accepted \/ TimesOut)
     \/ /\ ~FastForward(remote, repo.head) \/ "origin" \in Faults
        /\ End(2, "git failed")
        /\ UNCHANGED remote
  /\ UNCHANGED repo

-----------------------------------------------------------------------------
Agent ==
  \/ \E p \in Paths : AgentWrites(p) \/ AgentRemoves(p) \/ AgentGitRm(p)
  \/ AgentCommits \/ AgentAmends \/ AgentResets \/ AgentRebases \/ AgentEnds

Workflow ==
  \/ Checkout \/ Preflight \/ PreparePrompt \/ Probe \/ FinalizeCommit
  \/ PushForceWithLease \/ PushHead \/ Fetch \/ Rebase \/ AbortRebase \/ PushRebased

Next == DevPush \/ Agent \/ Workflow

Spec == Init /\ [][Next]_vars

-----------------------------------------------------------------------------
(* A push of the workflow.                                                 *)
Pushes == job' # job /\ remote' # remote /\ remote # NoBranch

(* A push removes from the branch no commit that was not in the checkout   *)
(* the agent worked on: force-with-lease protects what others have pushed  *)
(* (git_ops.py:267-268).                                                   *)
UnseenCommitKept ==
  [][Pushes => ToSet(remote) \ ToSet(remote') \subseteq ToSet(job.seen)]_vars

(* A push brings to the branch only commits of the agent and the workflow  *)
(* and commits of the checkout.  When developers force-push meanwhile, the *)
(* rebase may bring back a commit of the checkout they have removed, but   *)
(* never one that came and went while the command ran (git_ops.py:310-354).*)
OnlyKnownCommitsLand ==
  [][Pushes => \A c \in ToSet(remote') \ ToSet(remote) :
                 c.by # "dev" \/ c \in ToSet(job.seen)]_vars

(* Seen from the branch, the command does what SharedBranch promises: it   *)
(* takes the branch, lands at most once, and rewrites only what it took.   *)
Stage ==
  CASE job.phase = "queued" -> "given"
    [] job.landed # NoBranch -> "landed"
    [] job.phase = "done" /\ job.landed = NoBranch -> "ended"
    [] OTHER -> "working"

Branch == INSTANCE SharedBranch WITH
  Others <- DevCommit, Starts <- Remotes, branch <- remote,
  taken <- IF job.phase = "queued" THEN <<>> ELSE job.seen, stage <- Stage

BranchSpec == Branch!Spec

(* A reply that says "pushed changes" is true: what the agent made of the  *)
(* paths it changed is on the pushed branch, also when its commits were    *)
(* replayed on what others had pushed (edit_workflow.py:185-215).          *)
PushedMeansLanded ==
  job.reply = "pushed" =>
    /\ job.landed # NoBranch
    /\ \A p \in job.work :
         job.made[p] # Files(job.seen)[p] => Files(job.landed)[p] = job.made[p]

(* A reply that says "no changes" leaves nothing behind that the agent     *)
(* made: HEAD is the commit that was checked out or one before it, and what*)
(* the agent changed is as it was or as HEAD has it.  That the agent       *)
(* dropped commits is not noticed (edit_workflow.py:150-165).              *)
NoChangesMeansNone ==
  job.reply = "no changes" =>
    /\ IsPrefix(repo.head, job.seen)
    /\ \A p \in job.work : repo.tree[p] \in {job.snapshot[p], Files(repo.head)[p]}

(* The workflow's own commit holds only paths the agent touched, whatever  *)
(* else the user had changed without staging it (git_ops.py:87-129).      *)
CommitsOnlyTouched ==
  \A c \in ToSet(repo.head) : c.by = "dotbot" => DOMAIN c.writes \subseteq job.touched

(* What the user had changed and the agent did not touch stays as it was,  *)
(* whichever push or rebase comes after, or is in the commit that an       *)
(* unfinished rebase can be aborted to.                                    *)
UserChangesStay ==
  \A p \in job.dirty \ job.work :
    \/ repo.tree[p] = job.snapshot[p]
    \/ repo.rebasing /\ Files(repo.orig)[p] = job.snapshot[p]
=============================================================================
