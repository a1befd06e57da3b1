---------------------------- MODULE SharedBranch ----------------------------
(***************************************************************************)
(* What act mode promises to those who share the branch of a pull request: *)
(* a command takes the branch as it finds it and moves it at most once.    *)
(* It only adds to the branch, unless the branch is still exactly what it  *)
(* took, and of others' commits it brings back none but those it took.     *)
(***************************************************************************)
EXTENDS Sequences, SequencesExt

CONSTANTS Others,    \* the commits others may make
          Starts,    \* what the branch may be when the command is given
          NoBranch

VARIABLES
  branch,   \* the commits of the branch, or NoBranch
  taken,    \* the commits the command works on
  stage     \* of the command

Commits(b) == IF b = NoBranch THEN {} ELSE ToSet(b)

Init ==
  /\ branch \in Starts
  /\ taken = <<>>
  /\ stage = "given"

(* Others push and force-push as they like. *)
Share ==
  /\ branch # NoBranch
  /\ branch' \in Seq(Others)
  /\ UNCHANGED <<taken, stage>>

Take ==
  /\ stage = "given" /\ stage' = "working"
  /\ branch # NoBranch => taken' = branch
  /\ UNCHANGED branch

Land ==
  /\ stage = "working" /\ stage' = "landed"
  /\ branch = NoBranch \/ branch = taken \/ IsPrefix(branch, branch')
  /\ Commits(branch') \cap Others \subseteq Commits(branch) \cup ToSet(taken)
  /\ UNCHANGED taken

End ==
  /\ stage = "working" /\ stage' = "ended"
  /\ UNCHANGED <<branch, taken>>

Next == Share \/ Take \/ Land \/ End

Spec == Init /\ [][Next]_<<branch, taken, stage>>
=============================================================================
