----------------------------- MODULE ThreadStore -----------------------------
(***************************************************************************)
(* What the threads of a pull request promise to the turns that resume     *)
(* them: a thread is of one model, what is stored of it is a finished      *)
(* conversation and continues what was stored before, and a thread whose   *)
(* file was torn is never taken up again.                                  *)
(***************************************************************************)
EXTENDS Sequences, SequencesExt

CONSTANTS Models, Ids,
          Finished   \* the conversations that end a turn

VARIABLES
  threads,   \* [Models \X Ids -> what is stored, <<>> for nothing]
  lost       \* the threads whose files are torn

Threads == Models \X Ids

Init ==
  /\ threads = [f \in Threads |-> <<>>]
  /\ lost = {}

(* No other model has a thread of that identifier. *)
Sole(f) == \A g \in Threads : g[2] = f[2] /\ g # f => threads[g] = <<>> /\ g \notin lost

Save(f) ==
  /\ threads'[f] # threads[f]
  /\ threads'[f] \in Finished /\ IsPrefix(threads[f], threads'[f])
  /\ threads' = [threads EXCEPT ![f] = threads'[f]]
  /\ f \notin lost /\ Sole(f)
  /\ UNCHANGED lost

Lose(f) ==
  /\ f \in lost' \ lost /\ Sole(f)
  /\ threads' = [threads EXCEPT ![f] = <<>>]
  /\ lost' = lost \cup {f}

Next == \E f \in Threads : Save(f) \/ Lose(f)

Spec == Init /\ [][Next]_<<threads, lost>>
=============================================================================
