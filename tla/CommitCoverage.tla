--------------------------- MODULE CommitCoverage ---------------------------
(***************************************************************************)
(* What review mode promises about the commits of a pull request, whatever *)
(* caches, threads and jobs it uses to get there: findings are posted, and *)
(* with them the commits are noted that a review of an older checkout left *)
(* out; a model's summary is published for a head only when every commit of*)
(* that head is one of either; and a model withdraws only its own summaries.*)
(***************************************************************************)
CONSTANTS Commits, Ancestors, Models

VARIABLES
  posted,     \* the commits each model has posted its findings on
  unread,     \* the commits each model left out for want of a newer checkout
  published   \* pairs <<model, head>> of the published summaries

Init ==
  /\ posted = [m \in Models |-> {}]
  /\ unread = [m \in Models |-> {}]
  /\ published = {}

Post(m, S, U) ==
  /\ posted' = [posted EXCEPT ![m] = @ \cup S]
  /\ unread' = [unread EXCEPT ![m] = @ \cup U]
  /\ UNCHANGED published

Publish(m, c) ==
  /\ Ancestors[c] \subseteq posted[m] \cup unread[m]
  /\ published' = published \cup {<<m, c>>}
  /\ UNCHANGED <<posted, unread>>

Withdraw(m, S) ==
  /\ published' = published \ {<<m, c>> : c \in S}
  /\ UNCHANGED <<posted, unread>>

Next ==
  \/ \E m \in Models, S, U \in SUBSET Commits : Post(m, S, U) \/ Withdraw(m, S)
  \/ \E m \in Models, c \in Commits : Publish(m, c)

Spec == Init /\ [][Next]_<<posted, unread, published>>
=============================================================================
