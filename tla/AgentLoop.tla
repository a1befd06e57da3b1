------------------------------ MODULE AgentLoop ------------------------------
(***************************************************************************)
(* The agent runtime over OpenRouter: a turn of a conversation, its tool   *)
(* calls and its thread on disk.                                           *)
(*                                                                         *)
(* A turn starts a thread or resumes the latest one, and sends the whole   *)
(* conversation until the model answers without tool calls, or until the   *)
(* cap on iterations; a structured turn asks once more, for JSON.  Then the*)
(* conversation is written over the thread's file.  The calls of an answer *)
(* arrive as deltas: first the call's identifier, then its arguments in    *)
(* pieces, those of several calls interleaved.                             *)
(*                                                                         *)
(* Of a message only what makes a conversation valid is kept: its role,    *)
(* the calls of an assistant, the call a tool message answers.  A call is  *)
(* its index in the answer, and its arguments are the pieces received.     *)
(*                                                                         *)
(* Code: cli/clients/openrouter_client.py, openrouter_stream.py,           *)
(* openrouter_tools.py, openrouter_thread_store.py.                        *)
(***************************************************************************)
EXTENDS Integers, Sequences, FiniteSets, SequencesExt

CONSTANTS
  Models,         \* models that have turns
  Extends,        \* <<m, n>>: file names of n begin like those of m
  MaxIterations,  \* answers with tool calls in a turn (30 in the code)
  MaxCalls,       \* bound: calls in one answer
  Pieces,         \* pieces in which the arguments of a call are sent
  Faults,         \* what may go wrong: see FaultKinds
  Streams,        \* the values stream_enabled may have
  MaxTurns        \* bound: turns

(* lost: a malformed frame, which is skipped.  cut: a chunk ends inside a  *)
(* character of the piece.  end: the stream ends early.  error: a request  *)
(* or a tool raises.  disk: the thread's file cannot be written.  kill: the*)
(* process dies.                                                           *)
FaultKinds == {"lost", "cut", "end", "error", "disk", "kill"}

ASSUME AgentAssumption ==
  /\ Models # {}
  /\ Extends \subseteq Models \X Models
  /\ MaxIterations \in Nat \ {0}
  /\ MaxCalls \in Nat
  /\ Pieces \in Nat \ {0}
  /\ Faults \subseteq FaultKinds
  /\ Streams \subseteq BOOLEAN
  /\ MaxTurns \in Nat \ {0}

VARIABLES
  files,  \* <<model, thread id>> -> the file of that name
  turn,   \* the running turn
  turns   \* turns started

vars == <<files, turn, turns>>

Call == 1..MaxCalls

(* prompt, limit and schema are the three messages of the user.            *)
Roles == {"system", "prompt", "limit", "schema", "assistant", "tool"}

(* calls are those of an assistant, in the order of their indices; id is   *)
(* the call that a tool message answers, else 0.                           *)
Message == [role : Roles, calls : SUBSET Call, id : 0..MaxCalls]

Said(role) == [role |-> role, calls |-> {}, id |-> 0]
AssistantMessage(calls) == [role |-> "assistant", calls |-> calls, id |-> 0]
ToolMessage(c) == [role |-> "tool", calls |-> {}, id |-> c]

(* A file is named for its model and its thread.  stamp: the turn that     *)
(* wrote it.                                                               *)
Names == Models \X (1..MaxTurns)
File ==
  [state : {"absent", "ok", "broken"}, log : Seq(Message), stamp : 0..MaxTurns]
NoFile == [state |-> "absent", log |-> <<>>, stamp |-> 0]

(* A piece of the arguments of a call, and whether it came as it was sent. *)
Piece == [call : Call, n : 1..Pieces, intact : BOOLEAN]
Slot == [id : BOOLEAN, args : Seq(Piece)]
NoSlot == [id |-> FALSE, args |-> <<>>]

Phases == {"idle", "request", "stream", "tools", "schema", "save"}

(* name: the file of the turn.  final: the cap on iterations is reached.   *)
(* sent: how many calls the answer has; frames: how many of its frames each*)
(* call has sent; slots: StreamingResult.tool_calls; pending: calls still  *)
(* to execute.  requests, whole (no fault so far) and executed (the calls  *)
(* of the answer that a tool was run for) are history.                     *)
TurnState ==
  [phase : Phases, name : Names, structured : BOOLEAN, stream : BOOLEAN,
   log : Seq(Message), iter : 0..MaxIterations, final : BOOLEAN,
   sent : 0..MaxCalls, frames : [Call -> 0..(Pieces + 1)], slots : [Call -> Slot],
   pending : SUBSET Call, requests : Nat, whole : BOOLEAN,
   executed : Seq([call : Call, args : Seq(Piece)])]

Idle ==
  [phase |-> "idle", name |-> CHOOSE f \in Names : TRUE,
   structured |-> FALSE, stream |-> FALSE, log |-> <<>>, iter |-> 0, final |-> FALSE,
   sent |-> 0, frames |-> [c \in Call |-> 0], slots |-> [c \in Call |-> NoSlot],
   pending |-> {}, requests |-> 0, whole |-> TRUE, executed |-> <<>>]

TypeOK ==
  /\ files \in [Names -> File]
  /\ turn \in TurnState
  /\ turns \in 0..MaxTurns

Init ==
  /\ files = [f \in Names |-> NoFile]
  /\ turn = Idle
  /\ turns = 0

-----------------------------------------------------------------------------
(* The start of a turn.                                                    *)

Readable == {f \in Names : files[f].state = "ok"}

(* The files latest_thread_id looks at: those whose name begins with the   *)
(* prefix of the model.                                                    *)
Candidates(m) == {f \in Readable : f[1] = m \/ <<m, f[1]>> \in Extends}

(* The latest of them.                                                     *)
Latest(m) ==
  CHOOSE f \in Candidates(m) : \A g \in Candidates(m) : files[g].stamp <= files[f].stamp

(* Mutant: the stored messages are not taken over.                         *)
ConversationsAfresh(m, resume) ==
  IF resume /\ Candidates(m) # {}
  THEN {[id |-> f[2], log |-> <<Said("system")>>] :
          f \in {f \in Readable : f[2] = Latest(m)[2]}}
  ELSE {[id |-> turns + 1, log |-> <<Said("system")>>]}

(* The latest thread is resumed, from whichever file with its id comes     *)
(* first in the directory; or a new one is begun.                          *)
Conversations(m, resume) ==
  IF resume /\ Candidates(m) # {}
  THEN {[id |-> f[2], log |-> files[f].log] :
          f \in {f \in Readable : f[2] = Latest(m)[2]}}
  ELSE {[id |-> turns + 1, log |-> <<Said("system")>>]}

StartThread(m, structured, stream, resume) ==
  /\ turn.phase = "idle"
  /\ turns < MaxTurns
  /\ turns' = turns + 1
  /\ \E t \in Conversations(m, resume) :
       turn' = [Idle EXCEPT
                  !.phase = "request", !.structured = structured, !.stream = stream,
                  !.name = <<m, t.id>>,
                  !.log = Append(t.log, Said("prompt"))]
  /\ UNCHANGED files

-----------------------------------------------------------------------------
(* A request and its answer.                                               *)

PieceOf(c, n, intact) == [call |-> c, n |-> n, intact |-> intact]
WholeCall(c) == [id |-> TRUE, args |-> [n \in 1..Pieces |-> PieceOf(c, n, TRUE)]]

(* The model answers with n calls.  Without streaming they are there at    *)
(* once.                                                                   *)
Send(n) ==
  /\ turn.phase = "request"
  /\ turn' = [turn EXCEPT
       !.phase = "stream", !.requests = @ + 1, !.sent = n, !.whole = TRUE, !.executed = <<>>,
       !.frames = [c \in Call |-> IF turn.stream \/ c > n THEN 0 ELSE Pieces + 1],
       !.slots = [c \in Call |-> IF turn.stream \/ c > n THEN NoSlot ELSE WholeCall(c)]]
  /\ UNCHANGED <<files, turns>>

(* Mutant: a piece of arguments goes to the call that was opened last.     *)
MergeIntoLast(slots, c, n, intact) ==
  LET opened == {d \in Call : slots[d].id}
      last == IF opened = {} THEN c ELSE CHOOSE d \in opened : \A e \in opened : e <= d
  IN IF n = 0 THEN [slots EXCEPT ![c].id = TRUE]
     ELSE [slots EXCEPT ![last].args = Append(@, PieceOf(c, n, intact))]

(* Frame n of call c is merged into the call's slot: 0 opens it, the others*)
(* extend its arguments.                                                   *)
MergeDelta(slots, c, n, intact) ==
  IF n = 0 THEN [slots EXCEPT ![c].id = TRUE]
  ELSE [slots EXCEPT ![c].args = Append(@, PieceOf(c, n, intact))]

(* The next frame of a call arrives.  A frame is decoded chunk by chunk, so*)
(* a character that a chunk ends in is replaced.                           *)
Receive(c, fate) ==
  /\ turn.phase = "stream"
  /\ c <= turn.sent /\ turn.frames[c] <= Pieces
  /\ turn' = [turn EXCEPT
       !.frames[c] = @ + 1,
       !.whole = @ /\ fate = "whole",
       !.slots = IF fate = "lost" THEN @
                 ELSE MergeDelta(@, c, turn.frames[c], fate = "whole")]
  /\ UNCHANGED <<files, turns>>

Complete == \A c \in Call : c <= turn.sent => turn.frames[c] = Pieces + 1

(* The calls that have an identifier.                                      *)
ToolCallsList == {c \in Call : turn.slots[c].id}

(* The turn after an answer without calls, or the last one.                *)
EndOfLoop(log) ==
  IF turn.structured
  THEN [turn EXCEPT !.phase = "schema", !.log = Append(log, Said("schema"))]
  ELSE [turn EXCEPT !.phase = "save", !.log = log]

Answered(calls) ==
  IF calls = {} \/ turn.final
  THEN EndOfLoop(Append(turn.log, AssistantMessage({})))
  ELSE [turn EXCEPT !.phase = "tools", !.pending = calls,
                    !.log = Append(@, AssistantMessage(calls))]

(* The end of the stream, after the last frame or earlier.                 *)
Answer ==
  /\ turn.phase = "stream"
  /\ Complete \/ (turn.stream /\ "end" \in Faults)
  /\ turn' = [Answered(ToolCallsList) EXCEPT !.whole = @ /\ Complete]
  /\ UNCHANGED <<files, turns>>

-----------------------------------------------------------------------------
(* Tools.                                                                  *)

(* Whether a tool does anything with the arguments: all the pieces are a   *)
(* JSON object, and a part without its first or last piece is not; without *)
(* one in between it may be.  Nothing at all counts as an empty object,    *)
(* which every tool refuses.                                               *)
Parses(args) ==
  IF args = <<>> \/ args[1].n # 1 \/ Last(args).n # Pieces THEN {FALSE}
  ELSE IF Len(args) = Pieces THEN {TRUE}
  ELSE BOOLEAN

(* Mutant: one iteration too many.                                         *)
NextIterationLate(t) ==
  IF t.iter = MaxIterations
  THEN [t EXCEPT !.phase = "request", !.iter = @ + 1, !.final = TRUE,
                 !.log = Append(@, Said("limit"))]
  ELSE [t EXCEPT !.phase = "request", !.iter = @ + 1]

(* After the last tool of an answer: the next request, without tools once  *)
(* the cap is reached.                                                     *)
NextIteration(t) ==
  IF t.iter + 1 = MaxIterations
  THEN [t EXCEPT !.phase = "request", !.iter = @ + 1, !.final = TRUE,
                 !.log = Append(@, Said("limit"))]
  ELSE [t EXCEPT !.phase = "request", !.iter = @ + 1]

(* The call with the smallest index.                                       *)
FirstPending == CHOOSE c \in turn.pending : \A d \in turn.pending : c <= d

(* Mutant: arguments that are not valid are passed over.                   *)
ExecuteToolIfValid ==
  /\ turn.phase = "tools"
  /\ LET c == FirstPending
         args == turn.slots[c].args
     IN \E parsed \in Parses(args) :
          LET t == IF parsed
                   THEN [turn EXCEPT
                           !.pending = @ \ {c}, !.log = Append(@, ToolMessage(c)),
                           !.executed = Append(@, [call |-> c, args |-> args])]
                   ELSE [turn EXCEPT !.pending = @ \ {c}]
          IN turn' = IF t.pending = {} THEN NextIteration(t) ELSE t
  /\ UNCHANGED <<files, turns>>

(* A tool runs, or says that its arguments are not valid.                  *)
ExecuteTool ==
  /\ turn.phase = "tools"
  /\ LET c == FirstPending
         args == turn.slots[c].args
     IN \E parsed \in Parses(args) :
          LET t == [turn EXCEPT
                      !.pending = @ \ {c}, !.log = Append(@, ToolMessage(c)),
                      !.executed = IF parsed THEN Append(@, [call |-> c, args |-> args]) ELSE @]
          IN turn' = IF t.pending = {} THEN NextIteration(t) ELSE t
  /\ UNCHANGED <<files, turns>>

-----------------------------------------------------------------------------
(* The end of a turn.                                                      *)

(* The schema-enforced request.  Its content may be blank.                 *)
SchemaTurn ==
  /\ turn.phase = "schema"
  /\ \E log \in {turn.log, Append(turn.log, AssistantMessage({}))} :
       turn' = [turn EXCEPT !.phase = "save", !.requests = @ + 1, !.log = log]
  /\ UNCHANGED <<files, turns>>

Written == [state |-> "ok", log |-> turn.log, stamp |-> turns]
Torn == [state |-> "broken", log |-> <<>>, stamp |-> turns]

(* Mutant: the thread is saved whatever happens to the turn.               *)
FailSaved ==
  /\ "error" \in Faults
  /\ turn.phase \in {"request", "stream", "tools", "schema"}
  /\ turn' = Idle
  /\ files' = [files EXCEPT ![turn.name] = Written]
  /\ UNCHANGED turns

(* An exception of a request or of a tool (a command that prints what is   *)
(* not UTF-8) ends the turn; nothing is saved.                             *)
Fail ==
  /\ "error" \in Faults
  /\ turn.phase \in {"request", "stream", "tools", "schema"}
  /\ turn' = Idle
  /\ UNCHANGED <<files, turns>>

(* The file is written in place.  When that fails there is a warning, and  *)
(* the file is as it was or torn.                                          *)
SaveThread ==
  /\ turn.phase = "save"
  /\ \E f \in IF "disk" \in Faults THEN {Written, files[turn.name], Torn} ELSE {Written} :
       files' = [files EXCEPT ![turn.name] = f]
  /\ turn' = Idle
  /\ UNCHANGED turns

Kill ==
  /\ "kill" \in Faults
  /\ turn.phase # "idle"
  /\ \E f \in IF turn.phase = "save" THEN {Written, files[turn.name], Torn}
              ELSE {files[turn.name]} :
       files' = [files EXCEPT ![turn.name] = f]
  /\ turn' = Idle
  /\ UNCHANGED turns

Next ==
  \/ \E m \in Models : \E structured, resume \in BOOLEAN : \E stream \in Streams :
       StartThread(m, structured, stream, resume)
  \/ \E n \in 0..MaxCalls : Send(n)
  \/ \E c \in Call : \E fate \in {"whole"} \cup (Faults \cap {"lost", "cut"}) :
       Receive(c, fate)
  \/ Answer \/ ExecuteTool \/ SchemaTurn
  \/ SaveThread \/ Fail \/ Kill

Spec == Init /\ [][Next]_vars

-----------------------------------------------------------------------------
(* Properties.                                                             *)

(* A conversation OpenRouter accepts: the calls of an assistant message are*)
(* answered by the messages that follow it, one each and in order, and no  *)
(* other message answers a call.                                           *)
Rank(c, calls) == Cardinality({d \in calls : d <= c})

AnswersCalls(log, k) ==
  \A c \in log[k].calls :
    LET n == k + Rank(c, log[k].calls)
    IN n \in DOMAIN log /\ log[n] = ToolMessage(c)

AnswersACall(log, k) ==
  log[k].role = "tool" =>
    \E j \in 1..(k - 1) : k - j <= Cardinality(log[j].calls)

WellFormed(log) ==
  /\ log # <<>>
  /\ \A k \in DOMAIN log :
       /\ log[k].role = "system" <=> k = 1
       /\ AnswersCalls(log, k) /\ AnswersACall(log, k)

(* Every request sends such a conversation, whatever frames were lost and  *)
(* however earlier turns of the thread ended (openrouter_client.py:173-231)*)
RequestsWellFormed ==
  turn.phase \in {"request", "stream", "schema"} => WellFormed(turn.log)

(* A thread on disk is a conversation at the end of a turn: no call and no *)
(* prompt is unanswered, but for a schema prompt whose answer was blank.   *)
StoredThreadsFinished ==
  \A f \in Readable :
    /\ WellFormed(files[f].log)
    /\ LET end == Last(files[f].log)
       IN end.role \in {"assistant", "schema"} /\ end.calls = {}

(* What a tool is run for is what the model sent: its own arguments, in    *)
(* order and unaltered, each call once and by index; and of an answer that *)
(* arrived whole every call is run (openrouter_stream.py:318-355).         *)
ExecutedAsSent ==
  /\ \A n \in DOMAIN turn.executed :
       LET e == turn.executed[n]
       IN /\ e.call <= turn.sent
          /\ e.args = WholeCall(e.call).args
          /\ n > 1 => turn.executed[n - 1].call < e.call
  /\ turn.phase = "tools" /\ turn.whole =>
       {turn.executed[n].call : n \in DOMAIN turn.executed} \cup turn.pending = 1..turn.sent

(* A turn makes at most two requests more than it has iterations           *)
(* (openrouter_client.py:199-222).                                         *)
RequestsBounded == turn.requests <= MaxIterations + 2

(* A thread that is written again keeps its history: what was stored is a  *)
(* beginning of what is stored next (openrouter_client.py:365-375).        *)
HistoryKept ==
  [][\A f \in Names :
       files[f].state = "ok" /\ files'[f].state = "ok" =>
         IsPrefix(files[f].log, files'[f].log)]_files

(* Turns implement ThreadStore: what is on disk is of one model, finished, *)
(* never shortened, and never taken up again once its file is torn.        *)
FinishedLogs ==
  {log \in Seq(Message) : /\ WellFormed(log)
                          /\ Last(log).role \in {"assistant", "schema"}
                          /\ Last(log).calls = {}}

Store == INSTANCE ThreadStore WITH
  Ids <- 1..MaxTurns, Finished <- FinishedLogs,
  threads <- [f \in Names |-> files[f].log],
  lost <- {f \in Names : files[f].state = "broken"}

StoreSpec == Store!Spec
=============================================================================
