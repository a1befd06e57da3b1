--------------------------- MODULE AgentLoopProofs ---------------------------
(***************************************************************************)
(* Proofs about AgentLoop, for every set of models, cap on iterations,     *)
(* number of calls and pieces, and every kind of fault.                    *)
(***************************************************************************)
EXTENDS AgentLoop, FiniteSetTheorems, SequenceTheorems, WellFoundedInduction, TLAPS

-----------------------------------------------------------------------------
(* Types and counters.                                                     *)

(* How many requests have been made, from the place in the turn.           *)
Counters ==
  /\ turn.phase = "idle" => turn.requests = 0
  /\ turn.phase \in {"request", "stream", "tools"} =>
       (turn.final <=> turn.iter = MaxIterations)
  /\ turn.phase = "request" => turn.requests = turn.iter
  /\ turn.phase = "stream" => turn.requests = turn.iter + 1
  /\ turn.phase = "tools" =>
       /\ turn.requests = turn.iter + 1
       /\ ~turn.final /\ turn.pending # {}
  /\ turn.phase = "schema" => turn.requests <= MaxIterations + 1
  /\ turn.phase = "save" => turn.requests <= MaxIterations + 2

LEMMA IdleType == Idle \in TurnState /\ Idle.phase = "idle" /\ Idle.requests = 0
<1>1. Names # {}
  <2>1. PICK m \in Models : TRUE
    BY AgentAssumption
  <2>2. <<m, 1>> \in Names
    BY AgentAssumption DEF Names
  <2> QED
    BY <2>2
<1>2. PICK f \in Names : f = CHOOSE g \in Names : TRUE
  BY <1>1
<1>3. <<>> \in Seq(Message) /\ <<>> \in Seq(Piece)
      /\ <<>> \in Seq([call : Call, args : Seq(Piece)])
  OBVIOUS
<1> QED
  BY <1>2, <1>3, AgentAssumption DEF Idle, TurnState, Phases, NoSlot, Slot, Call

LEMMA MessageTypes ==
  /\ \A role \in Roles : Said(role) \in Message
  /\ \A calls \in SUBSET Call : AssistantMessage(calls) \in Message
  /\ \A c \in Call : ToolMessage(c) \in Message
BY AgentAssumption DEF Said, AssistantMessage, ToolMessage, Message, Roles, Call

LEMMA FileTypes ==
  ASSUME TypeOK, turn.phase # "idle", turns \in 0..MaxTurns
  PROVE  Written \in File /\ Torn \in File
BY AgentAssumption DEF TypeOK, TurnState, Written, Torn, File

(* A call without a frame missing has all its pieces.                      *)
LEMMA WholeCallType ==
  ASSUME NEW c \in Call
  PROVE  WholeCall(c) \in Slot
<1>1. \A n \in 1..Pieces : PieceOf(c, n, TRUE) \in Piece
  BY DEF PieceOf, Piece
<1>2. [n \in 1..Pieces |-> PieceOf(c, n, TRUE)] \in Seq(Piece)
  <2>1. [n \in 1..Pieces |-> PieceOf(c, n, TRUE)] \in [1..Pieces -> Piece]
    BY <1>1
  <2> QED
    BY <2>1, AgentAssumption, SeqDef
<1> QED
  BY <1>2 DEF WholeCall, Slot

LEMMA MergeType ==
  ASSUME NEW slots \in [Call -> Slot], NEW c \in Call, NEW n \in 0..Pieces,
         NEW intact \in BOOLEAN
  PROVE  MergeDelta(slots, c, n, intact) \in [Call -> Slot]
<1>1. slots[c] \in Slot /\ slots[c].args \in Seq(Piece)
  BY DEF Slot
<1>2. CASE n = 0
  BY <1>1, <1>2 DEF MergeDelta, Slot
<1>3. CASE n # 0
  <2>1. PieceOf(c, n, intact) \in Piece
    BY <1>3, AgentAssumption DEF PieceOf, Piece
  <2>2. Append(slots[c].args, PieceOf(c, n, intact)) \in Seq(Piece)
    BY <1>1, <2>1
  <2> QED
    BY <1>1, <1>3, <2>2 DEF MergeDelta, Slot
<1> QED
  BY <1>2, <1>3

(* What is resumed is a conversation of a turn that has been.              *)
LEMMA ConversationTypes ==
  ASSUME TypeOK, turns < MaxTurns, NEW m \in Models, NEW resume \in BOOLEAN,
         NEW t \in Conversations(m, resume)
  PROVE  t.id \in 1..MaxTurns /\ t.log \in Seq(Message)
<1>1. CASE resume /\ Candidates(m) # {}
  <2>1. PICK f \in Readable : t = [id |-> f[2], log |-> files[f].log]
    BY <1>1 DEF Conversations
  <2>2. f \in Names /\ files[f] \in File
    BY DEF Readable, TypeOK
  <2> QED
    BY <2>1, <2>2 DEF Names, File
<1>2. CASE ~(resume /\ Candidates(m) # {})
  <2>1. t = [id |-> turns + 1, log |-> <<Said("system")>>]
    BY <1>2 DEF Conversations
  <2>2. Said("system") \in Message
    BY MessageTypes DEF Roles
  <2> QED
    BY <2>1, <2>2, AgentAssumption DEF TypeOK
<1> QED
  BY <1>1, <1>2

LEMMA EndOfLoopType ==
  ASSUME TypeOK, NEW log \in Seq(Message)
  PROVE  EndOfLoop(log) \in TurnState
<1>1. Append(log, Said("schema")) \in Seq(Message)
  BY MessageTypes DEF Roles
<1> QED
  BY <1>1 DEF EndOfLoop, TypeOK, TurnState, Phases

LEMMA AnsweredType ==
  ASSUME TypeOK, NEW calls \in SUBSET Call
  PROVE  Answered(calls) \in TurnState
<1>1. Append(turn.log, AssistantMessage({})) \in Seq(Message)
      /\ Append(turn.log, AssistantMessage(calls)) \in Seq(Message)
  BY MessageTypes DEF TypeOK, TurnState
<1> QED
  BY <1>1, EndOfLoopType DEF Answered, TypeOK, TurnState, Phases

(* A set of numbers has a least element.                                   *)
LEMMA Least ==
  ASSUME NEW T \in SUBSET Nat, T # {}
  PROVE  \E c \in T : \A d \in T : c <= d
<1> DEFINE U == {0..c : c \in T}
<1>1. U \subseteq FiniteSubsetsOf(Nat) /\ U # {}
  <2>1. \A c \in T : IsFiniteSet(0..c) /\ 0..c \subseteq Nat
    BY FS_Interval
  <2> QED
    BY <2>1 DEF FiniteSubsetsOf
<1>2. PICK x \in U : \A y \in U : ~(<<y, x>> \in StrictSubsetOrdering(Nat))
  <2> HIDE DEF U
  <2> QED
    BY <1>1, FS_StrictSubsetOrderingWellFounded, WFMin
<1>3. PICK c \in T : x = 0..c
  OBVIOUS
<1>4. ASSUME NEW d \in T
      PROVE  c <= d
  <2>1. ~(<<0..d, 0..c>> \in StrictSubsetOrdering(Nat))
    BY <1>2, <1>3
  <2>2. ~(0..d \subseteq 0..c /\ 0..d # 0..c)
    BY <2>1 DEF StrictSubsetOrdering
  <2>3. ASSUME d < c
        PROVE  0..d \subseteq 0..c /\ c \in 0..c /\ c \notin 0..d
    BY <2>3
  <2> QED
    BY <2>2, <2>3
<1> QED
  BY <1>4

(* A set of numbers with a bound has a greatest element.                   *)
LEMMA Greatest ==
  ASSUME NEW n \in Nat, NEW T \in SUBSET (0..n), T # {}
  PROVE  \E c \in T : \A d \in T : d <= c
<1> DEFINE U == {n - c : c \in T}
<1>1. U \in SUBSET Nat /\ U # {}
  <2>1. \A c \in T : n - c \in Nat
    OBVIOUS
  <2> QED
    BY <2>1
<1>2. PICK u \in U : \A v \in U : u <= v
  <2> HIDE DEF U
  <2> QED
    BY <1>1, Least
<1>3. PICK c \in T : u = n - c
  OBVIOUS
<1>4. \A d \in T : n - c <= n - d
  BY <1>2, <1>3
<1> QED
  BY <1>4

LEMMA FirstOfPending ==
  ASSUME TypeOK, turn.pending # {}
  PROVE  /\ FirstPending \in turn.pending
         /\ \A d \in turn.pending : FirstPending <= d
<1>1. turn.pending \subseteq Nat
  BY AgentAssumption DEF TypeOK, TurnState, Call
<1> QED
  BY <1>1, Least DEF FirstPending

-----------------------------------------------------------------------------
(* Every step keeps the types and the counters.                            *)

LEMMA InitTypes == Init => TypeOK /\ Counters
<1> SUFFICES ASSUME Init PROVE TypeOK /\ Counters
  OBVIOUS
<1>1. NoFile \in File
  BY AgentAssumption DEF NoFile, File
<1> QED
  BY <1>1, IdleType, AgentAssumption DEF Init, TypeOK, Counters

LEMMA StartTypes ==
  ASSUME TypeOK, NEW m \in Models, NEW structured \in BOOLEAN, NEW stream \in Streams,
         NEW resume \in BOOLEAN, StartThread(m, structured, stream, resume)
  PROVE  TypeOK' /\ Counters'
<1>1. turns < MaxTurns /\ turns' = turns + 1 /\ files' = files
  BY DEF StartThread
<1>2. PICK t \in Conversations(m, resume) :
        turn' = [Idle EXCEPT
                   !.phase = "request", !.structured = structured, !.stream = stream,
                   !.name = <<m, t.id>>,
                   !.log = Append(t.log, Said("prompt"))]
  BY DEF StartThread
<1>3. t.id \in 1..MaxTurns /\ t.log \in Seq(Message)
  BY <1>1, ConversationTypes
<1>4. Append(t.log, Said("prompt")) \in Seq(Message)
  BY <1>3, MessageTypes DEF Roles
<1>5. <<m, t.id>> \in Names /\ stream \in BOOLEAN
  BY <1>3, AgentAssumption DEF Names
<1>6. turn' \in TurnState
  BY <1>2, <1>4, <1>5, IdleType DEF TurnState, Phases
<1>7. turn'.phase = "request" /\ turn'.requests = 0 /\ turn'.iter = 0 /\ turn'.final = FALSE
  BY <1>2 DEF Idle
<1>8. TypeOK'
  BY <1>1, <1>6, AgentAssumption DEF TypeOK
<1>9. Counters'
  BY <1>7, AgentAssumption DEF Counters
<1> QED
  BY <1>8, <1>9

LEMMA SendTypes ==
  ASSUME TypeOK, Counters, NEW n \in 0..MaxCalls, Send(n)
  PROVE  TypeOK' /\ Counters'
<1>1. [c \in Call |-> IF turn.stream \/ c > n THEN 0 ELSE Pieces + 1]
        \in [Call -> 0..(Pieces + 1)]
  BY AgentAssumption
<1>2. [c \in Call |-> IF turn.stream \/ c > n THEN NoSlot ELSE WholeCall(c)]
        \in [Call -> Slot]
  BY WholeCallType DEF NoSlot, Slot
<1>3. <<>> \in Seq([call : Call, args : Seq(Piece)])
  OBVIOUS
<1>4. turn.requests + 1 \in Nat
  BY DEF TypeOK, TurnState
<1>5. turn' \in TurnState
  BY <1>1, <1>2, <1>3, <1>4 DEF Send, TypeOK, TurnState, Phases
<1>6. turn'.phase = "stream" /\ turn'.requests = turn.requests + 1
      /\ turn'.iter = turn.iter /\ turn'.final = turn.final
  BY DEF Send, TypeOK, TurnState
<1> QED
  BY <1>5, <1>6 DEF Send, TypeOK, Counters

LEMMA ReceiveTypes ==
  ASSUME TypeOK, Counters, NEW c \in Call,
         NEW fate \in {"whole"} \cup (Faults \cap {"lost", "cut"}), Receive(c, fate)
  PROVE  TypeOK' /\ Counters'
<1>1. turn.frames[c] \in 0..Pieces /\ turn.frames \in [Call -> 0..(Pieces + 1)]
  BY AgentAssumption DEF TypeOK, TurnState, Receive
<1>2. [turn.frames EXCEPT ![c] = @ + 1] \in [Call -> 0..(Pieces + 1)]
  BY <1>1, AgentAssumption
<1>3. MergeDelta(turn.slots, c, turn.frames[c], fate = "whole") \in [Call -> Slot]
  BY <1>1, MergeType DEF TypeOK, TurnState
<1>4. turn' \in TurnState
  BY <1>2, <1>3 DEF Receive, TypeOK, TurnState, Phases
<1>5. turn'.phase = turn.phase /\ turn'.requests = turn.requests
      /\ turn'.iter = turn.iter /\ turn'.final = turn.final
  BY DEF Receive, TypeOK, TurnState
<1> QED
  BY <1>4, <1>5 DEF Receive, TypeOK, Counters

LEMMA AnswerTypes ==
  ASSUME TypeOK, Counters, Answer
  PROVE  TypeOK' /\ Counters'
<1> DEFINE calls == ToolCallsList
           t == Answered(calls)
<1>1. calls \in SUBSET Call
  BY DEF ToolCallsList
<1>2. t \in TurnState
  BY <1>1, AnsweredType
<1>3. turn' = [t EXCEPT !.whole = t.whole /\ Complete]
  BY DEF Answer
<1>4. turn' \in TurnState
  BY <1>2, <1>3 DEF TurnState
<1>5. turn'.phase = t.phase /\ turn'.requests = t.requests /\ turn'.iter = t.iter
      /\ turn'.final = t.final /\ turn'.pending = t.pending
  BY <1>2, <1>3 DEF TurnState
<1>6. turn.phase = "stream" /\ UNCHANGED <<files, turns>>
  BY DEF Answer
<1>7. turn.requests = turn.iter + 1 /\ turn.iter \in 0..MaxIterations
      /\ (turn.final <=> turn.iter = MaxIterations)
  BY <1>6 DEF Counters, TypeOK, TurnState
<1>8. CASE calls = {} \/ turn.final
  <2>1. t.phase \in {"schema", "save"} /\ t.requests = turn.requests
    BY <1>8 DEF Answered, EndOfLoop, TypeOK, TurnState
  <2> QED
    BY <1>4, <1>5, <1>6, <1>7, <2>1, AgentAssumption DEF TypeOK, Counters
<1>9. CASE calls # {} /\ ~turn.final
  <2>1. t.phase = "tools" /\ t.requests = turn.requests /\ t.iter = turn.iter
        /\ t.final = turn.final /\ t.pending = calls
    BY <1>9 DEF Answered, TypeOK, TurnState
  <2> QED
    BY <1>4, <1>5, <1>6, <1>7, <1>9, <2>1 DEF TypeOK, Counters
<1> QED
  BY <1>8, <1>9

LEMMA NextIterationTypes ==
  ASSUME NEW t \in TurnState, t.iter < MaxIterations
  PROVE  LET u == NextIteration(t)
         IN  /\ u \in TurnState
             /\ u.phase = "request" /\ u.requests = t.requests /\ u.iter = t.iter + 1
             /\ u.final <=> t.final \/ t.iter + 1 = MaxIterations
<1>1. Append(t.log, Said("limit")) \in Seq(Message)
  BY MessageTypes DEF TurnState, Roles
<1>2. t.iter + 1 \in 0..MaxIterations
  BY AgentAssumption DEF TurnState
<1> QED
  BY <1>1, <1>2 DEF NextIteration, TurnState, Phases

LEMMA ExecuteTypes ==
  ASSUME TypeOK, Counters, ExecuteTool
  PROVE  TypeOK' /\ Counters'
<1> DEFINE c == FirstPending
           args == turn.slots[c].args
           T(parsed) ==
             [turn EXCEPT
                !.pending = turn.pending \ {c}, !.log = Append(turn.log, ToolMessage(c)),
                !.executed = IF parsed THEN Append(turn.executed, [call |-> c, args |-> args])
                             ELSE turn.executed]
<1>1. turn.phase = "tools" /\ UNCHANGED <<files, turns>>
  BY DEF ExecuteTool
<1>2. PICK parsed \in BOOLEAN :
        turn' = IF T(parsed).pending = {} THEN NextIteration(T(parsed)) ELSE T(parsed)
  BY DEF ExecuteTool, Parses
<1>3. turn.requests = turn.iter + 1 /\ turn.iter \in 0..MaxIterations /\ ~turn.final
      /\ turn.iter < MaxIterations /\ turn.pending # {}
  BY <1>1, AgentAssumption DEF Counters, TypeOK, TurnState
<1>4. c \in Call /\ args \in Seq(Piece)
  <2>1. c \in Call
    BY <1>3, FirstOfPending DEF TypeOK, TurnState
  <2> QED
    BY <2>1 DEF TypeOK, TurnState, Slot
<1>5. Append(turn.log, ToolMessage(c)) \in Seq(Message)
      /\ Append(turn.executed, [call |-> c, args |-> args]) \in Seq([call : Call, args : Seq(Piece)])
  BY <1>4, MessageTypes DEF TypeOK, TurnState
<1>6. T(parsed) \in TurnState
  BY <1>4, <1>5 DEF TypeOK, TurnState
<1>7. T(parsed).iter = turn.iter /\ T(parsed).requests = turn.requests
      /\ T(parsed).final = turn.final /\ T(parsed).phase = "tools"
  BY <1>1 DEF TypeOK, TurnState
<1>8. CASE T(parsed).pending = {}
  <2> DEFINE t == T(parsed)
  <2> HIDE DEF T
  <2>1. turn' = NextIteration(t)
    BY <1>2, <1>8
  <2>2. turn' \in TurnState /\ turn'.phase = "request" /\ turn'.requests = turn.requests
        /\ turn'.iter = turn.iter + 1
        /\ (turn'.final <=> turn.final \/ turn.iter + 1 = MaxIterations)
    BY <1>3, <1>6, <1>7, <2>1, NextIterationTypes
  <2> QED
    BY <1>1, <1>3, <2>2 DEF TypeOK, Counters
<1>9. CASE T(parsed).pending # {}
  <2>1. turn' = T(parsed)
    BY <1>2, <1>9
  <2> HIDE DEF T
  <2> QED
    BY <1>1, <1>3, <1>6, <1>7, <1>9, <2>1 DEF TypeOK, Counters
<1> QED
  BY <1>8, <1>9

LEMMA SchemaTypes ==
  ASSUME TypeOK, Counters, SchemaTurn
  PROVE  TypeOK' /\ Counters'
<1>1. turn.phase = "schema" /\ UNCHANGED <<files, turns>>
      /\ turn.requests <= MaxIterations + 1
  BY DEF SchemaTurn, Counters
<1>2. Append(turn.log, AssistantMessage({})) \in Seq(Message)
  BY MessageTypes DEF TypeOK, TurnState
<1>3. PICK log \in Seq(Message) :
        turn' = [turn EXCEPT !.phase = "save", !.requests = turn.requests + 1, !.log = log]
  BY <1>2 DEF SchemaTurn, TypeOK, TurnState
<1>4. turn.requests + 1 \in Nat
  BY DEF TypeOK, TurnState
<1>5. turn' \in TurnState
  BY <1>3, <1>4 DEF TypeOK, TurnState, Phases
<1>6. turn'.phase = "save" /\ turn'.requests = turn.requests + 1
  BY <1>3 DEF TypeOK, TurnState
<1> QED
  BY <1>1, <1>5, <1>6, AgentAssumption DEF TypeOK, TurnState, Counters

LEMMA EndTypes ==
  ASSUME TypeOK, SaveThread \/ Fail \/ Kill
  PROVE  TypeOK' /\ Counters'
<1>1. turn' = Idle /\ turns' = turns /\ turn.phase # "idle"
  BY DEF SaveThread, Fail, Kill
<1>2. Written \in File /\ Torn \in File
  BY <1>1, FileTypes DEF TypeOK
<1>3. turn.name \in Names /\ files[turn.name] \in File
  BY DEF TypeOK, TurnState
<1>4. files' \in [Names -> File]
  <2>1. CASE files' = files
    BY <2>1 DEF TypeOK
  <2>2. CASE \E f \in {Written, files[turn.name], Torn} : files' = [files EXCEPT ![turn.name] = f]
    BY <2>2, <1>2, <1>3 DEF TypeOK
  <2>3. files' = files \/ \E f \in {Written, files[turn.name], Torn} :
          files' = [files EXCEPT ![turn.name] = f]
    BY DEF SaveThread, Fail, Kill
  <2> QED
    BY <2>1, <2>2, <2>3
<1>5. TypeOK'
  BY <1>1, <1>4, IdleType DEF TypeOK
<1>6. Counters'
  BY <1>1, IdleType DEF Counters
<1> QED
  BY <1>5, <1>6

LEMMA StepTypes ==
  ASSUME TypeOK, Counters, [Next]_vars
  PROVE  TypeOK' /\ Counters'
<1>1. CASE UNCHANGED vars
  BY <1>1 DEF vars, TypeOK, Counters
<1>2. CASE Next
  BY <1>2, StartTypes, SendTypes, ReceiveTypes, AnswerTypes, ExecuteTypes, SchemaTypes,
     EndTypes DEF Next
<1> QED
  BY <1>1, <1>2

(* The variables keep their types.                                         *)
THEOREM TypeCorrect == Spec => []TypeOK
<1>1. Init => TypeOK /\ Counters
  BY InitTypes
<1>2. TypeOK /\ Counters /\ [Next]_vars => TypeOK' /\ Counters'
  BY StepTypes
<1> QED
  BY <1>1, <1>2, PTL DEF Spec

(* A turn makes at most two requests more than it has iterations, whatever *)
(* the model calls and however often (openrouter_client.py:187-229).       *)
THEOREM RequestsCorrect == Spec => []RequestsBounded
<1>1. Init => TypeOK /\ Counters
  BY InitTypes
<1>2. TypeOK /\ Counters /\ [Next]_vars => TypeOK' /\ Counters'
  BY StepTypes
<1>3. TypeOK /\ Counters => RequestsBounded
  BY AgentAssumption DEF TypeOK, TurnState, Phases, Counters, RequestsBounded
<1> QED
  BY <1>1, <1>2, <1>3, PTL DEF Spec

-----------------------------------------------------------------------------
(* Threads on disk.                                                        *)

(* A thread's identifier is that of the turn that began it, so one model   *)
(* has it; and the running turn continues what its file holds.             *)
Ownership ==
  /\ \A f \in Names : files[f].state # "absent" => f[2] <= turns
  /\ \A f, g \in Readable : f[2] = g[2] => f = g
  /\ turn.phase # "idle" =>
       /\ turn.name[2] <= turns
       /\ \A f \in Readable : f[2] = turn.name[2] => f = turn.name
       /\ turn.name \in Readable => IsPrefix(files[turn.name].log, turn.log)

LEMMA PrefixAppend ==
  ASSUME NEW s \in Seq(Message), NEW t \in Seq(Message), NEW e \in Message,
         IsPrefix(s, t)
  PROVE  IsPrefix(s, Append(t, e))
<1>1. Len(s) <= Len(t) /\ Len(Append(t, e)) = Len(t) + 1
  BY DEF IsPrefix
<1>2. \A k \in 1..Len(t) : Append(t, e)[k] = t[k]
  OBVIOUS
<1>3. SubSeq(Append(t, e), 1, Len(s)) = SubSeq(t, 1, Len(s))
  BY <1>1, <1>2
<1> QED
  BY <1>1, <1>3 DEF IsPrefix

LEMMA PrefixSelf ==
  ASSUME NEW s \in Seq(Message)
  PROVE  IsPrefix(s, s)
BY DEF IsPrefix

(* The latest of the candidates is one of them.                            *)
LEMMA LatestIsCandidate ==
  ASSUME TypeOK, NEW m \in Models, Candidates(m) # {}
  PROVE  Latest(m) \in Candidates(m)
<1> DEFINE T == {files[f].stamp : f \in Candidates(m)}
<1>1. Candidates(m) \subseteq Names
  BY DEF Candidates, Readable
<1>2. T \in SUBSET (0..MaxTurns) /\ T # {}
  <2>1. \A f \in Candidates(m) : files[f].stamp \in 0..MaxTurns
    BY <1>1 DEF TypeOK, File
  <2> QED
    BY <2>1
<1>3. PICK s \in T : \A u \in T : u <= s
  <2> HIDE DEF T
  <2> QED
    BY <1>2, Greatest, AgentAssumption
<1>4. PICK f \in Candidates(m) : s = files[f].stamp
  OBVIOUS
<1>5. \A g \in Candidates(m) : files[g].stamp <= files[f].stamp
  BY <1>3, <1>4
<1> QED
  BY <1>5 DEF Latest

(* A turn begins with the thread its own file holds, or with a new one.    *)
LEMMA StartsWithOwn ==
  ASSUME Extends = {}, TypeOK, Ownership, turns < MaxTurns,
         NEW m \in Models, NEW resume \in BOOLEAN, NEW t \in Conversations(m, resume)
  PROVE  \/ t.id = turns + 1
         \/ <<m, t.id>> \in Readable /\ t.log = files[<<m, t.id>>].log
<1>1. CASE resume /\ Candidates(m) # {}
  <2>1. PICK f \in Readable :
          f[2] = Latest(m)[2] /\ t = [id |-> f[2], log |-> files[f].log]
    BY <1>1 DEF Conversations
  <2>2. Latest(m) \in Readable /\ Latest(m)[1] = m
    BY <1>1, LatestIsCandidate DEF Candidates
  <2>3. f = Latest(m)
    BY <2>1, <2>2 DEF Ownership
  <2>4. f = <<m, t.id>>
    BY <2>1, <2>2, <2>3 DEF Readable, Names
  <2> QED
    BY <2>1, <2>2, <2>3, <2>4 DEF Ownership
<1>2. CASE ~(resume /\ Candidates(m) # {})
  BY <1>2 DEF Conversations
<1> QED
  BY <1>1, <1>2

LEMMA StartOwned ==
  ASSUME Extends = {}, TypeOK, Ownership, NEW m \in Models, NEW structured \in BOOLEAN,
         NEW stream \in Streams, NEW resume \in BOOLEAN,
         StartThread(m, structured, stream, resume)
  PROVE  Ownership'
<1>1. turns < MaxTurns /\ turns' = turns + 1 /\ files' = files /\ turns \in Nat
  BY DEF StartThread, TypeOK
<1>2. PICK t \in Conversations(m, resume) :
        turn' = [Idle EXCEPT
                   !.phase = "request", !.structured = structured, !.stream = stream,
                   !.name = <<m, t.id>>,
                   !.log = Append(t.log, Said("prompt"))]
  BY DEF StartThread
<1>3. t.id \in 1..MaxTurns /\ t.log \in Seq(Message)
  BY <1>1, ConversationTypes
<1>4. turn'.name = <<m, t.id>> /\ turn'.log = Append(t.log, Said("prompt"))
  BY <1>2, IdleType DEF TurnState
<1>5. Readable' = Readable
  BY <1>1 DEF Readable
<1>6. \A f \in Readable : f[2] <= turns /\ f \in Names
  BY DEF Ownership, Readable
<1>7. /\ \A f \in Names : files'[f].state # "absent" => f[2] <= turns'
      /\ \A f, g \in Readable' : f[2] = g[2] => f = g
  BY <1>1, <1>5 DEF Ownership, Names
<1>8. CASE t.id = turns + 1
  <2>1. \A f \in Readable : f[2] # t.id
    BY <1>1, <1>6, <1>8 DEF Names
  <2>2. <<m, t.id>> \notin Readable
    BY <2>1
  <2> QED
    BY <1>1, <1>4, <1>5, <1>7, <1>8, <2>1, <2>2 DEF Ownership
<1>9. CASE <<m, t.id>> \in Readable /\ t.log = files[<<m, t.id>>].log
  <2>1. t.id <= turns
    BY <1>6, <1>9
  <2>2. \A f \in Readable : f[2] = t.id => f = <<m, t.id>>
    BY <1>9 DEF Ownership
  <2>3. IsPrefix(t.log, Append(t.log, Said("prompt")))
    BY <1>3, PrefixAppend, PrefixSelf, MessageTypes DEF Roles
  <2> QED
    BY <1>1, <1>3, <1>4, <1>5, <1>7, <1>9, <2>1, <2>2, <2>3 DEF Ownership
<1> QED
  BY <1>1, <1>8, <1>9, StartsWithOwn

(* Two conversations of which the second is the first with messages added. *)
Extended(log, longer) ==
  /\ longer \in Seq(Message)
  /\ \A s \in Seq(Message) : IsPrefix(s, log) => IsPrefix(s, longer)

LEMMA ExtendedByOne ==
  ASSUME NEW log \in Seq(Message), NEW e \in Message
  PROVE  Extended(log, log) /\ Extended(log, Append(log, e))
BY PrefixAppend DEF Extended

LEMMA ExtendedByTwo ==
  ASSUME NEW log \in Seq(Message), NEW d \in Message, NEW e \in Message
  PROVE  Extended(log, Append(Append(log, d), e))
<1>1. Append(log, d) \in Seq(Message)
  OBVIOUS
<1> QED
  BY <1>1, ExtendedByOne DEF Extended

(* A step between the start of a turn and its end.                         *)
Continues(t) ==
  t.name = turn.name /\ Extended(turn.log, t.log)

LEMMA AnswerContinues ==
  ASSUME TypeOK, Answer
  PROVE  Continues(turn')
<1> DEFINE calls == ToolCallsList
           t == Answered(calls)
<1>1. calls \in SUBSET Call /\ turn.log \in Seq(Message)
  BY DEF ToolCallsList, TypeOK, TurnState
<1>2. t \in TurnState
  BY <1>1, AnsweredType
<1>3. turn' = [t EXCEPT !.whole = t.whole /\ Complete]
  BY DEF Answer
<1>4. turn'.name = t.name /\ turn'.log = t.log
  BY <1>2, <1>3 DEF TurnState
<1>5. t.name = turn.name
  BY DEF Answered, EndOfLoop, TypeOK, TurnState
<1>6. AssistantMessage(calls) \in Message /\ AssistantMessage({}) \in Message
      /\ Said("schema") \in Message
  BY <1>1, MessageTypes DEF Roles
<1>7. t.log \in {Append(turn.log, AssistantMessage({})),
                 Append(Append(turn.log, AssistantMessage({})), Said("schema")),
                 Append(turn.log, AssistantMessage(calls))}
  BY DEF Answered, EndOfLoop, TypeOK, TurnState
<1>8. Extended(turn.log, t.log)
  BY <1>1, <1>6, <1>7, ExtendedByOne, ExtendedByTwo
<1> QED
  BY <1>4, <1>5, <1>8 DEF Continues

LEMMA ExecuteContinues ==
  ASSUME TypeOK, Counters, ExecuteTool
  PROVE  Continues(turn')
<1> DEFINE c == FirstPending
           args == turn.slots[c].args
           T(parsed) ==
             [turn EXCEPT
                !.pending = turn.pending \ {c}, !.log = Append(turn.log, ToolMessage(c)),
                !.executed = IF parsed THEN Append(turn.executed, [call |-> c, args |-> args])
                             ELSE turn.executed]
<1>1. turn.phase = "tools"
  BY DEF ExecuteTool
<1>2. PICK parsed \in BOOLEAN :
        turn' = IF T(parsed).pending = {} THEN NextIteration(T(parsed)) ELSE T(parsed)
  BY DEF ExecuteTool, Parses
<1>3. c \in Call
  BY <1>1, FirstOfPending DEF Counters, TypeOK, TurnState
<1>4. turn.log \in Seq(Message) /\ ToolMessage(c) \in Message /\ Said("limit") \in Message
  BY <1>3, MessageTypes DEF TypeOK, TurnState, Roles
<1>5. T(parsed).name = turn.name /\ T(parsed).log = Append(turn.log, ToolMessage(c))
  BY DEF TypeOK, TurnState
<1>6. turn'.name = turn.name
  BY <1>2, <1>5 DEF NextIteration, TypeOK, TurnState
<1>7. turn'.log \in {T(parsed).log, Append(T(parsed).log, Said("limit"))}
  BY <1>2 DEF NextIteration, TypeOK, TurnState
<1>8. Extended(turn.log, turn'.log)
  <2> HIDE DEF T, c
  <2> QED
    BY <1>4, <1>5, <1>7, ExtendedByOne, ExtendedByTwo
<1> QED
  BY <1>6, <1>8 DEF Continues

LEMMA OtherContinues ==
  ASSUME TypeOK,
         \/ \E n \in 0..MaxCalls : Send(n)
         \/ \E c \in Call : \E fate \in {"whole"} \cup (Faults \cap {"lost", "cut"}) :
              Receive(c, fate)
         \/ SchemaTurn
  PROVE  Continues(turn')
<1>1. turn.log \in Seq(Message) /\ AssistantMessage({}) \in Message
  BY MessageTypes DEF TypeOK, TurnState
<1>2. turn'.name = turn.name
  BY DEF Send, Receive, SchemaTurn, TypeOK, TurnState
<1>3. turn'.log \in {turn.log, Append(turn.log, AssistantMessage({}))}
  BY DEF Send, Receive, SchemaTurn, TypeOK, TurnState
<1>4. Extended(turn.log, turn'.log)
  BY <1>1, <1>3, ExtendedByOne
<1> QED
  BY <1>2, <1>4 DEF Continues

LEMMA ContinuesOwned ==
  ASSUME TypeOK, Ownership, turn.phase # "idle", Continues(turn'), UNCHANGED <<files, turns>>
  PROVE  Ownership'
<1>1. Readable' = Readable
  BY DEF Readable
<1>2. \A f \in Readable : files[f].log \in Seq(Message)
  BY DEF Readable, TypeOK, File
<1>3. turn.name \in Readable => IsPrefix(files[turn.name].log, turn'.log)
  BY <1>2 DEF Ownership, Continues, Extended
<1> QED
  BY <1>1, <1>3 DEF Ownership, Continues

LEMMA EndOwned ==
  ASSUME TypeOK, Ownership, SaveThread \/ Fail \/ Kill
  PROVE  Ownership'
<1>1. turn' = Idle /\ turns' = turns /\ turn.phase # "idle" /\ turn'.phase = "idle"
  BY IdleType DEF SaveThread, Fail, Kill
<1>2. turn.name \in Names
  BY DEF TypeOK, TurnState
<1>3. files' = files \/ \E f \in {Written, files[turn.name], Torn} :
        files' = [files EXCEPT ![turn.name] = f]
  BY DEF SaveThread, Fail, Kill
<1>4. PICK w \in {Written, files[turn.name], Torn} : files' = [files EXCEPT ![turn.name] = w]
  BY <1>2, <1>3 DEF TypeOK
<1>5. files'[turn.name] = w /\ \A f \in Names \ {turn.name} : files'[f] = files[f]
  BY <1>2, <1>4 DEF TypeOK
<1>6. Readable' \subseteq Readable \cup {turn.name}
  BY <1>5 DEF Readable
<1>7. \A f \in Names : files'[f].state # "absent" => f[2] <= turns'
  BY <1>1, <1>5 DEF Ownership
<1>8. \A f, g \in Readable' : f[2] = g[2] => f = g
  BY <1>1, <1>6 DEF Ownership
<1> QED
  BY <1>1, <1>7, <1>8 DEF Ownership

LEMMA StepOwned ==
  ASSUME Extends = {}, TypeOK, Counters, Ownership, [Next]_vars
  PROVE  Ownership'
<1>1. CASE UNCHANGED vars
  BY <1>1 DEF vars, Ownership, Readable
<1>2. CASE \E m \in Models : \E structured, resume \in BOOLEAN : \E stream \in Streams :
             StartThread(m, structured, stream, resume)
  BY <1>2, StartOwned
<1>3. CASE Answer
  <2>1. turn.phase # "idle" /\ UNCHANGED <<files, turns>>
    BY <1>3 DEF Answer
  <2> QED
    BY <1>3, <2>1, AnswerContinues, ContinuesOwned
<1>4. CASE ExecuteTool
  <2>1. turn.phase # "idle" /\ UNCHANGED <<files, turns>>
    BY <1>4 DEF ExecuteTool
  <2> QED
    BY <1>4, <2>1, ExecuteContinues, ContinuesOwned
<1>5. CASE \/ \E n \in 0..MaxCalls : Send(n)
           \/ \E c \in Call : \E fate \in {"whole"} \cup (Faults \cap {"lost", "cut"}) :
                Receive(c, fate)
           \/ SchemaTurn
  <2>1. turn.phase # "idle" /\ UNCHANGED <<files, turns>>
    BY <1>5 DEF Send, Receive, SchemaTurn
  <2> QED
    BY <1>5, <2>1, OtherContinues, ContinuesOwned
<1>6. CASE SaveThread \/ Fail \/ Kill
  BY <1>6, EndOwned
<1> QED
  BY <1>1, <1>2, <1>3, <1>4, <1>5, <1>6 DEF Next

LEMMA InitOwned == Init => Ownership
<1> SUFFICES ASSUME Init PROVE Ownership
  OBVIOUS
<1>1. \A f \in Names : files[f].state = "absent"
  BY DEF Init, NoFile
<1>2. Readable = {}
  BY <1>1 DEF Readable
<1> QED
  BY <1>1, <1>2, IdleType DEF Init, Ownership

(* Where no model's name begins another's, a thread that is written again  *)
(* keeps what it held, whichever turns failed or died in between           *)
(* (openrouter_client.py:365-397).                                         *)
THEOREM HistoryCorrect ==
  ASSUME Extends = {}
  PROVE  Spec => HistoryKept
<1>1. Init => TypeOK /\ Counters /\ Ownership
  BY InitTypes, InitOwned
<1>2. TypeOK /\ Counters /\ Ownership /\ [Next]_vars => TypeOK' /\ Counters' /\ Ownership'
  BY StepTypes, StepOwned
<1>3. ASSUME TypeOK, Ownership, [Next]_vars, NEW f \in Names,
             files[f].state = "ok", files'[f].state = "ok"
      PROVE  IsPrefix(files[f].log, files'[f].log)
  <2>1. f \in Readable /\ files[f].log \in Seq(Message)
    BY <1>3 DEF Readable, TypeOK, File
  <2>2. CASE files'[f] = files[f]
    BY <2>1, <2>2, PrefixSelf
  <2>3. CASE files'[f] # files[f]
    <3>1. SaveThread \/ Fail \/ Kill
      BY <1>3, <2>3 DEF Next, vars, StartThread, Send, Receive, Answer, ExecuteTool, SchemaTurn
    <3>2. files' = files \/ \E w \in {Written, files[turn.name], Torn} :
            files' = [files EXCEPT ![turn.name] = w]
      BY <3>1 DEF SaveThread, Fail, Kill
    <3>3. turn.phase # "idle"
      BY <3>1 DEF SaveThread, Fail, Kill
    <3>4. f = turn.name /\ files'[f] \in {Written, Torn}
      BY <1>3, <2>3, <3>2 DEF TypeOK
    <3>5. files'[f] = Written
      BY <1>3, <3>4 DEF Torn
    <3> QED
      BY <1>3, <2>1, <3>3, <3>4, <3>5 DEF Ownership, Written
  <2> QED
    BY <2>2, <2>3
<1>4. TypeOK /\ Ownership /\ [Next]_vars =>
        [\A f \in Names :
           files[f].state = "ok" /\ files'[f].state = "ok" =>
             IsPrefix(files[f].log, files'[f].log)]_files
  BY <1>3
<1> QED
  BY <1>1, <1>2, <1>4, PTL DEF Spec, HistoryKept

-----------------------------------------------------------------------------
(* Conversations.                                                          *)

(* What WellFormed says of one message, but for its own calls.             *)
InPlace(log, k) ==
  (log[k].role = "system" <=> k = 1) /\ AnswersACall(log, k)

(* The conversation of a turn in the middle of its tools: message j has    *)
(* calls of which the pending ones, the last of them, wait for their answer*)
(* and the others have it.                                                 *)
AnsweredUpTo(log, pending, j) ==
  LET calls == log[j].calls
  IN /\ pending \subseteq calls /\ pending # {}
     /\ \A c \in calls \ pending : \A d \in pending : c < d
     /\ Len(log) = j + Cardinality(calls \ pending)
     /\ \A c \in calls \ pending :
          /\ j + Rank(c, calls) \in DOMAIN log
          /\ log[j + Rank(c, calls)] = ToolMessage(c)

PartlyAnswered(log, pending) ==
  \E j \in DOMAIN log :
    /\ AnsweredUpTo(log, pending, j)
    /\ \A k \in DOMAIN log : InPlace(log, k) /\ (k # j => AnswersCalls(log, k))

(* Adding a message changes nothing for those before it.                   *)
LEMMA AppendKeeps ==
  ASSUME NEW log \in Seq(Message), NEW e \in Message, NEW k \in DOMAIN log
  PROVE  /\ Append(log, e)[k] = log[k] /\ k \in DOMAIN Append(log, e)
         /\ InPlace(log, k) => InPlace(Append(log, e), k)
         /\ AnswersCalls(log, k) => AnswersCalls(Append(log, e), k)
<1> DEFINE longer == Append(log, e)
<1>1. DOMAIN log = 1..Len(log) /\ DOMAIN longer = 1..(Len(log) + 1)
  OBVIOUS
<1>2. \A n \in DOMAIN log : longer[n] = log[n] /\ n \in DOMAIN longer
  OBVIOUS
<1>3. InPlace(log, k) => InPlace(longer, k)
  <2>1. \A j \in 1..(k - 1) : longer[j] = log[j]
    BY <1>1, <1>2
  <2> HIDE DEF longer
  <2> QED
    BY <1>2, <2>1 DEF InPlace, AnswersACall
<1>4. AnswersCalls(log, k) => AnswersCalls(longer, k)
  <2> HIDE DEF longer
  <2> QED
    BY <1>2 DEF AnswersCalls
<1> QED
  BY <1>2, <1>3, <1>4

LEMMA AppendPlain ==
  ASSUME NEW log \in Seq(Message), WellFormed(log),
         NEW e \in Message, e.calls = {}, e.role \notin {"system", "tool"}
  PROVE  WellFormed(Append(log, e))
<1> DEFINE longer == Append(log, e)
           n == Len(log) + 1
<1>1. DOMAIN longer = 1..n /\ longer[n] = e /\ n # 1 /\ longer # <<>>
  BY DEF WellFormed
<1>2. \A k \in DOMAIN log : InPlace(longer, k) /\ AnswersCalls(longer, k)
  BY AppendKeeps DEF WellFormed, InPlace
<1>3. InPlace(longer, n) /\ AnswersCalls(longer, n)
  <2> HIDE DEF longer, n
  <2> QED
    BY <1>1 DEF InPlace, AnswersACall, AnswersCalls
<1>4. \A k \in DOMAIN longer : k = n \/ k \in DOMAIN log
  BY <1>1
<1>5. WellFormed(longer)
  <2> HIDE DEF longer, n
  <2> QED
    BY <1>1, <1>2, <1>3, <1>4 DEF WellFormed, InPlace
<1> QED
  BY <1>5

LEMMA AppendCalls ==
  ASSUME NEW log \in Seq(Message), WellFormed(log),
         NEW calls \in SUBSET Call, calls # {}
  PROVE  PartlyAnswered(Append(log, AssistantMessage(calls)), calls)
<1> DEFINE e == AssistantMessage(calls)
           longer == Append(log, e)
           n == Len(log) + 1
<1>1. e \in Message /\ e.calls = calls /\ e.role = "assistant"
  BY MessageTypes DEF AssistantMessage
<1>2. DOMAIN longer = 1..n /\ longer[n] = e /\ n # 1 /\ Len(longer) = n /\ n \in 1..n
  BY <1>1 DEF WellFormed
<1>3. \A k \in DOMAIN log : InPlace(longer, k) /\ AnswersCalls(longer, k)
  BY <1>1, AppendKeeps DEF WellFormed, InPlace
<1>4. InPlace(longer, n)
  <2> HIDE DEF longer, n, e
  <2> QED
    BY <1>1, <1>2 DEF InPlace, AnswersACall
<1>5. AnsweredUpTo(longer, calls, n)
  <2>1. calls \ calls = {} /\ Cardinality({}) = 0
    BY FS_EmptySet
  <2>2. n = n + 0
    OBVIOUS
  <2> HIDE DEF longer, n, e
  <2> QED
    BY <1>1, <1>2, <2>1, <2>2 DEF AnsweredUpTo
<1>6. \A k \in DOMAIN longer : k = n \/ k \in DOMAIN log
  BY <1>2
<1>7. PartlyAnswered(longer, calls)
  <2> HIDE DEF longer, n, e
  <2> QED
    BY <1>2, <1>3, <1>4, <1>5, <1>6 DEF PartlyAnswered
<1> QED
  BY <1>7

(* The first of the pending calls is answered.                             *)
LEMMA AppendAnswer ==
  ASSUME NEW log \in Seq(Message), NEW pending, PartlyAnswered(log, pending),
         NEW c \in pending, \A d \in pending : c <= d
  PROVE  LET longer == Append(log, ToolMessage(c))
         IN  IF pending \ {c} = {} THEN WellFormed(longer)
             ELSE PartlyAnswered(longer, pending \ {c})
<1> DEFINE longer == Append(log, ToolMessage(c))
           n == Len(log) + 1
           left == pending \ {c}
<1>1. PICK j \in DOMAIN log :
        /\ AnsweredUpTo(log, pending, j)
        /\ \A k \in DOMAIN log : InPlace(log, k) /\ (k # j => AnswersCalls(log, k))
  BY DEF PartlyAnswered
<1> DEFINE calls == log[j].calls
           done == calls \ pending
<1>2. calls \in SUBSET Call /\ pending \subseteq calls /\ c \in Call
  <2>1. log[j] \in Message
    OBVIOUS
  <2> QED
    BY <1>1, <2>1 DEF AnsweredUpTo, Message
<1>3. calls \subseteq Nat /\ IsFiniteSet(calls) /\ IsFiniteSet(done)
  <2>1. IsFiniteSet(Call) /\ Call \subseteq Nat
    BY AgentAssumption, FS_Interval DEF Call
  <2> QED
    BY <1>2, <2>1, FS_Subset
<1>4. ToolMessage(c) \in Message
  BY <1>2, MessageTypes
<1>5. DOMAIN longer = 1..n /\ longer[n] = ToolMessage(c) /\ Len(longer) = n
      /\ DOMAIN log = 1..Len(log) /\ Len(log) \in Nat /\ j \in 1..Len(log)
  BY <1>4
<1>6. \A k \in DOMAIN log :
        /\ longer[k] = log[k] /\ k \in DOMAIN longer
        /\ InPlace(longer, k) /\ (k # j => AnswersCalls(longer, k))
  BY <1>1, <1>4, AppendKeeps
<1>7. {d \in calls : d <= c} = done \cup {c}
  <2>1. \A d \in done : d < c
    BY <1>1 DEF AnsweredUpTo
  <2>2. \A d \in calls : d <= c /\ d # c => d \in done
    BY <1>2, <1>3
  <2> QED
    BY <1>2, <1>3, <2>1, <2>2
<1>8. calls \ left = done \cup {c} /\ c \notin done
  BY <1>2
<1>9. Cardinality(done \cup {c}) = Cardinality(done) + 1 /\ Cardinality(done) \in Nat
      /\ Cardinality(done \cup {c}) <= Cardinality(calls) /\ Cardinality(calls) \in Nat
  <2>1. done \cup {c} \subseteq calls
    BY <1>2
  <2> QED
    BY <1>3, <1>8, <2>1, FS_AddElement, FS_Subset, FS_CardinalityType
<1>10. Rank(c, calls) = Cardinality(done) + 1 /\ Len(log) = j + Cardinality(done)
  BY <1>1, <1>7, <1>9 DEF Rank, AnsweredUpTo
<1>11. j + Rank(c, calls) = n /\ n - j <= Cardinality(calls) /\ j \in 1..(n - 1)
  <2> HIDE DEF calls, done
  <2> QED
    BY <1>5, <1>9, <1>10
<1>12. InPlace(longer, n)
  <2>1. longer[n].role = "tool" /\ longer[n].calls = {} /\ longer[j].calls = calls
    BY <1>5, <1>6 DEF ToolMessage
  <2>2. n # 1
    BY <1>5
  <2> HIDE DEF longer, n, calls
  <2> QED
    BY <1>11, <2>1, <2>2 DEF InPlace, AnswersACall
<1>13. AnswersCalls(longer, n)
  BY <1>5 DEF AnswersCalls, ToolMessage
<1>14. \A d \in calls \ left :
         j + Rank(d, calls) \in DOMAIN longer /\ longer[j + Rank(d, calls)] = ToolMessage(d)
  <2>1. \A d \in done :
          j + Rank(d, calls) \in DOMAIN log /\ log[j + Rank(d, calls)] = ToolMessage(d)
    BY <1>1 DEF AnsweredUpTo
  <2>2. n \in DOMAIN longer
    BY <1>5
  <2> HIDE DEF longer, n, calls, done, left
  <2> QED
    BY <1>5, <1>6, <1>8, <1>11, <2>1, <2>2
<1>15. \A k \in DOMAIN longer : k = n \/ k \in DOMAIN log
  BY <1>5
<1>16. longer[j].calls = calls
  BY <1>5, <1>6
<1>17. CASE left = {}
  <2>1. AnswersCalls(longer, j)
    <3>1. calls \ left = calls
      BY <1>17
    <3> HIDE DEF longer, n, calls, left
    <3> QED
      BY <1>14, <1>16, <3>1 DEF AnswersCalls
  <2>2. longer # <<>>
    BY <1>5
  <2>3. WellFormed(longer)
    <3> HIDE DEF longer, n
    <3> QED
      BY <1>6, <1>12, <1>13, <1>15, <2>1, <2>2 DEF WellFormed, InPlace
  <2> QED
    BY <1>17, <2>3
<1>18. CASE left # {}
  <2>1. left \subseteq calls
    BY <1>2
  <2>2. \A d \in calls \ left : \A e \in left : d < e
    <3>1. \A d \in done : \A e \in left : d < e
      BY <1>1 DEF AnsweredUpTo
    <3>2. \A e \in left : c < e
      BY <1>2, <1>3
    <3> QED
      BY <1>8, <3>1, <3>2
  <2>3. Len(longer) = j + Cardinality(calls \ left)
    <3>1. Cardinality(calls \ left) = Cardinality(done) + 1
      BY <1>8, <1>9
    <3> HIDE DEF calls, done, left, longer
    <3> QED
      BY <1>5, <1>9, <1>10, <3>1
  <2>4. AnsweredUpTo(longer, left, j)
    <3> HIDE DEF longer, n, calls, left
    <3> QED
      BY <1>14, <1>16, <1>18, <2>1, <2>2, <2>3 DEF AnsweredUpTo
  <2>5. PartlyAnswered(longer, left)
    <3>1. j \in DOMAIN longer
      BY <1>6
    <3> HIDE DEF longer, n, calls, left
    <3> QED
      BY <1>6, <1>12, <1>13, <1>15, <2>4, <3>1 DEF PartlyAnswered
  <2> QED
    BY <1>18, <2>5
<1> QED
  BY <1>17, <1>18

(* The end of a conversation that is stored.                               *)
Finished(log) ==
  Last(log).role \in {"assistant", "schema"} /\ Last(log).calls = {}

Conversation ==
  /\ turn.phase \in {"request", "stream", "schema", "save"} => WellFormed(turn.log)
  /\ turn.phase = "tools" => PartlyAnswered(turn.log, turn.pending)
  /\ turn.phase \in {"schema", "save"} => Finished(turn.log)
  /\ StoredThreadsFinished

LEMMA AppendEnd ==
  ASSUME NEW log \in Seq(Message), WellFormed(log),
         NEW e \in {AssistantMessage({}), Said("schema")}
  PROVE  /\ Append(log, e) \in Seq(Message)
         /\ WellFormed(Append(log, e)) /\ Finished(Append(log, e))
<1>1. e \in Message /\ e.calls = {} /\ e.role \in {"assistant", "schema"}
  <2>1. AssistantMessage({}) \in Message /\ Said("schema") \in Message
    BY MessageTypes DEF Roles
  <2>2. /\ AssistantMessage({}).calls = {} /\ AssistantMessage({}).role = "assistant"
        /\ Said("schema").calls = {} /\ Said("schema").role = "schema"
    BY DEF AssistantMessage, Said
  <2> QED
    BY <2>1, <2>2
<1>2. Append(log, e) \in Seq(Message) /\ Last(Append(log, e)) = e
  BY <1>1 DEF Last
<1> QED
  BY <1>1, <1>2, AppendPlain DEF Finished

(* Where the files are unchanged, so is what is stored.                    *)
LEMMA SameFiles ==
  ASSUME StoredThreadsFinished, UNCHANGED files
  PROVE  StoredThreadsFinished'
BY DEF StoredThreadsFinished, Readable

LEMMA StartConversation ==
  ASSUME TypeOK, Conversation, NEW m \in Models, NEW structured \in BOOLEAN,
         NEW stream \in Streams, NEW resume \in BOOLEAN,
         StartThread(m, structured, stream, resume)
  PROVE  Conversation'
<1>1. turns < MaxTurns /\ files' = files
  BY DEF StartThread
<1>2. PICK t \in Conversations(m, resume) :
        turn' = [Idle EXCEPT
                   !.phase = "request", !.structured = structured, !.stream = stream,
                   !.name = <<m, t.id>>,
                   !.log = Append(t.log, Said("prompt"))]
  BY DEF StartThread
<1>3. t.log \in Seq(Message)
  BY <1>1, ConversationTypes
<1>4. turn'.phase = "request" /\ turn'.log = Append(t.log, Said("prompt"))
  BY <1>2, IdleType DEF TurnState
<1>5. WellFormed(t.log)
  <2>1. CASE resume /\ Candidates(m) # {}
    BY <2>1 DEF Conversations, Conversation, StoredThreadsFinished
  <2>2. CASE ~(resume /\ Candidates(m) # {})
    <3>1. t.log = <<Said("system")>>
      BY <2>2 DEF Conversations
    <3>2. Said("system").role = "system" /\ Said("system").calls = {}
      BY DEF Said
    <3> QED
      BY <3>1, <3>2 DEF WellFormed, AnswersCalls, AnswersACall
  <2> QED
    BY <2>1, <2>2
<1>6. WellFormed(Append(t.log, Said("prompt")))
  <2>1. Said("prompt") \in Message /\ Said("prompt").calls = {}
        /\ Said("prompt").role = "prompt"
    BY MessageTypes DEF Said, Roles
  <2> QED
    BY <1>3, <1>5, <2>1, AppendPlain
<1> QED
  BY <1>1, <1>4, <1>6, SameFiles DEF Conversation

LEMMA AnswerConversation ==
  ASSUME TypeOK, Conversation, Answer
  PROVE  Conversation'
<1> DEFINE calls == ToolCallsList
           t == Answered(calls)
           said == Append(turn.log, AssistantMessage({}))
<1>1. turn.phase = "stream" /\ files' = files /\ turn.log \in Seq(Message)
      /\ WellFormed(turn.log)
  BY DEF Answer, Conversation, TypeOK, TurnState
<1>2. calls \in SUBSET Call
  BY DEF ToolCallsList
<1>3. t \in TurnState
  BY <1>2, AnsweredType
<1>4. turn' = [t EXCEPT !.whole = t.whole /\ Complete]
  BY DEF Answer
<1>5. turn'.phase = t.phase /\ turn'.log = t.log /\ turn'.pending = t.pending
  BY <1>3, <1>4 DEF TurnState
<1>6. said \in Seq(Message) /\ WellFormed(said) /\ Finished(said)
  BY <1>1, AppendEnd
<1>7. CASE calls = {} \/ turn.final
  <2>1. \/ t.phase = "schema" /\ t.log = Append(said, Said("schema"))
        \/ t.phase = "save" /\ t.log = said
    BY <1>7 DEF Answered, EndOfLoop, TypeOK, TurnState
  <2>2. WellFormed(t.log) /\ Finished(t.log)
    <3> HIDE DEF said
    <3> QED
      BY <1>6, <2>1, AppendEnd
  <2> QED
    BY <1>1, <1>5, <2>1, <2>2, SameFiles DEF Conversation
<1>8. CASE calls # {} /\ ~turn.final
  <2>1. t.phase = "tools" /\ t.pending = calls
        /\ t.log = Append(turn.log, AssistantMessage(calls))
    BY <1>8 DEF Answered, TypeOK, TurnState
  <2>2. PartlyAnswered(t.log, calls)
    BY <1>1, <1>2, <1>8, <2>1, AppendCalls
  <2> QED
    BY <1>1, <1>5, <2>1, <2>2, SameFiles DEF Conversation
<1> QED
  BY <1>7, <1>8

LEMMA ExecuteConversation ==
  ASSUME TypeOK, Counters, Conversation, ExecuteTool
  PROVE  Conversation'
<1> DEFINE c == FirstPending
           args == turn.slots[c].args
           T(parsed) ==
             [turn EXCEPT
                !.pending = turn.pending \ {c}, !.log = Append(turn.log, ToolMessage(c)),
                !.executed = IF parsed THEN Append(turn.executed, [call |-> c, args |-> args])
                             ELSE turn.executed]
<1>1. turn.phase = "tools" /\ files' = files
  BY DEF ExecuteTool
<1>2. PICK parsed \in BOOLEAN :
        turn' = IF T(parsed).pending = {} THEN NextIteration(T(parsed)) ELSE T(parsed)
  BY DEF ExecuteTool, Parses
<1>3. c \in turn.pending /\ \A d \in turn.pending : c <= d
  BY <1>1, FirstOfPending DEF Counters
<1>4. turn.log \in Seq(Message) /\ c \in Call
  BY <1>3 DEF TypeOK, TurnState
<1> DEFINE longer == Append(turn.log, ToolMessage(c))
<1>5. IF turn.pending \ {c} = {} THEN WellFormed(longer)
      ELSE PartlyAnswered(longer, turn.pending \ {c})
  BY <1>1, <1>3, <1>4, AppendAnswer DEF Conversation
<1>6. T(parsed).pending = turn.pending \ {c} /\ T(parsed).log = longer
      /\ T(parsed).phase = "tools"
  BY <1>1 DEF TypeOK, TurnState
<1>7. longer \in Seq(Message)
  BY <1>4, MessageTypes
<1>8. CASE turn.pending \ {c} = {}
  <2>1. turn' = NextIteration(T(parsed))
    BY <1>2, <1>6, <1>8
  <2>2. turn'.phase = "request" /\ turn'.log \in {longer, Append(longer, Said("limit"))}
    BY <2>1 DEF NextIteration, TypeOK, TurnState
  <2>3. Said("limit") \in Message /\ Said("limit").calls = {} /\ Said("limit").role = "limit"
    BY MessageTypes DEF Said, Roles
  <2>4. WellFormed(turn'.log)
    <3> HIDE DEF longer, c
    <3> QED
      BY <1>5, <1>7, <1>8, <2>2, <2>3, AppendPlain
  <2> QED
    BY <1>1, <2>2, <2>4, SameFiles DEF Conversation
<1>9. CASE turn.pending \ {c} # {}
  <2>1. turn' = T(parsed)
    BY <1>2, <1>6, <1>9
  <2>2. turn'.phase = "tools" /\ turn'.pending = turn.pending \ {c} /\ turn'.log = longer
    BY <1>6, <2>1
  <2>3. PartlyAnswered(turn'.log, turn'.pending)
    BY <1>5, <1>9, <2>2
  <2> QED
    BY <1>1, <2>2, <2>3, SameFiles DEF Conversation
<1> QED
  BY <1>8, <1>9

LEMMA OtherConversation ==
  ASSUME TypeOK, Conversation,
         \/ \E n \in 0..MaxCalls : Send(n)
         \/ \E c \in Call : \E fate \in {"whole"} \cup (Faults \cap {"lost", "cut"}) :
              Receive(c, fate)
         \/ SchemaTurn
  PROVE  Conversation'
<1>1. files' = files
  BY DEF Send, Receive, SchemaTurn
<1>2. CASE \/ \E n \in 0..MaxCalls : Send(n)
           \/ \E c \in Call : \E fate \in {"whole"} \cup (Faults \cap {"lost", "cut"}) :
                Receive(c, fate)
  <2>1. turn'.phase = "stream" /\ turn'.log = turn.log /\ turn.phase \in {"request", "stream"}
    BY <1>2 DEF Send, Receive, TypeOK, TurnState
  <2> QED
    BY <1>1, <2>1, SameFiles DEF Conversation
<1>3. CASE SchemaTurn
  <2>1. turn'.phase = "save" /\ turn.phase = "schema"
        /\ turn'.log \in {turn.log, Append(turn.log, AssistantMessage({}))}
    BY <1>3 DEF SchemaTurn, TypeOK, TurnState
  <2>2. turn.log \in Seq(Message) /\ WellFormed(turn.log) /\ Finished(turn.log)
    BY <2>1 DEF Conversation, TypeOK, TurnState
  <2>3. WellFormed(turn'.log) /\ Finished(turn'.log)
    BY <2>1, <2>2, AppendEnd
  <2> QED
    BY <1>1, <2>1, <2>3, SameFiles DEF Conversation
<1> QED
  BY <1>2, <1>3

LEMMA EndConversation ==
  ASSUME TypeOK, Conversation, SaveThread \/ Fail \/ Kill
  PROVE  Conversation'
<1>1. turn' = Idle /\ turn'.phase = "idle"
  BY IdleType DEF SaveThread, Fail, Kill
<1>2. turn.name \in Names /\ files \in [Names -> File]
  BY DEF TypeOK, TurnState
<1>3. files' = files \/
        (turn.phase = "save" /\ \E f \in {Written, files[turn.name], Torn} :
           files' = [files EXCEPT ![turn.name] = f])
  BY <1>2 DEF SaveThread, Fail, Kill
<1>4. StoredThreadsFinished'
  <2>1. CASE files' = files
    BY <2>1, SameFiles DEF Conversation
  <2>2. CASE turn.phase = "save" /\ \E f \in {Written, files[turn.name], Torn} :
               files' = [files EXCEPT ![turn.name] = f]
    <3>1. PICK w \in {Written, files[turn.name], Torn} :
            files' = [files EXCEPT ![turn.name] = w]
      BY <2>2
    <3>2. ASSUME NEW f \in Readable'
          PROVE  WellFormed(files'[f].log) /\ Finished(files'[f].log)
      <4>1. f \in Names /\ files'[f].state = "ok"
        BY <3>2 DEF Readable
      <4>2. CASE files'[f] = files[f]
        BY <4>1, <4>2 DEF Conversation, StoredThreadsFinished, Finished, Readable
      <4>3. CASE f = turn.name /\ w = Written
        BY <1>2, <2>2, <3>1, <4>3 DEF Conversation, Written
      <4>4. w # Torn \/ f # turn.name
        BY <1>2, <3>1, <4>1 DEF Torn
      <4> QED
        BY <1>2, <3>1, <4>1, <4>2, <4>3, <4>4
    <3> QED
      BY <3>2 DEF StoredThreadsFinished, Finished
  <2> QED
    BY <1>3, <2>1, <2>2
<1> QED
  BY <1>1, <1>4 DEF Conversation

LEMMA StepConversation ==
  ASSUME TypeOK, Counters, Conversation, [Next]_vars
  PROVE  Conversation'
<1>1. CASE UNCHANGED vars
  BY <1>1, SameFiles DEF vars, Conversation
<1>2. CASE Next
  BY <1>2, StartConversation, AnswerConversation, ExecuteConversation, OtherConversation,
     EndConversation DEF Next
<1> QED
  BY <1>1, <1>2

LEMMA InitConversation == Init => Conversation
<1> SUFFICES ASSUME Init PROVE Conversation
  OBVIOUS
<1>1. Readable = {}
  BY DEF Init, NoFile, Readable
<1> QED
  BY <1>1, IdleType DEF Init, Conversation, StoredThreadsFinished

(* Every request sends a conversation whose calls are answered, in order   *)
(* and by the messages that follow, whatever frames were lost, tools       *)
(* refused or turns broken off (openrouter_client.py:187-231).             *)
THEOREM RequestsAccepted == Spec => []RequestsWellFormed
<1>1. Init => TypeOK /\ Counters /\ Conversation
  BY InitTypes, InitConversation
<1>2. TypeOK /\ Counters /\ Conversation /\ [Next]_vars =>
        TypeOK' /\ Counters' /\ Conversation'
  BY StepTypes, StepConversation
<1>3. Conversation => RequestsWellFormed
  BY DEF Conversation, RequestsWellFormed
<1> QED
  BY <1>1, <1>2, <1>3, PTL DEF Spec

(* A thread on disk that can be read is such a conversation, at the end of *)
(* a turn (openrouter_client.py:127, 168).                                 *)
THEOREM StoredCorrect == Spec => []StoredThreadsFinished
<1>1. Init => TypeOK /\ Counters /\ Conversation
  BY InitTypes, InitConversation
<1>2. TypeOK /\ Counters /\ Conversation /\ [Next]_vars =>
        TypeOK' /\ Counters' /\ Conversation'
  BY StepTypes, StepConversation
<1>3. Conversation => StoredThreadsFinished
  BY DEF Conversation
<1> QED
  BY <1>1, <1>2, <1>3, PTL DEF Spec

-----------------------------------------------------------------------------
(* Turns implement ThreadStore.                                            *)

Used(f) == files[f].state # "absent"

(* An identifier is used by one model, and a turn is never in a thread     *)
(* whose file is torn.                                                     *)
Undivided ==
  /\ \A f \in Names : files[f].state # "ok" => files[f].log = <<>>
  /\ \A f, g \in Names : Used(f) /\ Used(g) /\ f[2] = g[2] => f = g
  /\ turn.phase # "idle" =>
       /\ files[turn.name].state # "broken"
       /\ \A f \in Names : Used(f) /\ f[2] = turn.name[2] => f = turn.name

LEMMA StartUndivided ==
  ASSUME Extends = {}, TypeOK, Ownership, Undivided, NEW m \in Models,
         NEW structured \in BOOLEAN, NEW stream \in Streams, NEW resume \in BOOLEAN,
         StartThread(m, structured, stream, resume)
  PROVE  Undivided'
<1>1. turns < MaxTurns /\ files' = files /\ turns \in Nat
  BY DEF StartThread, TypeOK
<1>2. PICK t \in Conversations(m, resume) :
        turn' = [Idle EXCEPT
                   !.phase = "request", !.structured = structured, !.stream = stream,
                   !.name = <<m, t.id>>,
                   !.log = Append(t.log, Said("prompt"))]
  BY DEF StartThread
<1>3. turn'.name = <<m, t.id>> /\ <<m, t.id>> \in Names
  BY <1>1, <1>2, ConversationTypes, IdleType DEF TurnState, Names
<1>4. CASE t.id = turns + 1
  <2>1. \A f \in Names : f[2] = t.id => ~Used(f)
    BY <1>1, <1>4 DEF Ownership, Used, Names
  <2> QED
    BY <1>1, <1>3, <2>1 DEF Undivided, Used
<1>5. CASE <<m, t.id>> \in Readable
  <2>1. files[<<m, t.id>>].state = "ok"
    BY <1>5 DEF Readable
  <2> QED
    BY <1>1, <1>3, <2>1 DEF Undivided, Used
<1> QED
  BY <1>1, <1>4, <1>5, StartsWithOwn

(* At its end a turn has written its thread, torn its file or left it.     *)
LEMMA EndWrites ==
  ASSUME TypeOK, SaveThread \/ Fail \/ Kill
  PROVE  /\ turn.phase # "idle" /\ turn' = Idle /\ turn.name \in Names
         /\ \E w \in {Written, files[turn.name], Torn} :
              files' = [files EXCEPT ![turn.name] = w]
<1>1. files' = files \/ \E w \in {Written, files[turn.name], Torn} :
        files' = [files EXCEPT ![turn.name] = w]
  BY DEF SaveThread, Fail, Kill
<1>2. files = [files EXCEPT ![turn.name] = files[turn.name]]
  BY DEF TypeOK
<1> QED
  BY <1>1, <1>2 DEF SaveThread, Fail, Kill, TypeOK, TurnState

LEMMA EndUndivided ==
  ASSUME TypeOK, Undivided, SaveThread \/ Fail \/ Kill
  PROVE  Undivided'
<1>1. turn.phase # "idle" /\ turn'.phase = "idle" /\ turn.name \in Names
  BY EndWrites, IdleType
<1>2. PICK w \in {Written, files[turn.name], Torn} : files' = [files EXCEPT ![turn.name] = w]
  BY EndWrites
<1>3. files'[turn.name] = w /\ \A f \in Names \ {turn.name} : files'[f] = files[f]
  BY <1>1, <1>2 DEF TypeOK
<1>4. w.state # "ok" => w.log = <<>>
  BY <1>1 DEF Written, Torn, Undivided
<1> QED
  BY <1>1, <1>3, <1>4 DEF Undivided, Used

LEMMA StepUndivided ==
  ASSUME Extends = {}, TypeOK, Counters, Ownership, Undivided, [Next]_vars
  PROVE  Undivided'
<1>1. CASE UNCHANGED vars
  BY <1>1 DEF vars, Undivided, Used
<1>2. CASE \E m \in Models : \E structured, resume \in BOOLEAN : \E stream \in Streams :
             StartThread(m, structured, stream, resume)
  BY <1>2, StartUndivided
<1>3. CASE SaveThread \/ Fail \/ Kill
  BY <1>3, EndUndivided
<1>4. CASE turn.phase # "idle" /\ files' = files /\ turn'.name = turn.name
  BY <1>4 DEF Undivided, Used
<1>5. Answer \/ ExecuteTool => turn.phase # "idle" /\ files' = files /\ turn'.name = turn.name
  BY AnswerContinues, ExecuteContinues DEF Answer, ExecuteTool, Continues
<1>6. \/ \E n \in 0..MaxCalls : Send(n)
      \/ \E c \in Call : \E fate \in {"whole"} \cup (Faults \cap {"lost", "cut"}) :
           Receive(c, fate)
      \/ SchemaTurn
      => turn.phase # "idle" /\ files' = files /\ turn'.name = turn.name
  BY OtherContinues DEF Send, Receive, SchemaTurn, Continues
<1> QED
  BY <1>1, <1>2, <1>3, <1>4, <1>5, <1>6 DEF Next

LEMMA SameNames ==
  /\ Store!Threads = Names
  /\ \A s, t : Store!IsPrefix(s, t) <=> IsPrefix(s, t)
BY DEF Store!Threads, Names, IsPrefix, Store!IsPrefix

(* What is on disk, and which of it is torn.                               *)
Stored == [f \in Names |-> files[f].log]
Broken == {f \in Names : files[f].state = "broken"}

LEMMA EndStores ==
  ASSUME TypeOK, Ownership, Undivided, StoredThreadsFinished', TypeOK',
         SaveThread \/ Fail \/ Kill
  PROVE  [Store!Next]_<<Stored, Broken>>
<1> DEFINE n == turn.name
<1>1. turn.phase # "idle" /\ n \in Names
  BY EndWrites
<1>2. PICK w \in {Written, files[n], Torn} : files' = [files EXCEPT ![n] = w]
  BY EndWrites
<1>3. files'[n] = w /\ \A f \in Names \ {n} : files'[f] = files[f]
  BY <1>1, <1>2 DEF TypeOK
<1>4. Stored' = [Stored EXCEPT ![n] = w.log] /\ Stored'[n] = w.log /\ Stored[n] = files[n].log
  BY <1>1, <1>3 DEF Stored
<1>5. n \notin Broken
  BY <1>1 DEF Undivided, Broken
<1>6. \A g \in Names : g[2] = n[2] /\ g # n => Stored[g] = <<>> /\ g \notin Broken
  BY <1>1 DEF Undivided, Used, Stored, Broken
<1>7. CASE Stored' = Stored /\ Broken' = Broken
  BY <1>7
<1>8. CASE w = Written /\ Stored' # Stored
  <2>1. Broken' = Broken
    BY <1>1, <1>3, <1>5, <1>8 DEF Broken, Written
  <2>2. w.log # files[n].log
    <3>1. Stored = [Stored EXCEPT ![n] = Stored[n]]
      BY DEF Stored
    <3> QED
      BY <1>4, <1>8, <3>1
  <2>3. w.log \in FinishedLogs
    <3>1. n \in Readable' /\ files'[n].log \in Seq(Message)
      BY <1>1, <1>3, <1>8 DEF Readable, Written, TypeOK, File
    <3> QED
      BY <1>3, <3>1 DEF StoredThreadsFinished, FinishedLogs
  <2>4. IsPrefix(files[n].log, w.log)
    <3>1. CASE n \in Readable
      BY <1>1, <1>8, <3>1 DEF Ownership, Written
    <3>2. CASE n \notin Readable
      <4>1. files[n].log = <<>> /\ w.log \in Seq(Message)
        BY <1>1, <1>8, <3>2 DEF Undivided, Readable, Written, TypeOK, TurnState
      <4> QED
        BY <4>1 DEF IsPrefix
    <3> QED
      BY <3>1, <3>2
  <2>5. Store!Save(n)
    BY <1>4, <1>5, <1>6, <2>1, <2>2, <2>3, <2>4, SameNames
       DEF Store!Save, Store!Sole, Stored, Broken
  <2>6. \E f \in Store!Threads : Store!Save(f)
    <3> HIDE DEF n
    <3> QED
      BY <1>1, <2>5, SameNames DEF Store!Save
  <2> QED
    BY <2>6 DEF Store!Next
<1>9. CASE w = Torn
  <2>1. Broken' = Broken \cup {n} /\ w.log = <<>>
    BY <1>1, <1>3, <1>9 DEF Broken, Torn
  <2>2. Store!Lose(n)
    BY <1>4, <1>5, <1>6, <2>1, SameNames DEF Store!Lose, Store!Sole, Stored, Broken
  <2>3. \E f \in Store!Threads : Store!Lose(f)
    <3> HIDE DEF n
    <3> QED
      BY <1>1, <2>2, SameNames DEF Store!Lose
  <2> QED
    BY <2>3 DEF Store!Next
<1>10. CASE w = files[n]
  <2>1. files' = files
    BY <1>1, <1>2, <1>10 DEF TypeOK
  <2> QED
    BY <1>7, <2>1 DEF Stored, Broken
<1>11. w = Written => Broken' = Broken
  BY <1>1, <1>3, <1>5 DEF Broken, Written
<1> QED
  BY <1>2, <1>7, <1>8, <1>9, <1>10, <1>11

(* Where no model's name begins another's, the thread files implement      *)
(* ThreadStore: a thread is of one model, what is stored is finished and   *)
(* continues what was stored, and a torn thread stays out of use           *)
(* (openrouter_thread_store.py:62-160).                                    *)
THEOREM ImplementsThreadStore ==
  ASSUME Extends = {}
  PROVE  Spec => StoreSpec
<1> DEFINE All == TypeOK /\ Counters /\ Ownership /\ Undivided /\ Conversation
<1>1. Init => All
  <2>1. Init => Undivided
    BY IdleType DEF Init, Undivided, Used, NoFile
  <2> QED
    BY <2>1, InitTypes, InitOwned, InitConversation
<1>2. All /\ [Next]_vars => All'
  BY StepTypes, StepOwned, StepUndivided, StepConversation
<1>3. Init => Store!Init
  BY SameNames DEF Init, Store!Init, NoFile
<1>4. All /\ All' /\ [Next]_vars => [Store!Next]_<<Stored, Broken>>
  <2> SUFFICES ASSUME All, All', [Next]_vars
               PROVE  [Store!Next]_<<Stored, Broken>>
    OBVIOUS
  <2>1. CASE files' = files
    BY <2>1 DEF Stored, Broken
  <2>2. CASE SaveThread \/ Fail \/ Kill
    <3>1. StoredThreadsFinished'
      BY DEF Conversation
    <3> QED
      BY <2>2, <3>1, EndStores
  <2> QED
    BY <2>1, <2>2 DEF Next, vars, StartThread, Send, Receive, Answer, ExecuteTool, SchemaTurn
<1> QED
  BY <1>1, <1>2, <1>3, <1>4, PTL DEF Spec, StoreSpec, Store!Spec, Stored, Broken

-----------------------------------------------------------------------------
(* Tools are run for what was sent.                                        *)

(* The arguments after n of the frames of a call.                          *)
Sent(c, n) == [k \in 1..(n - 1) |-> PieceOf(c, k, TRUE)]

(* Some of them: pieces of the call as they were sent, in order.           *)
SomeSent(args, c, n) ==
  /\ \A k \in 1..Len(args) : args[k] = PieceOf(c, args[k].n, TRUE) /\ args[k].n < n
  /\ \A k \in 2..Len(args) : args[k - 1].n < args[k].n

(* Every slot holds some of what its call has sent so far, and all of it   *)
(* unless a frame was lost.                                                *)
SlotsHold ==
  \A c \in Call :
    /\ turn.slots[c].id => turn.frames[c] > 0
    /\ turn.frames[c] > 0 => c <= turn.sent
    /\ SomeSent(turn.slots[c].args, c, turn.frames[c])
    /\ turn.whole \/ "lost" \notin Faults =>
         /\ turn.slots[c].id <=> turn.frames[c] > 0
         /\ turn.slots[c].args = Sent(c, turn.frames[c])

(* The calls that a tool was run for, of n calls.                          *)
Exactly(executed, n) ==
  \A k \in DOMAIN executed :
    /\ executed[k].call <= n
    /\ executed[k].args = WholeCall(executed[k].call).args
    /\ k > 1 => executed[k - 1].call < executed[k].call

Calls(executed) == {executed[k].call : k \in DOMAIN executed}

Delivery ==
  /\ Exactly(turn.executed, turn.sent)
  /\ turn.phase \in {"stream", "tools"} => SlotsHold
  /\ turn.phase = "stream" => turn.executed = <<>>
  /\ turn.phase = "tools" =>
       /\ turn.pending \subseteq 1..turn.sent
       /\ \A c \in Calls(turn.executed) : \A d \in turn.pending : c < d
       /\ turn.whole => Complete /\ Calls(turn.executed) \cup turn.pending = 1..turn.sent

LEMMA SentWhole ==
  ASSUME NEW c \in Call
  PROVE  WholeCall(c) = [id |-> TRUE, args |-> Sent(c, Pieces + 1)]
BY AgentAssumption DEF WholeCall, Sent

LEMMA SentPieces ==
  ASSUME NEW c \in Call, NEW n \in 0..(Pieces + 1)
  PROVE  /\ Sent(c, n) \in Seq(Piece)
         /\ Len(Sent(c, n)) = IF n = 0 THEN 0 ELSE n - 1
         /\ \A k \in 1..(n - 1) : Sent(c, n)[k] = PieceOf(c, k, TRUE)
<1> DEFINE len == IF n = 0 THEN 0 ELSE n - 1
<1>1. len \in Nat /\ 1..(n - 1) = 1..len /\ len <= Pieces /\ Pieces \in Nat
  BY AgentAssumption
<1>2. Sent(c, n) \in [1..len -> Piece]
  <2>1. \A k \in 1..len : PieceOf(c, k, TRUE) \in Piece
    BY <1>1 DEF PieceOf, Piece
  <2> HIDE DEF len
  <2> QED
    BY <1>1, <2>1 DEF Sent
<1>3. Sent(c, n) \in Seq(Piece) /\ Len(Sent(c, n)) = len
  <2> HIDE DEF len
  <2> QED
    BY <1>1, <1>2, SeqDef
<1> QED
  BY <1>3 DEF Sent

LEMMA PieceFields ==
  /\ \A p \in Piece : p.n \in 1..Pieces /\ p.n \in Nat
  /\ \A c \in Call, n \in 1..Pieces : PieceOf(c, n, TRUE) \in Piece
  /\ \A c, n : PieceOf(c, n, TRUE).n = n
BY DEF PieceOf, Piece

LEMMA SentSome ==
  ASSUME NEW c \in Call, NEW n \in 0..(Pieces + 1)
  PROVE  SomeSent(Sent(c, n), c, n)
<1>1. n \in Nat
  BY AgentAssumption
<1>2. /\ Len(Sent(c, n)) = IF n = 0 THEN 0 ELSE n - 1
      /\ \A k \in 1..(n - 1) : Sent(c, n)[k] = PieceOf(c, k, TRUE)
  BY SentPieces
<1>3. \A k \in 1..(n - 1) : Sent(c, n)[k].n = k
  BY <1>2, PieceFields
<1>4. \A k \in 1..Len(Sent(c, n)) : k \in 1..(n - 1) /\ k < n
  BY <1>1, <1>2
<1>5. \A k \in 2..Len(Sent(c, n)) : k \in 1..(n - 1) /\ k - 1 \in 1..(n - 1) /\ k - 1 < k
  BY <1>1, <1>2
<1>6. \A k \in 1..Len(Sent(c, n)) :
        Sent(c, n)[k] = PieceOf(c, Sent(c, n)[k].n, TRUE) /\ Sent(c, n)[k].n < n
  BY <1>2, <1>3, <1>4
<1>7. \A k \in 2..Len(Sent(c, n)) : Sent(c, n)[k - 1].n < Sent(c, n)[k].n
  BY <1>3, <1>5
<1> HIDE DEF Sent
<1> QED
  BY <1>6, <1>7 DEF SomeSent

(* One more piece, or none.                                                *)
LEMMA SomeSentNext ==
  ASSUME NEW c \in Call, NEW n \in 0..Pieces, NEW args \in Seq(Piece), SomeSent(args, c, n)
  PROVE  /\ SomeSent(args, c, n + 1)
         /\ n > 0 => SomeSent(Append(args, PieceOf(c, n, TRUE)), c, n + 1)
<1>1. n \in Nat /\ Len(args) \in Nat /\ \A k \in 1..Len(args) : args[k].n \in Nat
  BY AgentAssumption, PieceFields
<1>2. SomeSent(args, c, n + 1)
  <2>1. \A k \in 1..Len(args) : args[k].n < n => args[k].n < n + 1
    BY <1>1
  <2> QED
    BY <2>1 DEF SomeSent
<1>3. ASSUME n > 0
      PROVE  SomeSent(Append(args, PieceOf(c, n, TRUE)), c, n + 1)
  <2> DEFINE p == PieceOf(c, n, TRUE)
             s == Append(args, p)
  <2>1. p \in Piece /\ p.n = n /\ p = PieceOf(c, p.n, TRUE)
    <3>1. n \in 1..Pieces
      BY <1>1, <1>3, AgentAssumption
    <3> QED
      BY <3>1, PieceFields
  <2>2. /\ Len(s) = Len(args) + 1 /\ s[Len(args) + 1] = p
        /\ \A k \in 1..Len(args) : s[k] = args[k]
    <3> HIDE DEF p
    <3>1. p \in Piece
      BY <2>1
    <3> QED
      BY <3>1, AppendProperties
  <2>3. \A k \in 1..Len(s) : k \in 1..Len(args) \/ k = Len(args) + 1
    <3> HIDE DEF s, p
    <3> QED
      BY <1>1, <2>2
  <2>4. \A k \in 2..Len(s) : k - 1 \in 1..Len(args) /\ (k \in 2..Len(args) \/ k = Len(args) + 1)
    <3> HIDE DEF s, p
    <3> QED
      BY <1>1, <2>2
  <2> HIDE DEF s, p
  <2>5. \A k \in 1..Len(s) : s[k] = PieceOf(c, s[k].n, TRUE) /\ s[k].n < n + 1
    <3>1. \A k \in 1..Len(args) : args[k] = PieceOf(c, args[k].n, TRUE) /\ args[k].n < n + 1
      BY <1>2 DEF SomeSent
    <3>2. p.n < n + 1
      BY <1>1, <2>1
    <3> QED
      BY <2>1, <2>2, <2>3, <3>1, <3>2
  <2>6. \A k \in 2..Len(s) : s[k - 1].n < s[k].n
    <3> SUFFICES ASSUME NEW k \in 2..Len(s) PROVE s[k - 1].n < s[k].n
      OBVIOUS
    <3>1. s[k - 1] = args[k - 1] /\ args[k - 1].n < n
      BY <2>2, <2>4 DEF SomeSent
    <3>2. CASE k = Len(args) + 1
      BY <2>1, <2>2, <3>1, <3>2
    <3>3. CASE k \in 2..Len(args)
      <4>1. s[k] = args[k]
        BY <1>1, <2>2, <3>3
      <4> QED
        BY <3>1, <3>3, <4>1 DEF SomeSent
    <3> QED
      BY <2>4, <3>2, <3>3
  <2>7. SomeSent(s, c, n + 1)
    BY <2>5, <2>6 DEF SomeSent
  <2> QED
    BY <2>7 DEF s, p
<1> QED
  BY <1>2, <1>3

(* Before the first piece there is nothing.                                *)
LEMMA SentNothing ==
  ASSUME NEW c \in Call, NEW n \in {0, 1}
  PROVE  Sent(c, n) = <<>>
<1>1. n \in 0..(Pieces + 1)
  BY AgentAssumption
<1>2. Sent(c, n) \in Seq(Piece) /\ Len(Sent(c, n)) = (IF n = 0 THEN 0 ELSE n - 1)
  BY <1>1, SentPieces
<1>3. Len(Sent(c, n)) = 0
  BY <1>2
<1> QED
  BY <1>2, <1>3

(* The next piece extends what was sent.                                   *)
LEMMA SentNext ==
  ASSUME NEW c \in Call, NEW n \in 1..Pieces
  PROVE  Append(Sent(c, n), PieceOf(c, n, TRUE)) = Sent(c, n + 1)
<1> DEFINE s == Append(Sent(c, n), PieceOf(c, n, TRUE))
<1>1. n \in 0..(Pieces + 1) /\ n + 1 \in 0..(Pieces + 1) /\ n \in Nat /\ n # 0
  BY AgentAssumption
<1>2. /\ Sent(c, n) \in Seq(Piece) /\ Len(Sent(c, n)) = n - 1
      /\ \A k \in 1..(n - 1) : Sent(c, n)[k] = PieceOf(c, k, TRUE)
  BY <1>1, SentPieces
<1>3. /\ Sent(c, n + 1) \in Seq(Piece) /\ Len(Sent(c, n + 1)) = n
      /\ \A k \in 1..n : Sent(c, n + 1)[k] = PieceOf(c, k, TRUE)
  <2> DEFINE m == n + 1
  <2>1. m \in 0..(Pieces + 1) /\ m # 0 /\ m - 1 = n
    BY <1>1
  <2>2. /\ Sent(c, m) \in Seq(Piece) /\ Len(Sent(c, m)) = m - 1
        /\ \A k \in 1..(m - 1) : Sent(c, m)[k] = PieceOf(c, k, TRUE)
    <3> HIDE DEF m
    <3> QED
      BY <2>1, SentPieces
  <2> QED
    BY <2>1, <2>2
<1>4. PieceOf(c, n, TRUE) \in Piece
  BY DEF PieceOf, Piece
<1>5. /\ s \in Seq(Piece) /\ Len(s) = n /\ s[n] = PieceOf(c, n, TRUE)
      /\ \A k \in 1..(n - 1) : s[k] = PieceOf(c, k, TRUE)
  <2> DEFINE t == Sent(c, n)
             p == PieceOf(c, n, TRUE)
  <2>1. /\ Append(t, p) \in Seq(Piece) /\ Len(Append(t, p)) = Len(t) + 1
        /\ \A k \in 1..Len(t) : Append(t, p)[k] = t[k]
        /\ Append(t, p)[Len(t) + 1] = p
    <3> HIDE DEF t, p
    <3> QED
      BY <1>2, <1>4, AppendProperties DEF t, p
  <2>2. Len(t) + 1 = n
    BY <1>1, <1>2
  <2> HIDE DEF t, p
  <2> QED
    BY <1>2, <2>1, <2>2 DEF t, p
<1>6. \A k \in 1..Len(s) : s[k] = Sent(c, n + 1)[k]
  <2> HIDE DEF s
  <2>1. \A k \in 1..n : k = n \/ k \in 1..(n - 1)
    BY <1>1
  <2> QED
    BY <1>3, <1>5, <2>1
<1>7. s = Sent(c, n + 1)
  <2> HIDE DEF s
  <2> QED
    BY <1>3, <1>5, <1>6, SeqEqual
<1> QED
  BY <1>7

(* Arguments that a tool can use are all that the call sends, and those are*)
(* usable.                                                                 *)
LEMMA ParsesWhole ==
  ASSUME NEW c \in Call, NEW n \in 0..(Pieces + 1)
  PROVE  /\ n = Pieces + 1 => Parses(Sent(c, n)) = {TRUE}
         /\ TRUE \in Parses(Sent(c, n)) => n = Pieces + 1
<1> DEFINE args == Sent(c, n)
<1>1. Pieces \in Nat /\ Pieces >= 1 /\ n \in Nat
  BY AgentAssumption
<1>2. args \in Seq(Piece) /\ Len(args) = (IF n = 0 THEN 0 ELSE n - 1)
      /\ \A k \in 1..(n - 1) : args[k] = PieceOf(c, k, TRUE)
  BY SentPieces
<1>3. CASE n \in {0, 1}
  <2>1. Len(args) = 0
    BY <1>2, <1>3
  <2>2. args = <<>>
    BY <1>2, <2>1
  <2>3. TRUE \notin Parses(args)
    BY <2>2 DEF Parses
  <2>4. n # Pieces + 1
    BY <1>1, <1>3
  <2> QED
    BY <2>3, <2>4
<1>4. CASE n \notin {0, 1}
  <2>1. n - 1 \in 1..Pieces /\ 1 \in 1..(n - 1) /\ n - 1 \in 1..(n - 1)
    BY <1>1, <1>4
  <2>2. Len(args) = n - 1 /\ args[1] = PieceOf(c, 1, TRUE)
        /\ args[n - 1] = PieceOf(c, n - 1, TRUE)
    BY <1>2, <1>4, <2>1
  <2>3. args # <<>> /\ args[1].n = 1 /\ Last(args).n = n - 1
    <3> HIDE DEF args
    <3> QED
      BY <1>2, <2>1, <2>2 DEF PieceOf, Last
  <2>4. CASE n = Pieces + 1
    <3>1. Len(args) = Pieces /\ Last(args).n = Pieces
      BY <1>1, <2>2, <2>3, <2>4
    <3>2. Parses(args) = {TRUE}
      <4> HIDE DEF args
      <4> QED
        BY <2>3, <3>1, Zenon DEF Parses
    <3> QED
      BY <2>4, <3>2
  <2>5. CASE n # Pieces + 1
    <3>1. Last(args).n # Pieces
      BY <1>1, <2>3, <2>5
    <3>2. TRUE \notin Parses(args)
      <4> HIDE DEF args
      <4> QED
        BY <3>1 DEF Parses
    <3> QED
      BY <2>5, <3>2
  <2> QED
    BY <2>4, <2>5
<1> QED
  BY <1>3, <1>4

(* Of two pieces none can be lost between the first and the last.          *)
LEMMA FirstAndLast ==
  ASSUME Pieces <= 2, NEW c \in Call, NEW n \in 0..(Pieces + 1), NEW args \in Seq(Piece),
         SomeSent(args, c, n), TRUE \in Parses(args)
  PROVE  args = WholeCall(c).args
<1> DEFINE len == Len(args)
<1>1. Pieces \in {1, 2}
  BY AgentAssumption
<1>2. args # <<>> /\ args[1].n = 1 /\ args[len].n = Pieces
  BY DEF Parses, Last
<1>3. len \in Nat /\ len >= 1
  BY <1>2
<1>4. \A k \in 1..len : args[k].n \in 1..Pieces /\ args[k] = PieceOf(c, args[k].n, TRUE)
  <2>1. \A k \in 1..len : args[k] \in Piece
    OBVIOUS
  <2>2. \A k \in 1..len : args[k] = PieceOf(c, args[k].n, TRUE)
    BY DEF SomeSent
  <2> QED
    BY <2>1, <2>2, PieceFields, Zenon
<1>5. \A k \in 2..len : args[k - 1].n < args[k].n
  BY DEF SomeSent
<1> HIDE DEF len
<1>6. len = Pieces
  <2>1. len > 1 => args[len - 1].n < Pieces /\ len - 1 \in 1..len
    BY <1>2, <1>3, <1>5
  <2>2. len > 2 => args[len - 2].n < args[len - 1].n /\ len - 2 \in 1..len
    <3>1. len > 2 => len - 1 \in 2..len /\ (len - 1) - 1 = len - 2 /\ len - 2 \in 1..len
      BY <1>3
    <3> QED
      BY <1>5, <3>1
  <2>3. len > 1 => args[len - 1].n \in 1..Pieces
    BY <1>4, <2>1
  <2>4. len > 2 => args[len - 2].n \in 1..Pieces
    BY <1>4, <2>2
  <2>5. len = 1 => Pieces = 1
    BY <1>2
  <2>6. len > 1 => Pieces = 2 /\ args[len - 1].n = 1
    BY <1>1, <2>1, <2>3
  <2>7. ~ (len > 2)
    BY <1>1, <1>3, <2>2, <2>4, <2>6
  <2> QED
    BY <1>3, <2>5, <2>6, <2>7
<1>7. \A k \in 1..Pieces : args[k] = PieceOf(c, k, TRUE)
  <2>1. 1 \in 1..len /\ len \in 1..len
    BY <1>3
  <2>2. args[1] = PieceOf(c, 1, TRUE)
    BY <1>2, <1>4, <2>1
  <2>3. args[len] = PieceOf(c, Pieces, TRUE)
    BY <1>2, <1>4, <2>1
  <2>4. \A k \in 1..Pieces : k = 1 \/ k = Pieces
    BY <1>1
  <2> QED
    BY <1>6, <2>2, <2>3, <2>4
<1>8. /\ WholeCall(c).args = Sent(c, Pieces + 1)
      /\ Pieces + 1 \in 0..(Pieces + 1) /\ (Pieces + 1) - 1 = Pieces /\ Pieces + 1 # 0
  BY <1>1, SentWhole
<1> DEFINE m == Pieces + 1
<1>9. m \in 0..(Pieces + 1) /\ m - 1 = Pieces /\ m # 0
  BY <1>8
<1>10. /\ Sent(c, m) \in Seq(Piece) /\ Len(Sent(c, m)) = Pieces
       /\ \A k \in 1..Pieces : Sent(c, m)[k] = PieceOf(c, k, TRUE)
  <2> HIDE DEF m
  <2> QED
    BY <1>9, SentPieces
<1>11. args = Sent(c, m)
  <2>1. Len(args) = Pieces
    BY <1>6 DEF len
  <2> HIDE DEF m
  <2> QED
    BY <1>7, <1>10, <2>1, SeqEqual
<1> QED
  BY <1>8, <1>11

(* The frames that arrive are enough to tell a call that lost one.         *)
LossIsSeen == "cut" \notin Faults /\ ("lost" \in Faults => Pieces <= 2)

LEMMA SendDelivers ==
  ASSUME TypeOK, Delivery, NEW n \in 0..MaxCalls, Send(n)
  PROVE  Delivery'
<1>1. turn'.phase = "stream" /\ turn'.executed = <<>> /\ turn'.sent = n
      /\ turn'.frames = [c \in Call |-> IF turn.stream \/ c > n THEN 0 ELSE Pieces + 1]
      /\ turn'.slots = [c \in Call |-> IF turn.stream \/ c > n THEN NoSlot ELSE WholeCall(c)]
  BY DEF Send, TypeOK, TurnState
<1>2. ASSUME NEW c \in Call
      PROVE  /\ turn'.slots[c].id <=> turn'.frames[c] > 0
             /\ turn'.frames[c] > 0 => c <= n
             /\ turn'.slots[c].args = Sent(c, turn'.frames[c])
             /\ turn'.frames[c] \in 0..(Pieces + 1)
  <2>1. CASE turn.stream \/ c > n
    <3>1. turn'.frames[c] = 0 /\ turn'.slots[c] = NoSlot
      BY <1>1, <2>1
    <3>2. Sent(c, 0) = <<>> /\ 0 \in 0..(Pieces + 1)
      BY SentNothing, AgentAssumption
    <3> QED
      BY <3>1, <3>2 DEF NoSlot
  <2>2. CASE ~(turn.stream \/ c > n)
    <3>1. turn'.frames[c] = Pieces + 1 /\ turn'.slots[c] = WholeCall(c)
      BY <1>1, <2>2
    <3>2. WholeCall(c).id = TRUE /\ WholeCall(c).args = Sent(c, Pieces + 1)
      BY SentWhole
    <3>3. c <= n /\ Pieces + 1 > 0 /\ Pieces + 1 \in 0..(Pieces + 1)
      BY <2>2, AgentAssumption DEF Call
    <3> QED
      BY <3>1, <3>2, <3>3
  <2> QED
    BY <2>1, <2>2
<1>3. SlotsHold'
  BY <1>1, <1>2, SentSome DEF SlotsHold
<1>4. Exactly(<<>>, n)
  BY DEF Exactly
<1> QED
  BY <1>1, <1>3, <1>4 DEF Delivery

LEMMA ReceiveDelivers ==
  ASSUME TypeOK, Delivery, NEW c \in Call, NEW fate \in {"whole", "lost"},
         fate = "lost" => "lost" \in Faults, Receive(c, fate)
  PROVE  Delivery'
<1> DEFINE n == turn.frames[c]
           slot == turn.slots[c]
           piece == PieceOf(c, n, TRUE)
<1>1. turn.phase = "stream" /\ c <= turn.sent /\ n \in 0..Pieces
      /\ turn.frames \in [Call -> 0..(Pieces + 1)] /\ turn.slots \in [Call -> Slot]
  BY AgentAssumption DEF Receive, TypeOK, TurnState
<1>2. turn'.phase = "stream" /\ turn'.executed = turn.executed /\ turn'.sent = turn.sent
      /\ turn'.frames = [turn.frames EXCEPT ![c] = n + 1]
      /\ turn'.slots = (IF fate = "lost" THEN turn.slots ELSE MergeDelta(turn.slots, c, n, TRUE))
      /\ turn'.whole = (turn.whole /\ fate = "whole")
  BY <1>1 DEF Receive, TypeOK, TurnState
<1>3. SlotsHold
  BY <1>1 DEF Delivery
<1>4. \A d \in Call \ {c} : turn'.frames[d] = turn.frames[d] /\ turn'.slots[d] = turn.slots[d]
  BY <1>1, <1>2 DEF MergeDelta
<1>5. turn'.frames[c] = n + 1 /\ n + 1 > 0
  BY <1>1, <1>2
<1>6. slot \in Slot /\ slot.args \in Seq(Piece) /\ slot.id \in BOOLEAN
      /\ SomeSent(slot.args, c, n)
  BY <1>1, <1>3 DEF SlotsHold, Slot
<1>7. turn'.slots[c].args = IF fate = "lost" \/ n = 0 THEN slot.args ELSE Append(slot.args, piece)
  <2>1. CASE fate = "lost"
    BY <1>2, <2>1
  <2>2. CASE fate # "lost" /\ n = 0
    BY <1>1, <1>2, <1>6, <2>2 DEF MergeDelta, Slot
  <2>3. CASE fate # "lost" /\ n # 0
    <3> DEFINE args == Append(slot.args, piece)
    <3>1. turn'.slots[c] = [slot EXCEPT !.args = args]
      <4> HIDE DEF n
      <4> QED
        BY <1>1, <1>2, <2>3 DEF MergeDelta
    <3> HIDE DEF args
    <3>2. turn'.slots[c].args = args
      BY <1>6, <3>1 DEF Slot
    <3> QED
      BY <2>3, <3>2 DEF args
  <2> QED
    BY <2>1, <2>2, <2>3
<1>8. fate = "whole" => turn'.slots[c].id = (n = 0 \/ slot.id)
  <2>1. CASE n = 0
    <3>1. fate = "whole" => turn'.slots[c] = [slot EXCEPT !.id = TRUE]
      BY <1>1, <1>2, <2>1 DEF MergeDelta
    <3> HIDE DEF slot
    <3> QED
      BY <1>6, <2>1, <3>1 DEF Slot
  <2>2. CASE n # 0
    <3> HIDE DEF n
    <3> QED
      BY <1>1, <1>2, <1>6, <2>2 DEF MergeDelta, Slot
  <2> QED
    BY <2>1, <2>2
<1>9. SomeSent(turn'.slots[c].args, c, n + 1)
  <2>1. SomeSent(slot.args, c, n + 1) /\ (n > 0 => SomeSent(Append(slot.args, piece), c, n + 1))
    <3> HIDE DEF n, slot
    <3> QED
      BY <1>1, <1>6, SomeSentNext DEF n, slot
  <2> HIDE DEF slot, piece
  <2> QED
    BY <1>1, <1>7, <2>1
<1>10. ASSUME turn'.whole \/ "lost" \notin Faults
       PROVE  turn'.slots[c].id = TRUE /\ turn'.slots[c].args = Sent(c, n + 1)
  <2>1. fate = "whole" /\ (turn.whole \/ "lost" \notin Faults)
    BY <1>2, <1>10
  <2>2. (slot.id <=> n > 0) /\ slot.args = Sent(c, n)
    BY <1>3, <2>1 DEF SlotsHold
  <2>3. CASE n = 0
    <3>1. Sent(c, 0) = <<>> /\ Sent(c, 1) = <<>> /\ n + 1 = 1
      BY <2>3, SentNothing
    <3>2. turn'.slots[c].args = slot.args /\ turn'.slots[c].id = TRUE
      BY <1>7, <1>8, <2>1, <2>3
    <3> HIDE DEF n, slot
    <3> QED
      BY <2>2, <2>3, <3>1, <3>2
  <2>4. CASE n # 0
    <3>1. n \in 1..Pieces /\ n > 0
      BY <1>1, <2>4
    <3>2. Append(Sent(c, n), PieceOf(c, n, TRUE)) = Sent(c, n + 1)
      <4> HIDE DEF n
      <4> QED
        BY <3>1, SentNext
    <3> QED
      BY <1>6, <1>7, <1>8, <2>1, <2>2, <2>4, <3>1, <3>2
  <2> QED
    BY <2>3, <2>4
<1>11. SlotsHold'
  <2> HIDE DEF n
  <2>1. ASSUME NEW d \in Call
        PROVE  /\ turn'.slots[d].id => turn'.frames[d] > 0
               /\ turn'.frames[d] > 0 => d <= turn'.sent
               /\ SomeSent(turn'.slots[d].args, d, turn'.frames[d])
               /\ turn'.whole \/ "lost" \notin Faults =>
                    /\ turn'.slots[d].id <=> turn'.frames[d] > 0
                    /\ turn'.slots[d].args = Sent(d, turn'.frames[d])
    <3>1. CASE d = c
      BY <1>1, <1>2, <1>5, <1>9, <1>10, <3>1
    <3>2. CASE d # c
      <4>1. turn'.whole \/ "lost" \notin Faults => turn.whole \/ "lost" \notin Faults
        BY <1>2
      <4> QED
        BY <1>2, <1>3, <1>4, <3>2, <4>1 DEF SlotsHold
    <3> QED
      BY <3>1, <3>2
  <2> QED
    BY <2>1 DEF SlotsHold
<1> QED
  BY <1>1, <1>2, <1>11 DEF Delivery

LEMMA AnswerDelivers ==
  ASSUME TypeOK, Delivery, Answer
  PROVE  Delivery'
<1> DEFINE calls == ToolCallsList
           t == Answered(calls)
<1>1. turn.phase = "stream" /\ SlotsHold /\ turn.executed = <<>> /\ turn.sent \in Nat
  BY AgentAssumption DEF Answer, Delivery, TypeOK, TurnState
<1>2. calls \in SUBSET Call
  BY DEF ToolCallsList
<1>3. t \in TurnState
  BY <1>2, AnsweredType
<1>4. turn' = [t EXCEPT !.whole = t.whole /\ Complete]
  BY DEF Answer
<1>5. turn'.phase = t.phase /\ turn'.pending = t.pending /\ turn'.executed = t.executed
      /\ turn'.sent = t.sent /\ turn'.frames = t.frames /\ turn'.slots = t.slots
      /\ (turn'.whole => t.whole /\ Complete)
  BY <1>3, <1>4 DEF TurnState
<1>6. t.executed = <<>> /\ t.sent = turn.sent /\ t.frames = turn.frames /\ t.slots = turn.slots
      /\ t.whole = turn.whole
  BY <1>1 DEF Answered, EndOfLoop, TypeOK, TurnState
<1>7. t.phase \in {"schema", "save", "tools"} /\ (t.phase = "tools" => t.pending = calls)
  BY DEF Answered, EndOfLoop, TypeOK, TurnState
<1>8. SlotsHold' /\ (Complete' <=> Complete)
  BY <1>1, <1>5, <1>6 DEF SlotsHold, Complete
<1>9. /\ \A c \in Call : c \in calls => turn.frames[c] > 0
      /\ turn.whole => \A c \in Call : c \in calls <=> turn.frames[c] > 0
  BY <1>1 DEF SlotsHold, ToolCallsList
<1>10. calls \subseteq 1..turn.sent
  <2>1. \A c \in calls : c \in Nat /\ c >= 1 /\ c <= turn.sent
    <3> HIDE DEF calls
    <3>1. \A c \in calls : c \in Call /\ turn.frames[c] > 0
      BY <1>2, <1>9
    <3> QED
      BY <1>1, <3>1, AgentAssumption DEF SlotsHold, Call
  <2> HIDE DEF calls
  <2> QED
    BY <1>1, <2>1
<1>11. turn.whole /\ Complete => calls = 1..turn.sent
  <2>1. 1..turn.sent \subseteq Call
    BY AgentAssumption DEF TypeOK, TurnState, Call
  <2>2. ASSUME turn.whole, Complete, NEW c \in 1..turn.sent
        PROVE  c \in calls
    <3>1. turn.frames[c] = Pieces + 1 /\ Pieces + 1 > 0
      BY <2>1, <2>2, AgentAssumption DEF Complete
    <3> QED
      BY <1>9, <2>1, <2>2, <3>1
  <2> HIDE DEF calls
  <2> QED
    BY <1>10, <2>2
<1>12. Calls(<<>>) = {} /\ Exactly(<<>>, turn.sent)
  BY DEF Calls, Exactly
<1>13. Exactly(turn'.executed, turn'.sent)
  BY <1>5, <1>6, <1>12
<1>14. turn'.phase = "tools" =>
         /\ turn'.pending \subseteq 1..turn'.sent
         /\ \A c \in Calls(turn'.executed) : \A d \in turn'.pending : c < d
         /\ turn'.whole => Complete' /\ Calls(turn'.executed) \cup turn'.pending = 1..turn'.sent
  <2> HIDE DEF calls, t
  <2> QED
    BY <1>5, <1>6, <1>7, <1>8, <1>10, <1>11, <1>12
<1>15. turn'.phase # "stream"
  BY <1>5, <1>7
<1> QED
  BY <1>8, <1>13, <1>14, <1>15 DEF Delivery

LEMMA ExecuteDelivers ==
  ASSUME LossIsSeen, TypeOK, Counters, Delivery, ExecuteTool
  PROVE  Delivery'
<1> DEFINE c == FirstPending
           args == turn.slots[c].args
           e == [call |-> c, args |-> args]
           ran == Append(turn.executed, e)
           n == Len(turn.executed)
           T(parsed) ==
             [turn EXCEPT
                !.pending = turn.pending \ {c}, !.log = Append(turn.log, ToolMessage(c)),
                !.executed = IF parsed THEN ran ELSE turn.executed]
<1>1. turn.phase = "tools" /\ SlotsHold /\ Exactly(turn.executed, turn.sent)
      /\ turn.pending \subseteq 1..turn.sent
      /\ (\A b \in Calls(turn.executed) : \A d \in turn.pending : b < d)
      /\ (turn.whole => Complete /\ Calls(turn.executed) \cup turn.pending = 1..turn.sent)
  BY DEF ExecuteTool, Delivery
<1>2. PICK parsed \in Parses(args) :
        turn' = IF T(parsed).pending = {} THEN NextIteration(T(parsed)) ELSE T(parsed)
  BY DEF ExecuteTool
<1>3. c \in turn.pending /\ c \in Call /\ \A d \in turn.pending : c <= d
  BY <1>1, FirstOfPending DEF Counters, TypeOK, TurnState
<1>4. turn.frames[c] \in 0..(Pieces + 1) /\ SomeSent(args, c, turn.frames[c])
      /\ (turn.whole \/ "lost" \notin Faults => args = Sent(c, turn.frames[c]))
      /\ turn.sent \in Nat /\ c \in Nat
  BY <1>1, <1>3, AgentAssumption DEF SlotsHold, TypeOK, TurnState, Call
<1>5. args \in Seq(Piece) /\ turn.executed \in Seq([call : Call, args : Seq(Piece)])
  BY <1>3 DEF TypeOK, TurnState, Slot
<1>6. T(parsed).executed = (IF parsed THEN ran ELSE turn.executed)
      /\ T(parsed).pending = turn.pending \ {c} /\ T(parsed).sent = turn.sent
      /\ T(parsed).frames = turn.frames /\ T(parsed).slots = turn.slots
      /\ T(parsed).whole = turn.whole /\ T(parsed).phase = "tools"
  BY <1>1 DEF TypeOK, TurnState
<1>7. turn'.executed = (IF parsed THEN ran ELSE turn.executed)
      /\ turn'.pending = turn.pending \ {c} /\ turn'.sent = turn.sent
      /\ turn'.frames = turn.frames /\ turn'.slots = turn.slots
      /\ turn'.whole = turn.whole /\ turn'.phase \in {"tools", "request"}
  <2>1. turn' = T(parsed) \/ turn' = NextIteration(T(parsed))
    BY <1>2
  <2>2. CASE turn' = NextIteration(T(parsed))
    BY <1>6, <2>2 DEF NextIteration, TypeOK, TurnState
  <2> HIDE DEF T
  <2> QED
    BY <1>6, <2>1, <2>2
<1>8. (parsed => args = WholeCall(c).args) /\ (turn.whole => parsed)
  <2> DEFINE m == turn.frames[c]
  <2>1. parsed \in BOOLEAN /\ parsed \in Parses(args)
    BY <1>2 DEF Parses
  <2>2. ASSUME turn.whole \/ "lost" \notin Faults
        PROVE  /\ m = Pieces + 1 => Parses(args) = {TRUE}
               /\ TRUE \in Parses(args) => args = WholeCall(c).args
    <3>1. args = Sent(c, m)
      BY <1>4, <2>2
    <3> HIDE DEF m, args, c
    <3>2. /\ m = Pieces + 1 => Parses(Sent(c, m)) = {TRUE}
          /\ TRUE \in Parses(Sent(c, m)) => m = Pieces + 1
      BY <1>3, <1>4, ParsesWhole DEF m
    <3>3. WholeCall(c).args = Sent(c, Pieces + 1)
      BY <1>3, SentWhole
    <3> QED
      BY <3>1, <3>2, <3>3
  <2>3. ASSUME "lost" \in Faults, TRUE \in Parses(args)
        PROVE  args = WholeCall(c).args
    <3> HIDE DEF args, c
    <3> QED
      BY <1>3, <1>4, <1>5, <2>3, FirstAndLast DEF LossIsSeen
  <2>4. turn.whole => m = Pieces + 1
    BY <1>1, <1>3, <1>4 DEF Complete
  <2> HIDE DEF args, c, m
  <2> QED
    BY <2>1, <2>2, <2>3, <2>4
<1>9. DOMAIN ran = 1..(n + 1) /\ ran[n + 1] = e /\ n \in Nat
      /\ DOMAIN turn.executed = 1..n /\ \A k \in 1..n : ran[k] = turn.executed[k]
  <2>1. e \in [call : Call, args : Seq(Piece)]
    BY <1>3, <1>5
  <2> HIDE DEF e
  <2>2. Len(ran) = n + 1 /\ ran \in Seq([call : Call, args : Seq(Piece)])
        /\ ran[n + 1] = e /\ \A k \in 1..n : ran[k] = turn.executed[k]
    BY <1>5, <2>1, AppendProperties
  <2> QED
    BY <1>5, <2>2, LenProperties
<1>10. parsed => Exactly(ran, turn.sent)
  <2> SUFFICES ASSUME parsed PROVE Exactly(ran, turn.sent)
    OBVIOUS
  <2>1. args = WholeCall(c).args
    BY <1>8
  <2>2. e.call = c /\ e.args = args
    OBVIOUS
  <2>3. c <= turn.sent
    BY <1>1, <1>3, <1>4
  <2>4. \A k \in 1..n : turn.executed[k].call < c
    <3>1. \A k \in 1..n : turn.executed[k].call \in Calls(turn.executed)
      BY <1>9 DEF Calls
    <3> HIDE DEF c
    <3> QED
      BY <1>1, <1>3, <3>1
  <2>5. ASSUME NEW k \in DOMAIN ran
        PROVE  /\ ran[k].call <= turn.sent
               /\ ran[k].args = WholeCall(ran[k].call).args
               /\ k > 1 => ran[k - 1].call < ran[k].call
    <3> HIDE DEF ran, n, e, c, args
    <3>1. CASE k = n + 1
      <4>1. k > 1 => k - 1 \in 1..n
        BY <1>9, <3>1
      <4> QED
        BY <1>9, <2>1, <2>2, <2>3, <2>4, <3>1, <4>1
    <3>2. CASE k # n + 1
      <4>1. k \in 1..n /\ (k > 1 => k - 1 \in 1..n)
        BY <1>9, <3>2
      <4> QED
        BY <1>1, <1>9, <4>1 DEF Exactly
    <3> QED
      BY <3>1, <3>2
  <2> QED
    BY <2>5 DEF Exactly
<1>11. Calls(ran) = Calls(turn.executed) \cup {c}
  <2>1. e.call = c
    OBVIOUS
  <2>2. 1..(n + 1) = (1..n) \cup {n + 1}
    BY <1>9
  <2> HIDE DEF ran, n, e, c, args
  <2> QED
    BY <1>9, <2>1, <2>2 DEF Calls
<1>12. \A d \in turn.pending \ {c} : c < d
  <2>1. \A d \in turn.pending : d \in Nat
    BY <1>1
  <2> HIDE DEF c
  <2> QED
    BY <1>3, <1>4, <2>1
<1>13. Exactly(turn'.executed, turn'.sent)
  <2> HIDE DEF ran
  <2> QED
    BY <1>1, <1>7, <1>10
<1>14. \A b \in Calls(turn'.executed) : \A d \in turn'.pending : b < d
  <2>1. Calls(turn'.executed) \subseteq Calls(turn.executed) \cup {c}
    <3> HIDE DEF ran, c
    <3> QED
      BY <1>7, <1>11
  <2> HIDE DEF ran, c
  <2> QED
    BY <1>1, <1>7, <1>12, <2>1
<1>15. turn.whole => Calls(turn'.executed) \cup turn'.pending = 1..turn.sent
  <2>1. turn.whole => parsed
    BY <1>8
  <2> HIDE DEF ran, c
  <2>2. turn.whole => Calls(turn'.executed) = Calls(turn.executed) \cup {c}
    BY <1>7, <1>11, <2>1
  <2> QED
    BY <1>1, <1>3, <1>7, <2>2
<1>16. SlotsHold' /\ (Complete' <=> Complete)
  BY <1>1, <1>7 DEF SlotsHold, Complete
<1> HIDE DEF ran, c
<1> QED
  BY <1>1, <1>7, <1>13, <1>14, <1>15, <1>16 DEF Delivery

LEMMA OtherDelivers ==
  ASSUME TypeOK, Delivery,
         \/ UNCHANGED vars
         \/ \E m \in Models : \E structured, resume \in BOOLEAN : \E stream \in Streams :
              StartThread(m, structured, stream, resume)
         \/ SchemaTurn \/ SaveThread \/ Fail \/ Kill
  PROVE  Delivery'
<1>1. Exactly(<<>>, 0)
  BY DEF Exactly
<1>2. Idle.executed = <<>> /\ Idle.sent = 0 /\ Idle \in TurnState
  BY IdleType DEF Idle
<1>3. CASE UNCHANGED vars
  BY <1>3 DEF vars, Delivery, SlotsHold, Complete
<1>4. CASE \E m \in Models : \E structured, resume \in BOOLEAN : \E stream \in Streams :
             StartThread(m, structured, stream, resume)
  <2>1. turn'.phase = "request" /\ turn'.executed = <<>> /\ turn'.sent = 0
    BY <1>2, <1>4 DEF StartThread, TurnState
  <2> QED
    BY <1>1, <2>1 DEF Delivery
<1>5. CASE SchemaTurn
  <2>1. turn'.phase = "save" /\ turn'.executed = turn.executed /\ turn'.sent = turn.sent
    BY <1>5 DEF SchemaTurn, TypeOK, TurnState
  <2> QED
    BY <2>1 DEF Delivery
<1>6. CASE SaveThread \/ Fail \/ Kill
  <2>1. turn' = Idle
    BY <1>6 DEF SaveThread, Fail, Kill
  <2> QED
    BY <1>1, <1>2, <2>1, IdleType DEF Delivery
<1> QED
  BY <1>3, <1>4, <1>5, <1>6

LEMMA StepDelivers ==
  ASSUME LossIsSeen, TypeOK, Counters, Delivery, [Next]_vars
  PROVE  Delivery'
<1>1. CASE \E c \in Call : \E fate \in {"whole"} \cup (Faults \cap {"lost", "cut"}) :
             Receive(c, fate)
  BY <1>1, ReceiveDelivers DEF LossIsSeen
<1>2. CASE \E n \in 0..MaxCalls : Send(n)
  BY <1>2, SendDelivers
<1>3. CASE Answer \/ ExecuteTool
  BY <1>3, AnswerDelivers, ExecuteDelivers
<1> QED
  BY <1>1, <1>2, <1>3, OtherDelivers DEF Next

(* As long as no character is cut, a tool is run with what the model sent  *)
(* for that call, calls are run once and by index, and a whole answer is   *)
(* run whole, however many calls there are and however their deltas        *)
(* interleave; and frames may be lost, if arguments come in two pieces at  *)
(* most (openrouter_stream.py:317-355, openrouter_client.py:201).          *)
THEOREM ExecutedCorrect ==
  ASSUME "cut" \notin Faults, "lost" \in Faults => Pieces <= 2
  PROVE  Spec => []ExecutedAsSent
<1>1. Init => TypeOK /\ Counters /\ Delivery
  <2>1. ASSUME Init
        PROVE  Delivery
    BY <2>1, IdleType DEF Init, Idle, Delivery, Exactly
  <2> QED
    BY <2>1, InitTypes
<1>2. TypeOK /\ Counters /\ Delivery /\ [Next]_vars => TypeOK' /\ Counters' /\ Delivery'
  BY StepTypes, StepDelivers DEF LossIsSeen
<1>3. Delivery => ExecutedAsSent
  BY DEF Delivery, ExecutedAsSent, Exactly, Calls
<1> QED
  BY <1>1, <1>2, <1>3, PTL DEF Spec
=============================================================================
