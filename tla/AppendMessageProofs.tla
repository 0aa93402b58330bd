-------------------------- MODULE AppendMessageProofs --------------------------
(* Theorems about AppendMessage and about SqlTx, the transactions of db.ts    *)
(* that it relies on, for every value of their constants.                     *)
EXTENDS AppendMessage, SqlTx, SequenceTheorems, FiniteSetTheorems, TLAPS

(* The event lists a transaction sets out to emit. *)
LEMMA EventLists ==
  ASSUME NEW S, NEW x \in S, NEW y \in S
  PROVE  <<x>> \in Seq(S) /\ <<x, y>> \in Seq(S)
  <1>1. <<x>> \in [1 .. 1 -> S] /\ <<x, y>> \in [1 .. 2 -> S]
    OBVIOUS
  <1> QED BY <1>1, SeqDef

(***************************************************************************)
(* The type invariant: one step per action.                                *)
(***************************************************************************)
LEMMA TypeInit == Init => TypeOK
  BY GrantsAssumption, RequestsAssumption
     DEF Init, TypeOK, PCs, Capabilities, Append0, Invoke, Answers, Log!Unanswered

(* The steps before the transaction. *)
LEMMA TypeCheck ==
  ASSUME TypeOK, NEW c \in Calls,
         \/ Start(c) \/ CheckGranted(c) \/ CheckDenied(c) \/ CheckAsks(c) \/ OpenRequest(c)
         \/ LookupFinds(c) \/ LookupMisses(c)
  PROVE  TypeOK'
  <1> USE DEF TypeOK, Goto, PCs, tables, handler
  <1>1. CASE Start(c)
    BY <1>1 DEF Start, Requests
  <1>2. CASE CheckGranted(c)
    BY <1>2 DEF CheckGranted, Capabilities
  <1>3. CASE CheckDenied(c)
    BY <1>3 DEF CheckDenied, Answer, Answers, Log!Failed, Log!Failures
  <1>4. CASE CheckAsks(c)
    BY <1>4 DEF CheckAsks
  <1>5. CASE OpenRequest(c)
    <2>1. <<"permission_request.created">> \in Seq(EventTypes)
      BY EventLists DEF EventTypes
    <2>2. todo' \in [Calls -> Seq(EventTypes)]
      BY <1>5, <2>1 DEF OpenRequest
    <2> QED BY <1>5, <2>2 DEF OpenRequest
  <1>6. CASE LookupFinds(c)
    <2>1. PICK m \in Recorded(c) :
             Answer(c, [kind |-> "ok", seq |-> m.seq, idempotent |-> TRUE])
      BY <1>6 DEF LookupFinds
    <2>2. m.seq \in Nat
      BY DEF Recorded
    <2>3. answer' \in [Calls -> Answers]
      BY <2>1, <2>2 DEF Answer, Answers
    <2> QED BY <1>6, <2>3 DEF LookupFinds
  <1>7. CASE LookupMisses(c)
    BY <1>7 DEF LookupMisses
  <1> QED BY <1>1, <1>2, <1>3, <1>4, <1>5, <1>6, <1>7

(* The steps that charge grants. *)
LEMMA TypeCharge ==
  ASSUME TypeOK, NEW c \in Calls,
         \/ ScopePays(c) \/ PickGrant(c) \/ NothingToPick(c) \/ Charge(c) \/ ChargeLast(c)
  PROVE  TypeOK'
  <1> USE DEF TypeOK, Goto, PCs, tables, handler
  <1>1. CASE ScopePays(c)
    BY <1>1 DEF ScopePays, Advance, Capabilities
  <1>2. CASE PickGrant(c)
    BY <1>2 DEF PickGrant
  <1>3. CASE NothingToPick(c)
    BY <1>3 DEF NothingToPick, Rollback, Answer, Answers, Log!Failed, Log!Failures
  <1>4. CASE Charge(c)
    BY <1>4 DEF Charge, Use, Advance, Capabilities
  <1>5. CASE ChargeLast(c)
    <2>1. <<"grant.revoked">> \in Seq(EventTypes)
      BY EventLists DEF EventTypes
    <2>2. todo' \in [Calls -> Seq(EventTypes)]
      BY <1>5, <2>1 DEF ChargeLast
    <2> QED BY <1>5, <2>2 DEF ChargeLast, Use
  <1> QED BY <1>1, <1>2, <1>3, <1>4, <1>5

(* The steps of nextSeqTx and of the INSERT. *)
LEMMA TypeInsert ==
  ASSUME TypeOK, NEW c \in Calls,
         \/ ReadCounter(c) \/ BumpCounter(c) \/ CounterConflict(c)
         \/ InsertMessage(c) \/ InsertConflict(c)
  PROVE  TypeOK'
  <1> USE DEF TypeOK, Goto, PCs, tables, handler
  <1>1. CASE ReadCounter(c)
    <2>1. StreamOf(c) \in Streams
      BY <1>1, RequestsAssumption DEF ReadCounter, StreamOf
    <2> QED BY <1>1, <2>1 DEF ReadCounter
  <1>2. CASE BumpCounter(c)
    BY <1>2 DEF BumpCounter
  <1>3. CASE CounterConflict(c)
    BY <1>3 DEF CounterConflict, Rollback, Answer, Answers, Log!Failed, Log!Failures
  <1>4. CASE InsertMessage(c)
    <2>1. <<"message.appended">> \in Seq(EventTypes)
          /\ <<"message.appended", "command.invoked">> \in Seq(EventTypes)
      BY EventLists DEF EventTypes
    <2>2. todo' \in [Calls -> Seq(EventTypes)]
      BY <1>4, <2>1 DEF InsertMessage
    <2> QED BY <1>4, <2>2 DEF InsertMessage
  <1>5. CASE InsertConflict(c)
    BY <1>5 DEF InsertConflict, Rollback, Answer, Answers, Log!Failed, Log!Failures
  <1> QED BY <1>1, <1>2, <1>3, <1>4, <1>5

(* The emits. *)
LEMMA TypeEmit ==
  ASSUME TypeOK, NEW c \in Calls,
         ReadHead(c) \/ EmitNext(c) \/ EmitRevoked(c) \/ EmitLast(c)
  PROVE  TypeOK'
  <1> USE DEF TypeOK, Goto, PCs, tables, handler
  <1>1. CASE ReadHead(c)
    <2>0. Len(audit) \in Nat /\ DOMAIN audit = 1 .. Len(audit)
      OBVIOUS
    <2>1. DOMAIN audit \subseteq Nat
      BY <2>0
    <2>2. head' \in [Calls -> Nat]
      BY <1>1, <2>1 DEF ReadHead
    <2> QED BY <1>1, <2>2 DEF ReadHead
  <1>2. ASSUME AppendAudit(c), Len(todo[c]) >= 1
        PROVE  /\ audit' \in Seq([call : Calls, type : EventTypes, prev : Nat])
               /\ todo' \in [Calls -> Seq(EventTypes)]
    <2>1. Head(todo[c]) \in EventTypes /\ Tail(todo[c]) \in Seq(EventTypes)
      BY <1>2
    <2>2. [call |-> c, type |-> Head(todo[c]), prev |-> head[c]]
            \in [call : Calls, type : EventTypes, prev : Nat]
      BY <2>1
    <2> QED BY <1>2, <2>1, <2>2 DEF AppendAudit
  <1>3. CASE EmitNext(c)
    <2>1. Len(todo[c]) >= 1
      BY <1>3 DEF EmitNext
    <2> QED BY <1>2, <1>3, <2>1 DEF EmitNext, AppendAudit
  <1>4. CASE EmitRevoked(c)
    BY <1>2, <1>4 DEF EmitRevoked, AppendAudit, Advance, Capabilities
  <1>5. CASE EmitLast(c)
    <2>1. Len(todo[c]) >= 1
      BY <1>5 DEF EmitLast
    <2> QED BY <1>2, <1>5, <2>1 DEF EmitLast, AppendAudit
  <1> QED BY <1>1, <1>3, <1>4, <1>5

(* COMMIT, the publication and the failures. *)
LEMMA TypeEnd ==
  ASSUME TypeOK, NEW c \in Calls, Commit(c) \/ Publish(c) \/ LoseTx(c) \/ LoseAck(c)
  PROVE  TypeOK'
  <1> USE DEF TypeOK, Goto, PCs, tables, handler
  <1>1. CASE Commit(c)
    <2>1. SeqOf(c) \in Nat
      BY DEF SeqOf
    <2>2. uses' \in [Grants -> Nat] /\ active' \in [Grants -> BOOLEAN]
      BY <1>1 DEF Commit, ApplyWrites
    <2>3. counter' \in [Streams -> Nat]
      <3>1. CASE "counter" \in wrote[c]
        <4>1. counter' = [counter EXCEPT ![StreamOf(c)] = SeqOf(c) + 1]
          BY <1>1, <3>1 DEF Commit, ApplyWrites
        <4>2. counter \in [Streams -> Nat]
          OBVIOUS
        <4>3. SeqOf(c) + 1 \in Nat
          BY <2>1
        <4> QED BY <4>1, <4>2, <4>3
      <3>2. CASE "counter" \notin wrote[c]
        BY <1>1, <3>2 DEF Commit, ApplyWrites
      <3> QED BY <3>1, <3>2
    <2>4. messages' \subseteq [call : Calls, seq : Nat]
      BY <1>1, <2>1 DEF Commit, ApplyWrites
    <2>5. permissionRequests' \subseteq Calls \X Capabilities /\ committed' \subseteq Calls
      BY <1>1 DEF Commit, ApplyWrites
    <2> QED BY <1>1, <2>2, <2>3, <2>4, <2>5 DEF Commit
  <1>2. CASE Publish(c)
    <2>1. SeqOf(c) \in Nat
      BY DEF SeqOf
    <2>2. answer' \in [Calls -> Answers]
      <3>1. CASE "request" \in wrote[c]
        BY <1>2, <3>1 DEF Publish, Answer, Answers, Log!Failed, Log!Failures
      <3>2. CASE "request" \notin wrote[c]
        BY <1>2, <2>1, <3>2 DEF Publish, Answer, Answers
      <3> QED BY <3>1, <3>2
    <2>3. bus' \subseteq Calls
      BY <1>2 DEF Publish
    <2> QED BY <1>2, <2>2, <2>3 DEF Publish
  <1>3. CASE LoseTx(c)
    BY <1>3 DEF LoseTx, InTx, Rollback, Answer, Answers, Log!Failed, Log!Failures
  <1>4. CASE LoseAck(c)
    BY <1>4 DEF LoseAck, Answer, Answers, Log!Failed, Log!Failures
  <1> QED BY <1>1, <1>2, <1>3, <1>4

LEMMA TypeNext == TypeOK /\ [Next]_vars => TypeOK'
  <1> SUFFICES ASSUME TypeOK, [Next]_vars PROVE TypeOK'
    OBVIOUS
  <1>1. CASE UNCHANGED vars
    BY <1>1 DEF vars, handler, tables, TypeOK
  <1>2. CASE AllDone
    BY <1>1, <1>2 DEF AllDone
  <1>3. ASSUME NEW c \in Calls, Start(c) \/ Step(c) \/ LoseTx(c) \/ LoseAck(c)
        PROVE  TypeOK'
    BY <1>3, TypeCheck, TypeCharge, TypeInsert, TypeEmit, TypeEnd DEF Step
  <1> QED BY <1>1, <1>2, <1>3 DEF Next

(* Type correctness, under every interleaving and failure. *)
THEOREM TypeCorrect == Spec => []TypeOK
  BY TypeInit, TypeNext, PTL DEF Spec

(***************************************************************************)
(* LogInv.  The steps that leave the counters, the rows, the inputs and    *)
(* the writes alone only have to keep WroteByPc and open no transaction    *)
(* that has already written.                                               *)
(***************************************************************************)
LEMMA LogInit0 == Init => LogInv
  <1> SUFFICES ASSUME Init PROVE LogInv
    OBVIOUS
  <1>1. GapFree
    BY DEF Init, GapFree, MessagesOf
  <1>2. WroteByPc /\ CounterLock /\ PendingFits
    BY DEF Init, WroteByPc, CounterLock, PendingFits, Open, InTx
  <1>3. SeenBehind
    BY RequestsAssumption DEF Init, SeenBehind
  <1>4. Rows /\ OneMessagePerKey /\ NeverOne
    BY DEF Init, Rows, OneMessagePerKey, NeverOne
  <1> QED BY <1>1, <1>2, <1>3, <1>4, TypeInit DEF LogInv

LEMMA QuietStep ==
  ASSUME LogInv, TypeOK', WroteByPc', NEW c \in Calls,
         UNCHANGED <<req, seen, wrote, counter, messages>>,
         \A d \in Calls \ {c} : pc'[d] = pc[d],
         pc'[c] # "idle",
         Open(c)' => Open(c) \/ wrote[c] = {},
         pc[c] \in {"publish", "done"} => pc'[c] \in {"publish", "done"}
  PROVE  LogInv'
  <1>1. GapFree' /\ NeverOne' /\ OneMessagePerKey'
    BY DEF LogInv, GapFree, NeverOne, OneMessagePerKey, MessagesOf, StreamOf, Same, Log!Same
  <1>2a. SeenBehind'
    BY DEF LogInv, SeenBehind, StreamOf
  <1>2b. Rows'
    BY DEF LogInv, TypeOK, Rows, SeqOf
  <1>3. CounterLock'
    BY DEF LogInv, CounterLock, Open, StreamOf
  <1>4. PendingFits'
    BY DEF LogInv, PendingFits, Open, Conflicting, StreamOf, Same, Log!Same, SeqOf
  <1> QED BY <1>1, <1>2a, <1>2b, <1>3, <1>4 DEF LogInv

LEMMA LogStart == ASSUME LogInv, TypeOK', NEW c \in Calls, Start(c) PROVE LogInv'
  <1> USE DEF LogInv
  <1>0. /\ pc[c] = "idle" /\ pc'[c] = "check" /\ wrote[c] = {}
        /\ UNCHANGED <<seen, wrote, counter, messages>>
        /\ \A d \in Calls \ {c} : pc'[d] = pc[d] /\ req'[d] = req[d]
        /\ req'[c] \in Requests
    BY DEF Start, Goto, tables, TypeOK, WroteByPc
  <1>1. WroteByPc'
    BY <1>0 DEF WroteByPc, TypeOK
  <1>2. \A m \in messages : m.call # c /\ m.call \in Calls
    BY <1>0 DEF Rows, TypeOK
  <1>3. GapFree' /\ NeverOne' /\ OneMessagePerKey'
    <2>1. \A s \in Streams : MessagesOf(s)' = MessagesOf(s)
      BY <1>0, <1>2 DEF MessagesOf, StreamOf
    <2> QED BY <1>0, <1>2, <2>1 DEF GapFree, NeverOne, OneMessagePerKey, Same, Log!Same
  <1>4. Rows'
    BY <1>0, <1>2 DEF Rows, SeqOf
  <1>5. CounterLock'
    BY <1>0 DEF CounterLock, Open, StreamOf
  <1>6. PendingFits'
    BY <1>0, <1>2 DEF PendingFits, Open, Conflicting, StreamOf, Same, Log!Same, SeqOf
  <1>7. SeenBehind'
    <2>1. seen[c] = 0
      <3>1. pc[c] = "idle"
        BY <1>0
      <3> QED BY <3>1 DEF SeenBehind
    <2>2. counter[req'[c].stream] \in Nat
      BY <1>0, RequestsAssumption DEF TypeOK
    <2>3. seen'[c] <= counter'[req'[c].stream]
      BY <1>0, <2>1, <2>2
    <2>4. \A d \in Calls \ {c} : /\ pc'[d] = "idle" => seen'[d] = 0
                                 /\ req'[d] \in Requests => seen'[d] <= counter'[req'[d].stream]
      BY <1>0 DEF SeenBehind, StreamOf
    <2> QED BY <1>0, <2>3, <2>4 DEF SeenBehind, StreamOf
  <1> QED BY <1>1, <1>3, <1>4, <1>5, <1>6, <1>7

(* The handlers' own steps: reads, grants, emits and answers. *)
LEMMA LogQuiet ==
  ASSUME LogInv, TypeOK', NEW c \in Calls,
         \/ CheckGranted(c) \/ CheckDenied(c) \/ CheckAsks(c)
         \/ LookupFinds(c) \/ LookupMisses(c)
         \/ ScopePays(c) \/ PickGrant(c) \/ Charge(c) \/ ChargeLast(c)
         \/ ReadHead(c) \/ EmitNext(c) \/ EmitRevoked(c) \/ EmitLast(c)
         \/ Publish(c) \/ LoseAck(c)
  PROVE  LogInv'
  <1> USE DEF LogInv, TypeOK, Goto, tables, handler, Open, InTx
  <1>1. /\ UNCHANGED <<req, seen, wrote, counter, messages>>
        /\ \A d \in Calls \ {c} : pc'[d] = pc[d]
    <2>1. CASE CheckGranted(c) \/ CheckDenied(c) \/ CheckAsks(c)
      BY <2>1 DEF CheckGranted, CheckDenied, CheckAsks
    <2>0. CASE LookupFinds(c) \/ LookupMisses(c)
      BY <2>0 DEF LookupFinds, LookupMisses
    <2>2. CASE ScopePays(c) \/ PickGrant(c) \/ Charge(c) \/ ChargeLast(c)
      BY <2>2 DEF ScopePays, PickGrant, Charge, ChargeLast, Advance
    <2>3. CASE ReadHead(c)
      BY <2>3 DEF ReadHead
    <2>4. CASE EmitNext(c) \/ EmitRevoked(c) \/ EmitLast(c)
      BY <2>4 DEF EmitNext, EmitRevoked, EmitLast, AppendAudit, Advance
    <2>5. CASE Publish(c) \/ LoseAck(c)
      BY <2>5 DEF Publish, LoseAck
    <2> QED BY <2>0, <2>1, <2>2, <2>3, <2>4, <2>5
  <1>2. /\ pc[c] \notin {"idle", "counter", "bump", "insert", "request", "commit", "done"}
        /\ pc[c] = "publish" => pc'[c] = "done"
        /\ pc'[c] \notin {"idle", "bump", "insert", "publish"}
        /\ pc'[c] \in {"check", "request", "lookup", "pick", "charge", "counter"} => wrote[c] = {}
        /\ pc'[c] \in {"emit", "audit", "done", "commit"}
              => wrote[c] \in {{}, {"request"}, {"counter", "message"}}
        /\ pc'[c] = "commit" => wrote[c] # {}
    <2>1. CASE CheckGranted(c) \/ CheckDenied(c) \/ CheckAsks(c) \/ LookupFinds(c) \/ LookupMisses(c)
      BY <2>1 DEF CheckGranted, CheckDenied, CheckAsks, LookupFinds, LookupMisses, WroteByPc
    <2>2. CASE ScopePays(c) \/ PickGrant(c) \/ Charge(c) \/ ChargeLast(c)
      BY <2>2 DEF ScopePays, PickGrant, Charge, ChargeLast, Use, Advance, WroteByPc
    <2>3. CASE ReadHead(c)
      BY <2>3 DEF ReadHead, WroteByPc
    <2>4. CASE EmitNext(c) \/ EmitLast(c)
      BY <2>4 DEF EmitNext, EmitLast, AppendAudit, WroteByPc
    <2>5. CASE EmitRevoked(c)
      BY <2>5 DEF EmitRevoked, AppendAudit, Advance, WroteByPc
    <2>6. CASE Publish(c) \/ LoseAck(c)
      BY <2>6 DEF Publish, LoseAck, WroteByPc
    <2> QED BY <2>1, <2>2, <2>3, <2>4, <2>5, <2>6
  <1>3. WroteByPc'
    BY <1>1, <1>2 DEF WroteByPc
  <1>4. Open(c)' => Open(c) \/ wrote[c] = {}
    BY <1>2 DEF WroteByPc, PCs
  <1> QED BY <1>1, <1>2, <1>3, <1>4, QuietStep

(* A call that rolls back takes its writes with it. *)
LEMMA LogRollback ==
  ASSUME LogInv, TypeOK', NEW c \in Calls,
         NothingToPick(c) \/ CounterConflict(c) \/ InsertConflict(c) \/ LoseTx(c)
  PROVE  LogInv'
  <1> USE DEF LogInv
  <1>1. /\ UNCHANGED <<req, seen, counter, messages>>
        /\ pc' = [pc EXCEPT ![c] = "done"] /\ wrote' = [wrote EXCEPT ![c] = {}]
        /\ Open(c) /\ pc[c] # "publish" /\ pc[c] # "done"
    BY DEF NothingToPick, CounterConflict, InsertConflict, LoseTx, Rollback, Goto, tables,
           Open, InTx
  <1>2. /\ pc'[c] = "done" /\ wrote'[c] = {} /\ ~Open(c)'
        /\ \A d \in Calls \ {c} : pc'[d] = pc[d] /\ wrote'[d] = wrote[d]
    BY <1>1 DEF TypeOK, Open, InTx
  <1>3. WroteByPc'
    BY <1>2 DEF WroteByPc
  <1>4. GapFree' /\ NeverOne' /\ OneMessagePerKey'
    BY <1>1 DEF GapFree, NeverOne, OneMessagePerKey, MessagesOf, StreamOf, Same, Log!Same
  <1>5. SeenBehind'
    BY <1>1, <1>2 DEF SeenBehind, StreamOf
  <1>6. Rows'
    BY <1>1, <1>2 DEF Rows, SeqOf, TypeOK
  <1>7. CounterLock'
    BY <1>1, <1>2 DEF CounterLock, Open, StreamOf
  <1>8. PendingFits'
    BY <1>1, <1>2 DEF PendingFits, Open, Conflicting, StreamOf, Same, Log!Same, SeqOf
  <1> QED BY <1>3, <1>4, <1>5, <1>6, <1>7, <1>8

(* ReadCounter and OpenRequest. *)
LEMMA LogRead == ASSUME LogInv, TypeOK', NEW c \in Calls, ReadCounter(c) PROVE LogInv'
  <1> USE DEF LogInv
  <1>1. /\ UNCHANGED <<req, wrote, counter, messages>>
        /\ pc[c] = "counter" /\ pc'[c] = "bump" /\ seen'[c] = counter[StreamOf(c)]
        /\ \A d \in Calls \ {c} : pc'[d] = pc[d] /\ seen'[d] = seen[d]
    BY DEF ReadCounter, Goto, tables, TypeOK
  <1>2. WroteByPc' /\ wrote[c] = {}
    BY <1>1 DEF WroteByPc
  <1>3. GapFree' /\ NeverOne' /\ OneMessagePerKey'
    BY <1>1 DEF GapFree, NeverOne, OneMessagePerKey, MessagesOf, StreamOf, Same, Log!Same
  <1>4. SeenBehind'
    <2>1. counter[StreamOf(c)] \in Nat
      BY <1>1, RequestsAssumption DEF TypeOK, StreamOf
    <2> QED BY <1>1, <2>1 DEF SeenBehind, StreamOf
  <1>5. Rows'
    BY <1>1 DEF Rows, SeqOf, TypeOK
  <1>6. CounterLock'
    BY <1>1, <1>2 DEF CounterLock, Open, StreamOf, InTx
  <1>7. PendingFits'
    BY <1>1, <1>2 DEF PendingFits, Open, Conflicting, StreamOf, Same, Log!Same, SeqOf
  <1> QED BY <1>2, <1>3, <1>4, <1>5, <1>6, <1>7

LEMMA LogRequest == ASSUME LogInv, TypeOK', NEW c \in Calls, OpenRequest(c) PROVE LogInv'
  <1> USE DEF LogInv
  <1>1. /\ UNCHANGED <<req, seen, counter, messages>>
        /\ pc[c] = "request" /\ pc'[c] = "emit" /\ wrote'[c] = {"request"}
        /\ \A d \in Calls \ {c} : pc'[d] = pc[d] /\ wrote'[d] = wrote[d]
    BY DEF OpenRequest, Goto, tables, TypeOK
  <1>2. WroteByPc'
    BY <1>1 DEF WroteByPc
  <1>3. GapFree' /\ NeverOne' /\ OneMessagePerKey'
    BY <1>1 DEF GapFree, NeverOne, OneMessagePerKey, MessagesOf, StreamOf, Same, Log!Same
  <1>4. SeenBehind'
    BY <1>1 DEF SeenBehind, StreamOf
  <1>5. Rows'
    BY <1>1 DEF Rows, SeqOf, TypeOK
  <1>6. CounterLock' /\ PendingFits'
    BY <1>1 DEF CounterLock, PendingFits, Open, Conflicting, StreamOf, Same, Log!Same, SeqOf
  <1> QED BY <1>2, <1>3, <1>4, <1>5, <1>6

(* The lock is granted to one transaction of the stream at a time. *)
LEMMA LogBump == ASSUME LogInv, TypeOK', NEW c \in Calls, BumpCounter(c) PROVE LogInv'
  <1> USE DEF LogInv
  <1>1. /\ UNCHANGED <<req, seen, counter, messages>>
        /\ pc[c] = "bump" /\ pc'[c] = "insert" /\ wrote'[c] = wrote[c] \cup {"counter"}
        /\ \A d \in Calls \ {c} : pc'[d] = pc[d] /\ wrote'[d] = wrote[d]
        /\ \A d \in Calls \ {c} :
              Open(d) /\ "counter" \in wrote[d] => StreamOf(d) # StreamOf(c)
    BY DEF BumpCounter, CounterFree, Open, Goto, tables, handler, TypeOK
  <1>2. wrote[c] = {} /\ WroteByPc'
    BY <1>1 DEF WroteByPc
  <1>3. GapFree' /\ NeverOne' /\ OneMessagePerKey'
    BY <1>1 DEF GapFree, NeverOne, OneMessagePerKey, MessagesOf, StreamOf, Same, Log!Same
  <1>4. SeenBehind'
    BY <1>1 DEF SeenBehind, StreamOf
  <1>5. Rows'
    BY <1>1 DEF Rows, SeqOf, TypeOK
  <1>6. CounterLock'
    BY <1>1 DEF CounterLock, Open, StreamOf
  <1>7. PendingFits'
    BY <1>1, <1>2 DEF PendingFits, Open, Conflicting, StreamOf, Same, Log!Same, SeqOf
  <1> QED BY <1>2, <1>3, <1>4, <1>5, <1>6, <1>7

LEMMA LogInsert == ASSUME LogInv, TypeOK', NEW c \in Calls, InsertMessage(c) PROVE LogInv'
  <1> USE DEF LogInv
  <1>1. /\ UNCHANGED <<req, seen, counter, messages>>
        /\ pc[c] = "insert" /\ pc'[c] = "emit" /\ wrote'[c] = wrote[c] \cup {"message"}
        /\ \A d \in Calls \ {c} : pc'[d] = pc[d] /\ wrote'[d] = wrote[d]
        /\ Conflicting(c) = {}
    BY DEF InsertMessage, Goto, tables, TypeOK
  <1>2. wrote[c] = {"counter"} /\ wrote'[c] = {"counter", "message"} /\ Open(c)
    BY <1>1 DEF WroteByPc, Open, InTx
  <1>3. WroteByPc'
    BY <1>1, <1>2 DEF WroteByPc
  <1>4. GapFree' /\ NeverOne' /\ OneMessagePerKey'
    BY <1>1 DEF GapFree, NeverOne, OneMessagePerKey, MessagesOf, StreamOf, Same, Log!Same
  <1>5. SeenBehind'
    BY <1>1 DEF SeenBehind, StreamOf
  <1>6. Rows'
    BY <1>1 DEF Rows, SeqOf, TypeOK
  <1>7. CounterLock'
    BY <1>1, <1>2 DEF CounterLock, Open, StreamOf
  <1>8. PendingFits'
    BY <1>1, <1>2 DEF PendingFits, Open, Conflicting, StreamOf, Same, Log!Same, SeqOf
  <1> QED BY <1>3, <1>4, <1>5, <1>6, <1>7, <1>8

(***************************************************************************)
(* COMMIT of an append: the number it took is the counter's, because the   *)
(* counter could only grow since it was read and the row does not conflict.*)
(***************************************************************************)
LEMMA CommitSeq ==
  ASSUME LogInv, NEW c \in Calls, pc[c] = "commit", "message" \in wrote[c]
  PROVE  /\ StreamOf(c) \in Streams
         /\ SeqOf(c) \in Nat \ {0}
         /\ {m.seq : m \in MessagesOf(StreamOf(c))} \cup {SeqOf(c)} = 1 .. SeqOf(c)
         /\ \A m \in MessagesOf(StreamOf(c)) : m.seq # SeqOf(c)
         /\ counter[StreamOf(c)] <= SeqOf(c)
  <1> DEFINE s == StreamOf(c)
             n == counter[s]
  <1> USE DEF LogInv
  <1>1. req[c] \in Requests /\ s \in Streams
    BY RequestsAssumption DEF TypeOK, StreamOf
  <1>2. n \in Nat /\ n # 1 /\ seen[c] \in Nat /\ seen[c] <= n
    BY <1>1 DEF TypeOK, NeverOne, SeenBehind
  <1>3. Conflicting(c) = {}
    BY DEF PendingFits, Open, InTx
  <1>4. \A m \in MessagesOf(s) : m.seq # SeqOf(c)
    BY <1>3 DEF Conflicting, MessagesOf
  <1>5. {m.seq : m \in MessagesOf(s)} = 1 .. (n - 1)
    BY <1>1 DEF GapFree
  <1>6. SeqOf(c) \notin 1 .. (n - 1)
    BY <1>4, <1>5
  <1>7. CASE seen[c] = 0
    <2>1. n = 0 /\ SeqOf(c) = 1
      BY <1>2, <1>6, <1>7 DEF SeqOf
    <2>2. {m.seq : m \in MessagesOf(s)} = {}
      BY <1>5, <2>1
    <2> QED BY <1>1, <1>4, <2>1, <2>2
  <1>8. CASE seen[c] # 0
    <2>1. SeqOf(c) = n /\ n >= 1
      BY <1>2, <1>6, <1>8 DEF SeqOf
    <2>2. (1 .. (n - 1)) \cup {n} = 1 .. n
      BY <1>2, <2>1
    <2> QED BY <1>1, <1>2, <1>4, <1>5, <2>1, <2>2
  <1> QED BY <1>7, <1>8

LEMMA LogCommit == ASSUME LogInv, TypeOK', NEW c \in Calls, Commit(c) PROVE LogInv'
  <1> USE DEF LogInv
  <1>1. /\ UNCHANGED <<req, seen, wrote>>
        /\ pc[c] = "commit" /\ pc'[c] = "publish" /\ Open(c) /\ ~Open(c)'
        /\ \A d \in Calls \ {c} : pc'[d] = pc[d]
    BY DEF Commit, ApplyWrites, Goto, handler, TypeOK, Open, InTx
  <1>2. WroteByPc' /\ wrote[c] \in {{"request"}, {"counter", "message"}}
    BY <1>1 DEF WroteByPc
  <1>3. CounterLock'
    BY <1>1 DEF CounterLock, Open, StreamOf
  <1>4. CASE wrote[c] = {"request"}
    <2>1. messages' = messages
      BY <1>4 DEF Commit, ApplyWrites
    <2>2. counter' = counter
      BY <1>4 DEF Commit, ApplyWrites, TypeOK
    <2>3. GapFree' /\ NeverOne' /\ OneMessagePerKey'
      BY <1>1, <2>1, <2>2 DEF GapFree, NeverOne, OneMessagePerKey, MessagesOf, StreamOf, Same, Log!Same
    <2>4. SeenBehind'
      BY <1>1, <2>2 DEF SeenBehind, StreamOf
    <2>5. Rows'
      BY <1>1, <2>1 DEF Rows, SeqOf, TypeOK
    <2>6. PendingFits'
      BY <1>1, <2>1 DEF PendingFits, Open, Conflicting, StreamOf, Same, Log!Same, SeqOf
    <2> QED BY <1>2, <1>3, <2>3, <2>4, <2>5, <2>6
  <1>5. CASE wrote[c] = {"counter", "message"}
    <2>0. StreamOf(c) \in Streams /\ SeqOf(c) \in Nat \ {0}
      BY <1>1, <1>5, CommitSeq
    <2> PICK s \in Streams, q \in Nat \ {0} : s = StreamOf(c) /\ q = SeqOf(c)
      BY <2>0
    <2> DEFINE row == [call |-> c, seq |-> q]
    <2>1. /\ {m.seq : m \in MessagesOf(s)} \cup {q} = 1 .. q
          /\ \A m \in MessagesOf(s) : m.seq # q
          /\ counter[s] <= q
      BY <1>1, <1>5, CommitSeq
    <2>2. messages' = messages \cup {row}
      BY <1>5 DEF Commit, ApplyWrites
    <2>3. /\ counter'[s] = q + 1
          /\ \A t \in Streams \ {s} : counter'[t] = counter[t]
      BY <1>5, <2>1 DEF Commit, ApplyWrites, TypeOK
    <2>4. /\ MessagesOf(s)' = MessagesOf(s) \cup {row}
          /\ \A t \in Streams \ {s} : MessagesOf(t)' = MessagesOf(t)
      BY <1>1, <2>2 DEF MessagesOf, StreamOf
    <2>5. GapFree'
      <3>1. \A x : x \in {m.seq : m \in MessagesOf(s)'}
                  <=> x \in {m.seq : m \in MessagesOf(s)} \cup {q}
        <4>1. row.seq = q
          OBVIOUS
        <4> HIDE DEF row
        <4> QED BY <2>4, <4>1
      <3>2. {m.seq : m \in MessagesOf(s)'} = 1 .. (counter'[s] - 1)
        <4>1. counter'[s] - 1 = q
          BY <2>3
        <4> QED BY <2>1, <3>1, <4>1
      <3>3. \A m, n \in MessagesOf(s)' : m.seq = n.seq => m = n
        BY <2>1, <2>4 DEF GapFree
      <3>4. \A t \in Streams \ {s} :
               /\ {m.seq : m \in MessagesOf(t)'} = 1 .. (counter'[t] - 1)
               /\ \A m, n \in MessagesOf(t)' : m.seq = n.seq => m = n
        BY <2>3, <2>4 DEF GapFree
      <3> QED BY <3>2, <3>3, <3>4 DEF GapFree
    <2>6. NeverOne'
      BY <2>1, <2>3 DEF NeverOne
    <2>7. OneMessagePerKey'
      <3>1. \A m \in messages : ~Same(m.call, c)
        BY <1>1, <1>5 DEF PendingFits, Conflicting
      <3>2. \A m \in messages : ~Same(c, m.call)
        BY <3>1 DEF Same, Log!Same
      <3> QED BY <1>1, <2>2, <3>1, <3>2 DEF OneMessagePerKey, Same, Log!Same
    <2>8. SeenBehind'
      <3>1. \A d \in Calls : req[d] \in Requests /\ StreamOf(d) = s => seen[d] <= q + 1
        <4>1. counter[s] \in Nat /\ \A d \in Calls : seen[d] \in Nat
          BY DEF TypeOK
        <4>2. \A d \in Calls : req[d] \in Requests /\ StreamOf(d) = s => seen[d] <= counter[s]
          BY DEF SeenBehind
        <4> QED BY <2>1, <4>1, <4>2
      <3> QED BY <1>1, <2>3, <3>1, RequestsAssumption DEF SeenBehind, StreamOf
    <2>9. Rows'
      <3>1. row.call = c /\ row.seq = SeqOf(c)
        OBVIOUS
      <3>2. \A d \in Calls : SeqOf(d)' = SeqOf(d)
        BY <1>1 DEF SeqOf
      <3>3. \A m \in messages : m.call \in Calls
        BY DEF TypeOK
      <3> QED BY <1>1, <2>2, <3>1, <3>2, <3>3 DEF Rows
    <2>10. PendingFits'
      <3>1. ASSUME NEW d \in Calls, Open(d)', "message" \in wrote'[d]
            PROVE  Conflicting(d)' = {}
        <4>1. d # c /\ Open(d) /\ "message" \in wrote[d]
          BY <1>1, <3>1 DEF Open
        <4>2. "counter" \in wrote[d]
          BY <4>1 DEF WroteByPc, Open, InTx
        <4>3. StreamOf(d) # s
          BY <1>1, <1>5, <4>1, <4>2 DEF CounterLock
        <4>4. Conflicting(d) = {}
          BY <4>1 DEF PendingFits
        <4> QED BY <1>1, <2>2, <4>3, <4>4 DEF Conflicting, StreamOf, Same, Log!Same, SeqOf
      <3> QED BY <3>1 DEF PendingFits
    <2> QED BY <1>2, <1>3, <2>5, <2>6, <2>7, <2>8, <2>9, <2>10
  <1> QED BY <1>2, <1>4, <1>5

LEMMA LogNextStep == LogInv /\ [Next]_vars => LogInv'
  <1> SUFFICES ASSUME LogInv, [Next]_vars PROVE LogInv'
    OBVIOUS
  <1>1. TypeOK'
    BY TypeNext DEF LogInv
  <1>2. CASE UNCHANGED vars
    <2>1. UNCHANGED <<pc, req, seen, wrote, counter, messages>>
      BY <1>2 DEF vars, handler, tables
    <2>2. WroteByPc' /\ SeenBehind' /\ CounterLock' /\ Rows' /\ NeverOne'
      BY <2>1 DEF LogInv, WroteByPc, SeenBehind, CounterLock, Rows, NeverOne, Open, StreamOf, SeqOf
    <2>3. PendingFits'
      BY <2>1 DEF LogInv, PendingFits, Open, Conflicting, StreamOf, Same, Log!Same, SeqOf
    <2>4. GapFree' /\ OneMessagePerKey'
      BY <2>1 DEF LogInv, GapFree, OneMessagePerKey, MessagesOf, StreamOf, Same, Log!Same
    <2> QED BY <1>1, <2>2, <2>3, <2>4 DEF LogInv
  <1>3. CASE AllDone
    BY <1>2, <1>3 DEF AllDone
  <1>4. ASSUME NEW c \in Calls, Start(c) \/ Step(c) \/ LoseTx(c) \/ LoseAck(c)
        PROVE  LogInv'
    BY <1>1, <1>4, LogStart, LogQuiet, LogRollback, LogRead, LogRequest, LogBump, LogInsert,
       LogCommit DEF Step
  <1> QED BY <1>2, <1>3, <1>4 DEF Next

THEOREM LogInvariant == Spec => []LogInv
  BY LogInit0, LogNextStep, PTL DEF Spec

(* Sequence numbers are gap-free and never repeat, for any number of calls, *)
(* streams and grants, and under any lost connection.                       *)
THEOREM SequencesGapFree == Spec => []GapFree
  <1>1. LogInv => GapFree
    BY DEF LogInv
  <1> QED BY <1>1, LogInvariant, PTL

(* A (stream, actor, key) never holds two messages. *)
THEOREM KeysUnique == Spec => []OneMessagePerKey
  <1>1. LogInv => OneMessagePerKey
    BY DEF LogInv
  <1> QED BY <1>1, LogInvariant, PTL

(* What appendMessage promises of the messages of a stream: the three        *)
(* theorems above together, the property that the runs check.                *)
THEOREM AlwaysSound == Spec => []LogSound
  <1>1. TypeOK /\ GapFree /\ OneMessagePerKey => LogSound
    BY DEF LogSound
  <1> QED BY <1>1, TypeCorrect, SequencesGapFree, KeysUnique, PTL

(***************************************************************************)
(* The audit chain.  A head that was read is a row that is committed or    *)
(* the call's own, and so is what every row, committed or not, extends: a  *)
(* call that rolls back takes along every row that extends one of its own. *)
(***************************************************************************)
HeadSound ==
    \A c \in Calls : pc[c] = "audit" /\ head[c] # 0 =>
        /\ head[c] \in DOMAIN audit
        /\ audit[head[c]].call \in committed \cup {c}

RowsExtend ==
    \A i \in DOMAIN audit : audit[i].prev # 0 =>
        /\ audit[i].prev \in DOMAIN audit /\ audit[i].prev < i
        /\ audit[audit[i].prev].call \in committed \cup {audit[i].call}

AuditInv == TypeOK /\ HeadSound /\ RowsExtend

(***************************************************************************)
(* The grants.  Prior(c) is paid when c comes to its current capability,   *)
(* Reached(c) when it leaves it, Needs(c) when the message is inserted.    *)
(***************************************************************************)
Prior(c) == IF cap[c] = Invoke THEN {Append0} ELSE {}
Reached(c) == Prior(c) \cup {cap[c]}
Needs(c) == {Append0} \cup (IF req[c].command THEN {Invoke} ELSE {})

For(S, k) == {g \in S : GrantOf[g].capability = k}
ExactlyFor(S, K) ==
    \A k \in Capabilities : IF k \in K THEN \E g \in Grants : For(S, k) = {g} ELSE For(S, k) = {}
Paid(c, K) == IF ViaScope(c) THEN charged[c] = {} ELSE ExactlyFor(charged[c], K)

PaidByPc(c) ==
    /\ pc[c] \in {"idle", "lookup"} => cap[c] = Append0
    /\ cap[c] = Invoke => pc[c] # "idle" /\ req[c].command
    /\ pc[c] \in {"idle", "check", "request", "lookup"} => charged[c] = {}
    /\ pc[c] \in {"pick", "charge"} => Paid(c, Prior(c))
    /\ pc[c] = "charge" => ~ViaScope(c) /\ GrantOf[pick[c]].capability = cap[c]
    /\ pc[c] \in {"emit", "audit"} /\ wrote[c] = {} => Paid(c, Reached(c))
    /\ pc[c] \in {"counter", "bump", "insert"} => Paid(c, Needs(c))
    /\ "message" \in wrote[c] => Paid(c, Needs(c))
    /\ "request" \in wrote[c] => charged[c] = {}

PaidBy(g) == {m \in messages : g \in charged[m.call]}
UsesCounted == IsFiniteSet(messages) /\ \A g \in Grants : uses[g] = Cardinality(PaidBy(g))

(* Only a call that wrote a message has a row. *)
OnlyWriters == \A m \in messages : "message" \in wrote[m.call]

PayInv == LogInv /\ (\A c \in Calls : PaidByPc(c)) /\ OnlyWriters /\ UsesCounted

(* What is missing for the refinement: a call is answered once, at its end, *)
(* and finds its own row in the table when it answers "ok".                 *)
AnsweredAtEnd ==
    \A c \in Calls : /\ pc[c] = "idle" => req[c] = NoRequest
                     /\ pc[c] # "done" => answer[c] = Log!Unanswered
                     /\ pc[c] = "publish" /\ "message" \in wrote[c] =>
                           [call |-> c, seq |-> SeqOf(c)] \in messages

FateInv == PayInv /\ AnsweredAtEnd

(***************************************************************************)
(* AuditInv is inductive.                                                  *)
(***************************************************************************)
LEMMA AuditKept ==
  ASSUME AuditInv, UNCHANGED <<audit, head>>, committed \subseteq committed',
         \A d \in Calls : pc'[d] = "audit" => pc[d] = "audit"
  PROVE  HeadSound' /\ RowsExtend'
  BY DEF AuditInv, HeadSound, RowsExtend

LEMMA AuditRead ==
  ASSUME AuditInv, NEW c \in Calls, ReadHead(c)
  PROVE  HeadSound' /\ RowsExtend'
  <1>1. /\ UNCHANGED <<audit, committed>>
        /\ \A d \in Calls \ {c} : pc'[d] = pc[d] /\ head'[d] = head[d]
        /\ head'[c] \in {0} \cup DOMAIN audit /\ ReadsHead(c, head'[c])
    BY DEF ReadHead, Goto, tables, AuditInv, TypeOK
  <1>2. head'[c] # 0 => audit[head'[c]].call \in committed \cup {c}
    BY <1>1 DEF ReadsHead, Last, VisibleTo
  <1>3. HeadSound'
    BY <1>1, <1>2 DEF AuditInv, HeadSound
  <1>4. RowsExtend'
    BY <1>1 DEF AuditInv, RowsExtend
  <1> QED BY <1>3, <1>4

LEMMA AuditGrows ==
  ASSUME AuditInv, NEW c \in Calls, pc[c] = "audit", pc'[c] # "audit",
         AppendAudit(c), \A d \in Calls \ {c} : pc'[d] = pc[d], committed' = committed
  PROVE  HeadSound' /\ RowsExtend'
  <1> DEFINE row == [call |-> c, type |-> Head(todo[c]), prev |-> head[c]]
             n == Len(audit)
  <1>0. audit \in Seq([call : Calls, type : EventTypes, prev : Nat]) /\ n \in Nat
    BY DEF AuditInv, TypeOK
  <1>1. audit' = Append(audit, row) /\ head' = head
    BY DEF AppendAudit
  <1>2. /\ DOMAIN audit = 1 .. n /\ DOMAIN audit' = 1 .. (n + 1)
        /\ \A i \in 1 .. n : audit'[i] = audit[i]
        /\ audit'[n + 1] = row
    BY <1>0, <1>1
  <1>3. row.call = c /\ row.prev = head[c]
    OBVIOUS
  <1> HIDE DEF row, n
  <1>4. HeadSound'
    BY <1>0, <1>1, <1>2 DEF AuditInv, HeadSound
  <1>5. ASSUME NEW i \in 1 .. n, audit[i].prev # 0
        PROVE  /\ audit[i].prev \in 1 .. n /\ audit[i].prev < i
               /\ audit[audit[i].prev].call \in committed \cup {audit[i].call}
    BY <1>2, <1>5 DEF AuditInv, RowsExtend
  <1>6. head[c] # 0 => head[c] \in 1 .. n /\ head[c] < n + 1
                       /\ audit[head[c]].call \in committed \cup {c}
    BY <1>0, <1>2 DEF AuditInv, HeadSound
  <1>7. ASSUME NEW i \in 1 .. (n + 1), audit'[i].prev # 0
        PROVE  /\ audit'[i].prev \in 1 .. (n + 1) /\ audit'[i].prev < i
               /\ audit'[audit'[i].prev].call \in committed \cup {audit'[i].call}
    <2>1. CASE i = n + 1
      <3>1. audit'[i].prev = head[c] /\ audit'[i].call = c
        BY <1>2, <1>3, <2>1
      <3> QED BY <1>0, <1>2, <1>6, <1>7, <2>1, <3>1
    <2>2. CASE i # n + 1
      <3>1. i \in 1 .. n
        BY <1>0, <2>2
      <3>2. audit'[i] = audit[i]
        BY <1>2, <3>1
      <3> QED BY <1>0, <1>2, <1>5, <1>7, <3>1, <3>2
    <2> QED BY <2>1, <2>2
  <1>8. RowsExtend'
    BY <1>2, <1>7 DEF RowsExtend
  <1> QED BY <1>4, <1>8

LEMMA AuditNext == AuditInv /\ [Next]_vars => AuditInv'
  <1> SUFFICES ASSUME AuditInv, [Next]_vars PROVE AuditInv'
    OBVIOUS
  <1>0. TypeOK'
    BY TypeNext DEF AuditInv
  <1>1. CASE UNCHANGED vars
    BY <1>0, <1>1, AuditKept DEF vars, handler, tables, AuditInv
  <1>2. CASE AllDone
    BY <1>1, <1>2 DEF AllDone
  <1>3. ASSUME NEW c \in Calls, Start(c) \/ Step(c) \/ LoseTx(c) \/ LoseAck(c)
        PROVE  HeadSound' /\ RowsExtend'
    <2> USE DEF Goto, tables, handler
    <2>1. CASE \/ Start(c) \/ CheckGranted(c) \/ CheckDenied(c) \/ CheckAsks(c)
               \/ OpenRequest(c) \/ LookupFinds(c) \/ LookupMisses(c)
      <3>1. /\ UNCHANGED <<audit, head, committed>>
            /\ \A d \in Calls : pc'[d] = "audit" => pc[d] = "audit"
        BY <2>1 DEF Start, CheckGranted, CheckDenied, CheckAsks, OpenRequest, LookupFinds,
                    LookupMisses, AuditInv, TypeOK
      <3> QED BY <3>1, AuditKept
    <2>2. CASE \/ ScopePays(c) \/ PickGrant(c) \/ NothingToPick(c) \/ Charge(c) \/ ChargeLast(c)
      <3>1. /\ UNCHANGED <<audit, head, committed>>
            /\ \A d \in Calls : pc'[d] = "audit" => pc[d] = "audit"
        BY <2>2 DEF ScopePays, PickGrant, NothingToPick, Charge, ChargeLast, Use, Advance,
                    Rollback, AuditInv, TypeOK
      <3> QED BY <3>1, AuditKept
    <2>3. CASE \/ ReadCounter(c) \/ BumpCounter(c) \/ CounterConflict(c)
               \/ InsertMessage(c) \/ InsertConflict(c)
      <3>1. /\ UNCHANGED <<audit, head, committed>>
            /\ \A d \in Calls : pc'[d] = "audit" => pc[d] = "audit"
        BY <2>3 DEF ReadCounter, BumpCounter, CounterConflict, InsertMessage, InsertConflict,
                    Rollback, AuditInv, TypeOK
      <3> QED BY <3>1, AuditKept
    <2>4. CASE Commit(c) \/ Publish(c) \/ LoseTx(c) \/ LoseAck(c)
      <3>1. /\ UNCHANGED <<audit, head>> /\ committed \subseteq committed'
            /\ \A d \in Calls : pc'[d] = "audit" => pc[d] = "audit"
        BY <2>4 DEF Commit, ApplyWrites, Publish, LoseTx, LoseAck, Rollback, AuditInv, TypeOK
      <3> QED BY <3>1, AuditKept
    <2>5. CASE ReadHead(c)
      BY <2>5, AuditRead
    <2>6. ASSUME EmitNext(c) \/ EmitRevoked(c) \/ EmitLast(c)
          PROVE  /\ pc'[c] # "audit" /\ AppendAudit(c) /\ committed' = committed
                 /\ \A d \in Calls \ {c} : pc'[d] = pc[d]
      BY <2>6 DEF EmitNext, EmitRevoked, EmitLast, AppendAudit, Advance, AuditInv, TypeOK
    <2>7. CASE EmitNext(c) \/ EmitRevoked(c) \/ EmitLast(c)
      <3>1. pc[c] = "audit"
        BY <2>7 DEF EmitNext, EmitRevoked, EmitLast, AppendAudit
      <3> QED BY <2>6, <2>7, <3>1, AuditGrows
    <2> QED BY <1>3, <2>1, <2>2, <2>3, <2>4, <2>5, <2>7 DEF Step
  <1> QED BY <1>0, <1>1, <1>2, <1>3 DEF Next, AuditInv

THEOREM AuditInvariant == Spec => []AuditInv
  <1>1. Init => AuditInv
    BY TypeInit DEF Init, AuditInv, HeadSound, RowsExtend
  <1> QED BY <1>1, AuditNext, PTL DEF Spec

(* No committed audit row hangs on one that was rolled back, whichever calls *)
(* fail and wherever their emits interleave.                                 *)
THEOREM AuditRowsExtendCommitted == Spec => []AuditExtendsCommitted
  <1>1. AuditInv => AuditExtendsCommitted
    BY DEF AuditInv, RowsExtend, AuditExtendsCommitted, VisibleTo
  <1> QED BY <1>1, AuditInvariant, PTL

(***************************************************************************)
(* PayInv is inductive: what a call has paid, capability by capability.    *)
(***************************************************************************)
LEMMA CapabilitiesDiffer == Append0 # Invoke /\ Capabilities = {Append0, Invoke}
  BY DEF Append0, Invoke, Capabilities

LEMMA NothingPaid == ExactlyFor({}, {})
  BY DEF ExactlyFor, For

LEMMA OneMorePaid ==
  ASSUME NEW S, NEW K, NEW k, k \notin K, NEW g \in Grants, GrantOf[g].capability = k,
         ExactlyFor(S, K)
  PROVE  ExactlyFor(S \cup {g}, K \cup {k})
  <1>1. ASSUME NEW j \in Capabilities
        PROVE  IF j \in K \cup {k} THEN \E h \in Grants : For(S \cup {g}, j) = {h}
                                   ELSE For(S \cup {g}, j) = {}
    <2>1. CASE j = k
      <3>1. For(S, k) = {}
        BY <1>1, <2>1 DEF ExactlyFor
      <3>2. For(S \cup {g}, k) = {g}
        BY <3>1 DEF For
      <3> QED BY <2>1, <3>2
    <2>2. CASE j # k
      <3>1. For(S \cup {g}, j) = For(S, j)
        BY <2>2 DEF For
      <3>2. IF j \in K THEN \E h \in Grants : For(S, j) = {h} ELSE For(S, j) = {}
        BY <1>1 DEF ExactlyFor
      <3> QED BY <2>2, <3>1, <3>2
    <2> QED BY <2>1, <2>2
  <1> QED BY <1>1 DEF ExactlyFor

(* The calls that do not move. *)
LEMMA OthersPay ==
  ASSUME NEW d \in Calls, PaidByPc(d), pc'[d] = pc[d], cap'[d] = cap[d], req'[d] = req[d],
         wrote'[d] = wrote[d], charged'[d] = charged[d], pick'[d] = pick[d]
  PROVE  PaidByPc(d)'
  BY DEF PaidByPc, Paid, Prior, Reached, Needs, ViaScope

(* The rows of a call that is still at work are not there yet. *)
LEMMA TablesKept ==
  ASSUME PayInv, NEW c \in Calls, UNCHANGED <<messages, uses>>,
         \A d \in Calls \ {c} : charged'[d] = charged[d] /\ wrote'[d] = wrote[d],
         \/ charged'[c] = charged[c] /\ wrote'[c] = wrote[c]
         \/ pc[c] \notin {"publish", "done"}
  PROVE  OnlyWriters' /\ UsesCounted'
  <1>1. ASSUME NEW m \in messages
        PROVE  charged'[m.call] = charged[m.call] /\ wrote'[m.call] = wrote[m.call]
    BY DEF PayInv, LogInv, TypeOK, Rows
  <1>2. OnlyWriters'
    BY <1>1 DEF PayInv, OnlyWriters
  <1>3. ASSUME NEW g \in Grants PROVE PaidBy(g)' = PaidBy(g)
    BY <1>1 DEF PaidBy
  <1> QED BY <1>2, <1>3 DEF PayInv, UsesCounted

(* What a step of one call has to show of that call. *)
LEMMA PayStep ==
  ASSUME PayInv, LogInv', NEW c \in Calls, PaidByPc(c)',
         UNCHANGED <<messages, uses>>,
         \A d \in Calls \ {c} :
            /\ pc'[d] = pc[d] /\ cap'[d] = cap[d] /\ req'[d] = req[d]
            /\ wrote'[d] = wrote[d] /\ charged'[d] = charged[d] /\ pick'[d] = pick[d],
         \/ charged'[c] = charged[c] /\ wrote'[c] = wrote[c]
         \/ pc[c] \notin {"publish", "done"}
  PROVE  PayInv'
  <1>1. ASSUME NEW d \in Calls PROVE PaidByPc(d)'
    BY OthersPay DEF PayInv
  <1>2. OnlyWriters' /\ UsesCounted'
    BY TablesKept
  <1> QED BY <1>1, <1>2 DEF PayInv

(* Before the transaction nothing is paid. *)
LEMMA PayCheck ==
  ASSUME PayInv, LogInv', NEW c \in Calls,
         \/ Start(c) \/ CheckGranted(c) \/ CheckDenied(c) \/ CheckAsks(c) \/ OpenRequest(c)
         \/ LookupFinds(c) \/ LookupMisses(c)
  PROVE  PayInv'
  <1> USE DEF Goto, tables, handler
  <1>1. /\ PaidByPc(c) /\ TypeOK /\ WroteByPc
        /\ pc[c] \in {"idle", "check", "request", "lookup"} /\ charged[c] = {} /\ wrote[c] = {}
    BY DEF PayInv, LogInv, PaidByPc, WroteByPc, Start, CheckGranted, CheckDenied, CheckAsks,
           OpenRequest, LookupFinds, LookupMisses
  <1>2. /\ UNCHANGED <<messages, uses, charged, pick>>
        /\ \A d \in Calls \ {c} : /\ pc'[d] = pc[d] /\ cap'[d] = cap[d] /\ req'[d] = req[d]
                                  /\ wrote'[d] = wrote[d]
    BY <1>1 DEF TypeOK, Start, CheckGranted, CheckDenied, CheckAsks, OpenRequest, LookupFinds,
                LookupMisses
  <1>3. PaidByPc(c)'
    <2>1. CASE Start(c)
      <3>1. /\ pc'[c] = "check" /\ cap'[c] = Append0 /\ charged'[c] = {} /\ wrote'[c] = {}
        BY <1>1, <2>1 DEF Start, PaidByPc, TypeOK
      <3> QED BY <3>1, CapabilitiesDiffer DEF PaidByPc
    <2>2. CASE CheckGranted(c)
      <3>1. /\ pc'[c] \in {"check", "lookup"} /\ charged'[c] = {} /\ wrote'[c] = {}
            /\ req'[c] = req[c]
            /\ pc'[c] = "lookup" => cap'[c] = Append0
            /\ cap'[c] = Invoke => req[c].command
        BY <1>1, <2>2, CapabilitiesDiffer DEF CheckGranted, SecondCapability, TypeOK
      <3> QED BY <3>1 DEF PaidByPc
    <2>3. CASE CheckDenied(c) \/ CheckAsks(c) \/ LookupFinds(c)
      <3>1. /\ pc'[c] \in {"done", "request"} /\ charged'[c] = {} /\ wrote'[c] = {}
            /\ req'[c] = req[c] /\ cap'[c] = cap[c] /\ pc[c] # "idle"
        BY <1>1, <2>3 DEF CheckDenied, CheckAsks, LookupFinds, TypeOK
      <3> QED BY <1>1, <3>1 DEF PaidByPc
    <2>4. CASE OpenRequest(c)
      <3>1. /\ pc'[c] = "emit" /\ charged'[c] = {} /\ wrote'[c] = {"request"}
            /\ req'[c] = req[c] /\ cap'[c] = cap[c] /\ pc[c] = "request"
        BY <1>1, <2>4 DEF OpenRequest, TypeOK
      <3> QED BY <1>1, <3>1 DEF PaidByPc
    <2>5. CASE LookupMisses(c)
      <3>1. /\ pc'[c] = "pick" /\ charged'[c] = {} /\ wrote'[c] = {} /\ cap'[c] = Append0
            /\ req'[c] = req[c]
        BY <1>1, <2>5 DEF LookupMisses, PaidByPc, TypeOK
      <3>2. Paid(c, Prior(c))'
        BY <3>1, CapabilitiesDiffer, NothingPaid DEF Paid, Prior, ViaScope
      <3> QED BY <3>1, <3>2, CapabilitiesDiffer DEF PaidByPc
    <2> QED BY <2>1, <2>2, <2>3, <2>4, <2>5
  <1> QED BY <1>1, <1>2, <1>3, PayStep

(* Leaving a capability that is paid, for the second one or for the counter. *)
LEMMA PayAdvance ==
  ASSUME PayInv, NEW c \in Calls, pc[c] # "idle", wrote[c] = {},
         Advance(c), UNCHANGED <<req, wrote>>,
         IF ViaScope(c) THEN charged'[c] = {} ELSE ExactlyFor(charged'[c], Reached(c))
  PROVE  PaidByPc(c)'
  <1>0. /\ PaidByPc(c) /\ cap[c] \in Capabilities /\ ViaScope(c)' = ViaScope(c)
        /\ wrote'[c] = {} /\ req'[c] = req[c]
    BY DEF PayInv, LogInv, TypeOK, ViaScope
  <1>1. CASE SecondCapability(c)
    <2>1. pc'[c] = "pick" /\ cap'[c] = Invoke
      BY <1>1 DEF Advance, Goto, PayInv, LogInv, TypeOK
    <2>2. Prior(c)' = Reached(c)
      BY <1>1, <2>1, CapabilitiesDiffer DEF SecondCapability, Prior, Reached
    <2>3. Paid(c, Prior(c))'
      BY <1>0, <2>2 DEF Paid
    <2> QED BY <1>0, <1>1, <2>1, <2>3 DEF PaidByPc, SecondCapability
  <1>2. CASE ~SecondCapability(c)
    <2>1. pc'[c] = "counter" /\ cap'[c] = cap[c]
      BY <1>2 DEF Advance, Goto, PayInv, LogInv, TypeOK
    <2>2. Needs(c)' = Reached(c)
      BY <1>0, <1>2, CapabilitiesDiffer DEF SecondCapability, Prior, Reached, Needs, PaidByPc
    <2>3. Paid(c, Needs(c))'
      BY <1>0, <2>2 DEF Paid
    <2> QED BY <1>0, <2>1, <2>3 DEF PaidByPc
  <1> QED BY <1>1, <1>2

LEMMA PayCharge ==
  ASSUME PayInv, LogInv', NEW c \in Calls,
         ScopePays(c) \/ PickGrant(c) \/ Charge(c) \/ ChargeLast(c)
  PROVE  PayInv'
  <1> USE DEF tables, handler
  <1>1. /\ PaidByPc(c) /\ TypeOK /\ pc[c] \in {"pick", "charge"} /\ wrote[c] = {}
        /\ Paid(c, Prior(c)) /\ cap[c] \in Capabilities
    BY DEF PayInv, LogInv, TypeOK, PaidByPc, WroteByPc, ScopePays, PickGrant, Charge, ChargeLast, Use
  <1>2. /\ UNCHANGED <<messages, uses, wrote, req>>
        /\ \A d \in Calls \ {c} : /\ pc'[d] = pc[d] /\ cap'[d] = cap[d]
                                  /\ charged'[d] = charged[d] /\ pick'[d] = pick[d]
    BY <1>1 DEF TypeOK, ScopePays, PickGrant, Charge, ChargeLast, Use, Advance, Goto
  <1>3. cap[c] \notin Prior(c)
    BY <1>1, CapabilitiesDiffer DEF Prior
  <1>4. CASE ScopePays(c)
    <2>1. ViaScope(c) /\ Advance(c) /\ charged'[c] = {}
      BY <1>1, <1>4 DEF ScopePays, Paid
    <2> QED BY <1>1, <1>2, <2>1, PayAdvance, PayStep
  <1>5. CASE PickGrant(c)
    <2>1. /\ pc'[c] = "charge" /\ charged' = charged /\ cap' = cap
          /\ ~ViaScope(c) /\ pick'[c] \in LiveGrants(c)
      BY <1>1, <1>5 DEF PickGrant, Goto, TypeOK, Oldest
    <2>2. GrantOf[pick'[c]].capability = cap[c]
      BY <2>1 DEF LiveGrants, Covers
    <2>3. Paid(c, Prior(c))'
      BY <1>1, <1>2, <2>1 DEF Paid, Prior, ViaScope
    <2>4. PaidByPc(c)'
      BY <1>1, <1>2, <2>1, <2>2, <2>3 DEF PaidByPc, ViaScope
    <2> QED BY <1>1, <1>2, <2>4, PayStep
  <1>6. CASE Charge(c) \/ ChargeLast(c)
    <2>1. /\ pc[c] = "charge" /\ charged'[c] = charged[c] \cup {pick[c]}
          /\ pick[c] \in Grants /\ ~ViaScope(c) /\ GrantOf[pick[c]].capability = cap[c]
      BY <1>1, <1>6 DEF Charge, ChargeLast, Use, TypeOK, PaidByPc
    <2>2. ExactlyFor(charged[c], Prior(c))
      BY <1>1, <2>1 DEF Paid
    <2>3. ExactlyFor(charged'[c], Reached(c))
      <3>1. PICK g \in Grants, k \in Capabilities, S \in SUBSET Grants, K \in SUBSET Capabilities :
               g = pick[c] /\ k = cap[c] /\ S = charged[c] /\ K = Prior(c)
        BY <1>1, <2>1 DEF TypeOK, Prior, Capabilities
      <3>2. ExactlyFor(S \cup {g}, K \cup {k})
        <4>1. k \notin K /\ GrantOf[g].capability = k /\ ExactlyFor(S, K)
          BY <1>3, <2>1, <2>2, <3>1
        <4> QED BY <4>1, OneMorePaid
      <3> QED BY <2>1, <3>1, <3>2 DEF Reached
    <2>4. CASE Charge(c)
      BY <1>1, <1>2, <2>1, <2>3, <2>4, PayAdvance, PayStep DEF Charge
    <2>5. CASE ChargeLast(c)
      <3>1. pc'[c] = "emit" /\ cap' = cap
        BY <1>1, <2>5 DEF ChargeLast, Goto, TypeOK
      <3>2. Paid(c, Reached(c))'
        BY <1>2, <2>1, <2>3, <3>1 DEF Paid, Reached, Prior, ViaScope
      <3>3. PaidByPc(c)'
        BY <1>1, <1>2, <2>1, <3>1, <3>2 DEF PaidByPc
      <3> QED BY <1>1, <1>2, <3>3, PayStep
    <2> QED BY <1>6, <2>4, <2>5
  <1> QED BY <1>4, <1>5, <1>6

(* The counter, the INSERT and the emits leave what was paid alone. *)
LEMMA PayInsert ==
  ASSUME PayInv, LogInv', NEW c \in Calls,
         ReadCounter(c) \/ BumpCounter(c) \/ InsertMessage(c)
  PROVE  PayInv'
  <1> USE DEF Goto, tables, handler
  <1>1. /\ PaidByPc(c) /\ TypeOK /\ pc[c] \in {"counter", "bump", "insert"}
        /\ Paid(c, Needs(c)) /\ wrote[c] \subseteq {"counter"}
    BY DEF PayInv, LogInv, PaidByPc, WroteByPc, ReadCounter, BumpCounter, InsertMessage
  <1>2. /\ UNCHANGED <<messages, uses, charged, pick, cap, req>>
        /\ \A d \in Calls \ {c} : pc'[d] = pc[d] /\ wrote'[d] = wrote[d]
        /\ pc'[c] \in {"bump", "insert", "emit"}
        /\ wrote'[c] \subseteq {"counter", "message"}
        /\ wrote'[c] = wrote[c] \cup {"message"} \/ pc'[c] # "emit"
    BY <1>1 DEF TypeOK, ReadCounter, BumpCounter, InsertMessage
  <1>3. Paid(c, Needs(c))'
    BY <1>1, <1>2 DEF Paid, Needs, ViaScope
  <1>4. PaidByPc(c)'
    BY <1>1, <1>2, <1>3 DEF PaidByPc
  <1> QED BY <1>1, <1>2, <1>4, PayStep

LEMMA PayEmit ==
  ASSUME PayInv, LogInv', NEW c \in Calls,
         \/ ReadHead(c) \/ EmitNext(c) \/ EmitRevoked(c) \/ EmitLast(c)
         \/ Publish(c) \/ LoseAck(c)
  PROVE  PayInv'
  <1> USE DEF tables, handler
  <1>1. /\ PaidByPc(c) /\ TypeOK /\ pc[c] \in {"emit", "audit", "publish"}
        /\ pc[c] = "publish" => wrote[c] # {}
    BY DEF PayInv, LogInv, WroteByPc, ReadHead, EmitNext, EmitRevoked, EmitLast, AppendAudit,
           Publish, LoseAck
  <1>2. /\ UNCHANGED <<messages, uses, charged, wrote, pick, req>>
        /\ \A d \in Calls \ {c} : pc'[d] = pc[d] /\ cap'[d] = cap[d]
    BY <1>1 DEF TypeOK, ReadHead, EmitNext, EmitRevoked, EmitLast, AppendAudit, Publish, LoseAck,
                Advance, Goto
  <1>3. CASE EmitRevoked(c)
    <2>1. pc[c] = "audit" /\ wrote[c] = {} /\ Advance(c)
      BY <1>3 DEF EmitRevoked, AppendAudit
    <2>2. Paid(c, Reached(c))
      BY <1>1, <2>1 DEF PaidByPc
    <2>3. PaidByPc(c)'
      BY <1>2, <2>1, <2>2, PayAdvance DEF Paid
    <2> QED BY <1>2, <2>3, PayStep
  <1>4. CASE ReadHead(c) \/ EmitNext(c) \/ EmitLast(c) \/ Publish(c) \/ LoseAck(c)
    <2>1. /\ cap' = cap /\ pc'[c] \in {"emit", "audit", "commit", "done"}
          /\ pc'[c] \in {"emit", "audit"} => pc[c] \in {"emit", "audit"}
      BY <1>1, <1>4 DEF ReadHead, EmitNext, EmitLast, AppendAudit, Publish, LoseAck, Goto, TypeOK
    <2>2. /\ Paid(c, Reached(c))' = Paid(c, Reached(c))
          /\ Paid(c, Needs(c))' = Paid(c, Needs(c))
      BY <1>2, <2>1 DEF Paid, Reached, Needs, Prior, ViaScope
    <2>3. PaidByPc(c)'
      BY <1>1, <1>2, <2>1, <2>2 DEF PaidByPc
    <2> QED BY <1>2, <2>3, PayStep
  <1> QED BY <1>3, <1>4

LEMMA PayRollback ==
  ASSUME PayInv, LogInv', NEW c \in Calls,
         NothingToPick(c) \/ CounterConflict(c) \/ InsertConflict(c) \/ LoseTx(c)
  PROVE  PayInv'
  <1>1. /\ UNCHANGED <<messages, uses, pick, cap, req>> /\ Rollback(c)
        /\ pc[c] \notin {"idle", "publish", "done"} /\ PaidByPc(c) /\ TypeOK
    BY DEF NothingToPick, CounterConflict, InsertConflict, LoseTx, InTx, tables, PayInv, LogInv
  <1>2. /\ pc'[c] = "done" /\ charged'[c] = {} /\ wrote'[c] = {}
        /\ \A d \in Calls \ {c} : /\ pc'[d] = pc[d] /\ charged'[d] = charged[d]
                                  /\ wrote'[d] = wrote[d]
    BY <1>1 DEF Rollback, Goto, TypeOK
  <1>3. PaidByPc(c)'
    BY <1>1, <1>2 DEF PaidByPc
  <1> QED BY <1>1, <1>2, <1>3, PayStep

(* COMMIT: the uses of the grants charged grow by the one new message. *)
LEMMA PayCommit ==
  ASSUME PayInv, LogInv', NEW c \in Calls, Commit(c)
  PROVE  PayInv'
  <1> DEFINE row == [call |-> c, seq |-> SeqOf(c)]
  <1>1. /\ PaidByPc(c) /\ TypeOK /\ Rows /\ OnlyWriters /\ UsesCounted
        /\ pc[c] = "commit" /\ wrote[c] \in {{"request"}, {"counter", "message"}}
    BY DEF PayInv, LogInv, WroteByPc, Commit
  <1>2. /\ UNCHANGED <<charged, wrote, cap, req, pick>> /\ pc'[c] = "publish"
        /\ \A d \in Calls \ {c} : pc'[d] = pc[d]
        /\ ApplyWrites(c)
    BY <1>1 DEF Commit, handler, Goto, TypeOK
  <1>3. ASSUME NEW d \in Calls PROVE PaidByPc(d)'
    <2>1. CASE d = c
      <3>1. Paid(c, Needs(c))' = Paid(c, Needs(c))
        BY <1>2 DEF Paid, Needs, ViaScope
      <3> QED BY <1>1, <1>2, <2>1, <3>1 DEF PaidByPc
    <2>2. CASE d # c
      BY <1>2, <2>2, OthersPay DEF PayInv
    <2> QED BY <2>1, <2>2
  <1>4. CASE wrote[c] = {"request"}
    <2>1. messages' = messages /\ charged[c] = {}
      BY <1>1, <1>2, <1>4 DEF ApplyWrites, PaidByPc
    <2>2. \A g \in Grants : uses'[g] = uses[g] /\ PaidBy(g)' = PaidBy(g)
      BY <1>2, <2>1 DEF ApplyWrites, PaidBy
    <2>3. OnlyWriters' /\ UsesCounted'
      BY <1>1, <1>2, <2>1, <2>2 DEF OnlyWriters, UsesCounted
    <2> QED BY <1>3, <2>3 DEF PayInv
  <1>5. CASE wrote[c] = {"counter", "message"}
    <2>1. messages' = messages \cup {row} /\ row \notin messages /\ row.call = c
      BY <1>1, <1>2, <1>5 DEF ApplyWrites, Rows
    <2> HIDE DEF row
    <2>2. OnlyWriters'
      BY <1>1, <1>2, <1>5, <2>1 DEF OnlyWriters
    <2>3. IsFiniteSet(messages')
      BY <1>1, <2>1, FS_AddElement DEF UsesCounted
    <2>4. ASSUME NEW g \in Grants PROVE uses'[g] = Cardinality(PaidBy(g)')
      <3>1. IsFiniteSet(PaidBy(g)) /\ row \notin PaidBy(g) /\ uses[g] = Cardinality(PaidBy(g))
        BY <1>1, <2>1, FS_Subset DEF UsesCounted, PaidBy
      <3>2. CASE g \in charged[c]
        <4>1. PaidBy(g)' = PaidBy(g) \cup {row}
          BY <1>2, <2>1, <3>2 DEF PaidBy
        <4>2. uses'[g] = uses[g] + 1
          BY <1>2, <3>2 DEF ApplyWrites
        <4> QED BY <3>1, <4>1, <4>2, FS_AddElement
      <3>3. CASE g \notin charged[c]
        <4>1. PaidBy(g)' = PaidBy(g)
          BY <1>2, <2>1, <3>3 DEF PaidBy
        <4>2. uses'[g] = uses[g]
          BY <1>2, <3>3 DEF ApplyWrites
        <4> QED BY <3>1, <4>1, <4>2
      <3> QED BY <3>2, <3>3
    <2> QED BY <1>3, <2>2, <2>3, <2>4 DEF PayInv, UsesCounted
  <1> QED BY <1>1, <1>4, <1>5

LEMMA PayNext == PayInv /\ [Next]_vars => PayInv'
  <1> SUFFICES ASSUME PayInv, [Next]_vars PROVE PayInv'
    OBVIOUS
  <1>1. LogInv'
    BY LogNextStep DEF PayInv
  <1>2. CASE UNCHANGED vars
    <2>1. UNCHANGED <<pc, cap, req, pick, charged, wrote, uses, messages>>
      BY <1>2 DEF vars, handler, tables
    <2>2. \A d \in Calls : PaidByPc(d)'
      BY <2>1 DEF PayInv, PaidByPc, Paid, Prior, Reached, Needs, ViaScope
    <2>3. OnlyWriters' /\ UsesCounted'
      BY <2>1 DEF PayInv, OnlyWriters, UsesCounted, PaidBy
    <2> QED BY <1>1, <2>2, <2>3 DEF PayInv
  <1>3. CASE AllDone
    BY <1>2, <1>3 DEF AllDone
  <1>4. ASSUME NEW c \in Calls, Start(c) \/ Step(c) \/ LoseTx(c) \/ LoseAck(c)
        PROVE  PayInv'
    BY <1>1, <1>4, PayCheck, PayCharge, PayInsert, PayEmit, PayRollback, PayCommit DEF Step
  <1> QED BY <1>2, <1>3, <1>4 DEF Next

THEOREM PayInvariant == Spec => []PayInv
  <1>1. Init => PayInv
    <2> SUFFICES ASSUME Init PROVE PayInv
      OBVIOUS
    <2>1. \A c \in Calls : PaidByPc(c)
      BY CapabilitiesDiffer DEF Init, PaidByPc
    <2>2. OnlyWriters
      BY DEF Init, OnlyWriters
    <2>3. UsesCounted
      <3>1. messages = {} /\ \A g \in Grants : uses[g] = 0 /\ PaidBy(g) = {}
        BY DEF Init, PaidBy
      <3> QED BY <3>1, FS_EmptySet DEF UsesCounted
    <2> QED BY <2>1, <2>2, <2>3, LogInit0 DEF PayInv
  <1> QED BY <1>1, PayNext, PTL DEF Spec

(***************************************************************************)
(* The cap on a grant's uses.  Of the transactions that have a grant in use *)
(* at a time, one at most did not race for it, and it chose the grant when  *)
(* a use was left.                                                          *)
(***************************************************************************)
Unraced(g) == {m \in messages : g \in charged[m.call] \ raced[m.call]}
First(g, d) == InUse(g, d) /\ g \notin raced[d]

ActiveWhileLeft(g) == active[g] <=> (GrantOf[g].max = Unlimited \/ uses[g] < GrantOf[g].max)
Room(g) ==
    GrantOf[g].max # Unlimited =>
        /\ Cardinality(Unraced(g)) <= GrantOf[g].max
        /\ (\E d \in Calls : First(g, d)) => Cardinality(Unraced(g)) < GrantOf[g].max
OneFirst(g) == \A c, d \in Calls : First(g, c) /\ First(g, d) => c = d

Capped == \A g \in Grants : ActiveWhileLeft(g) /\ Room(g) /\ OneFirst(g)

LEMMA UnracedCount ==
  ASSUME PayInv, NEW g \in Grants
  PROVE  /\ IsFiniteSet(Unraced(g)) /\ Cardinality(Unraced(g)) \in Nat
         /\ Cardinality(Unraced(g)) <= uses[g]
  <1>1. IsFiniteSet(PaidBy(g)) /\ uses[g] = Cardinality(PaidBy(g))
    BY FS_Subset DEF PayInv, UsesCounted, PaidBy
  <1>2. Unraced(g) \subseteq PaidBy(g)
    BY DEF Unraced, PaidBy
  <1> QED BY <1>1, <1>2, FS_Subset, FS_CardinalityType

(* A step that commits nothing and chooses nothing. *)
LEMMA CapKept ==
  ASSUME PayInv, Capped, NEW c \in Calls, UNCHANGED <<messages, uses, active, raced>>,
         \A d \in Calls \ {c} : pc'[d] = pc[d] /\ charged'[d] = charged[d] /\ pick'[d] = pick[d],
         \A g \in Grants : InUse(g, c)' => InUse(g, c),
         charged'[c] = charged[c] \/ pc[c] \notin {"publish", "done"}
  PROVE  Capped'
  <1>1. ASSUME NEW g \in Grants PROVE Unraced(g)' = Unraced(g)
    <2>1. ASSUME NEW m \in messages PROVE charged'[m.call] = charged[m.call]
      BY DEF PayInv, LogInv, TypeOK, Rows
    <2> QED BY <2>1 DEF Unraced
  <1>2. ASSUME NEW g \in Grants, NEW d \in Calls, First(g, d)' PROVE First(g, d)
    BY <1>2 DEF First, InUse
  <1> QED BY <1>1, <1>2 DEF Capped, ActiveWhileLeft, Room, OneFirst

LEMMA CapPick ==
  ASSUME PayInv, Capped, NEW c \in Calls, PickGrant(c)
  PROVE  Capped'
  <1>1. PICK g \in Grants : /\ Oldest(g, LiveGrants(c))
                            /\ pick' = [pick EXCEPT ![c] = g]
                            /\ raced' = [raced EXCEPT ![c] = IF Contended(g, c) THEN @ \cup {g} ELSE @]
    BY DEF PickGrant
  <1>2. /\ TypeOK /\ UNCHANGED <<messages, uses, active, charged>>
        /\ pc[c] = "pick" /\ pc' = [pc EXCEPT ![c] = "charge"]
    BY DEF PickGrant, Goto, tables, PayInv, LogInv
  <1>3. g \in LiveGrants(c)
    BY <1>1 DEF Oldest
  <1>4. ASSUME NEW h \in Grants PROVE Unraced(h)' = Unraced(h)
    <2>1. ASSUME NEW m \in messages PROVE raced'[m.call] = raced[m.call]
      <3>1. m.call # c /\ m.call \in Calls
        BY <1>2 DEF PayInv, LogInv, TypeOK, Rows
      <3> QED BY <1>1, <1>2, <3>1 DEF TypeOK
    <2> QED BY <1>2, <2>1 DEF Unraced
  <1>5. ASSUME NEW h \in Grants, NEW d \in Calls, First(h, d)', h # g \/ d # c
        PROVE  First(h, d)
    BY <1>1, <1>2, <1>5 DEF First, InUse, TypeOK, InTx
  <1>6. First(g, c)' => ~Contended(g, c)
    BY <1>1, <1>2 DEF First, TypeOK
  <1>7. ~Contended(g, c) => \A d \in Calls \ {c} : ~First(g, d)
    BY DEF Contended, First
  <1>8. ASSUME NEW h \in Grants PROVE ActiveWhileLeft(h)' /\ OneFirst(h)'
    BY <1>2, <1>5, <1>6, <1>7 DEF Capped, ActiveWhileLeft, OneFirst
  <1>9. ASSUME NEW h \in Grants PROVE Room(h)'
    <2>1. CASE h # g
      BY <1>4, <1>5, <2>1 DEF Capped, Room
    <2>2. CASE h = g
      <3>1. GrantOf[g].max # Unlimited => Cardinality(Unraced(g)) < GrantOf[g].max
        <4>1. GrantOf[g].max # Unlimited => uses[g] < GrantOf[g].max
          BY <1>3 DEF LiveGrants, Live
        <4>2. uses[g] \in Nat /\ GrantOf[g].max \in Nat
          BY <1>2, GrantsAssumption DEF TypeOK
        <4> QED BY <4>1, <4>2, UnracedCount
      <3>2. Cardinality(Unraced(g)) \in Nat /\ GrantOf[g].max \in Nat
        BY UnracedCount, GrantsAssumption
      <3> QED BY <1>4, <2>2, <3>1, <3>2 DEF Room
    <2> QED BY <2>1, <2>2
  <1> QED BY <1>8, <1>9 DEF Capped

(* COMMIT: a transaction that did not race was the only such one.  *)
LEMMA CapCommit ==
  ASSUME PayInv, Capped, NEW c \in Calls, Commit(c)
  PROVE  Capped'
  <1> DEFINE row == [call |-> c, seq |-> SeqOf(c)]
  <1>1. /\ PaidByPc(c) /\ TypeOK /\ Rows /\ pc[c] = "commit"
        /\ wrote[c] \in {{"request"}, {"counter", "message"}}
    BY DEF PayInv, LogInv, WroteByPc, Commit
  <1>2. /\ UNCHANGED <<charged, pick, raced>> /\ pc' = [pc EXCEPT ![c] = "publish"] /\ ApplyWrites(c)
    BY DEF Commit, handler, Goto
  <1>3. ASSUME NEW g \in Grants, NEW d \in Calls, First(g, d)' PROVE First(g, d) /\ d # c
    BY <1>1, <1>2, <1>3 DEF First, InUse, InTx, TypeOK
  <1>4. ASSUME NEW g \in Grants PROVE ActiveWhileLeft(g)'
    <2>1. /\ uses[g] \in Nat /\ GrantOf[g].max \in Nat /\ ActiveWhileLeft(g)
          /\ active'[g] = (active[g] /\ ~(g \in charged[c] /\ Exhausts(g)))
          /\ uses'[g] = IF g \in charged[c] THEN uses[g] + 1 ELSE uses[g]
      BY <1>1, <1>2, GrantsAssumption DEF TypeOK, ApplyWrites, Capped
    <2> DEFINE Left == GrantOf[g].max = Unlimited \/ uses[g] < GrantOf[g].max
               spent == g \in charged[c] /\ Exhausts(g)
    <2>2. Left' <=> (Left /\ ~spent)
      BY <2>1 DEF Exhausts
    <2>3. active[g] <=> Left
      BY <2>1 DEF ActiveWhileLeft
    <2>4. active'[g] <=> (active[g] /\ ~spent)
      BY <2>1
    <2>5. active'[g] <=> Left'
      <3> HIDE DEF Left, spent
      <3> QED BY <2>2, <2>3, <2>4
    <2> QED BY <2>5 DEF ActiveWhileLeft
  <1>5. ASSUME NEW g \in Grants PROVE OneFirst(g)'
    BY <1>3 DEF Capped, OneFirst
  <1>6. ASSUME NEW g \in Grants PROVE Room(g)'
    <2>1. Room(g) /\ OneFirst(g) /\ GrantOf[g].max \in Nat
      BY GrantsAssumption DEF Capped
    <2>2. Unraced(g)' = Unraced(g) \/ (First(g, c) /\ Unraced(g)' = Unraced(g) \cup {row} /\ row \notin Unraced(g))
      <3>1. CASE wrote[c] = {"request"}
        BY <1>2, <3>1 DEF ApplyWrites, Unraced
      <3>2. CASE wrote[c] = {"counter", "message"}
        <4>1. messages' = messages \cup {row} /\ row \notin messages /\ row.call = c
          BY <1>1, <1>2, <3>2 DEF ApplyWrites, Rows
        <4> HIDE DEF row
        <4>2. CASE g \in charged[c] \ raced[c]
          <5>1. First(g, c)
            BY <1>1, <4>2 DEF First, InUse, InTx
          <5>2. Unraced(g)' = Unraced(g) \cup {row} /\ row \notin Unraced(g)
            BY <1>2, <4>1, <4>2 DEF Unraced
          <5> QED BY <5>1, <5>2
        <4>3. CASE g \notin charged[c] \ raced[c]
          BY <1>2, <4>1, <4>3 DEF Unraced
        <4> QED BY <4>2, <4>3
      <3> QED BY <1>1, <3>1, <3>2
    <2> HIDE DEF row
    <2>3. CASE Unraced(g)' = Unraced(g)
      BY <1>3, <2>1, <2>3 DEF Room
    <2>4. CASE First(g, c) /\ Unraced(g)' = Unraced(g) \cup {row} /\ row \notin Unraced(g)
      <3>1. Cardinality(Unraced(g)') = Cardinality(Unraced(g)) + 1 /\ Cardinality(Unraced(g)) \in Nat
        BY <2>4, UnracedCount, FS_AddElement
      <3>2. ~(\E d \in Calls : First(g, d)')
        BY <1>3, <2>1, <2>4 DEF OneFirst
      <3>3. GrantOf[g].max # Unlimited => Cardinality(Unraced(g)) < GrantOf[g].max
        BY <2>1, <2>4 DEF Room
      <3> QED BY <2>1, <3>1, <3>2, <3>3 DEF Room
    <2> QED BY <2>2, <2>3, <2>4
  <1> QED BY <1>4, <1>5, <1>6 DEF Capped

LEMMA CapNext == PayInv /\ Capped /\ [Next]_vars => Capped'
  <1> SUFFICES ASSUME PayInv, Capped, [Next]_vars PROVE Capped'
    OBVIOUS
  <1>0. TypeOK
    BY DEF PayInv, LogInv
  <1>1. CASE UNCHANGED vars
    BY <1>1 DEF vars, handler, tables, Capped, ActiveWhileLeft, Room, OneFirst, Unraced, First, InUse
  <1>2. CASE AllDone
    BY <1>1, <1>2 DEF AllDone
  <1>3. ASSUME NEW c \in Calls, Start(c) \/ Step(c) \/ LoseTx(c) \/ LoseAck(c)
        PROVE  Capped'
    <2> DEFINE Quiet == /\ UNCHANGED <<messages, uses, active, raced>>
                        /\ \A d \in Calls \ {c} : /\ pc'[d] = pc[d] /\ charged'[d] = charged[d]
                                                    /\ pick'[d] = pick[d]
                        /\ \A g \in Grants : InUse(g, c)' => InUse(g, c)
                        /\ charged'[c] = charged[c] \/ pc[c] \notin {"publish", "done"}
    <2> USE <1>0 DEF Goto, tables, handler, InUse, InTx, TypeOK
    <2>1. CASE \/ Start(c) \/ CheckGranted(c) \/ CheckDenied(c) \/ CheckAsks(c)
               \/ OpenRequest(c) \/ LookupFinds(c) \/ LookupMisses(c)
      <3>1. charged[c] = {}
        BY <2>1 DEF PayInv, PaidByPc, Start, CheckGranted, CheckDenied, CheckAsks, OpenRequest, LookupFinds,
                    LookupMisses
      <3>2. Quiet
        BY <2>1, <3>1 DEF Start, CheckGranted, CheckDenied, CheckAsks, OpenRequest, LookupFinds, LookupMisses
      <3> QED BY <3>2, CapKept
    <2>2. CASE ScopePays(c) \/ Charge(c) \/ ChargeLast(c)
      <3>1. Quiet
        BY <2>2 DEF ScopePays, Charge, ChargeLast, Use, Advance
      <3> QED BY <3>1, CapKept
    <2>3. CASE NothingToPick(c) \/ CounterConflict(c) \/ InsertConflict(c) \/ LoseTx(c)
      <3>1. Quiet
        BY <2>3 DEF NothingToPick, CounterConflict, InsertConflict, LoseTx, Rollback
      <3> QED BY <3>1, CapKept
    <2>4. CASE ReadCounter(c) \/ BumpCounter(c) \/ InsertMessage(c) \/ Publish(c) \/ LoseAck(c)
      <3>1. Quiet
        BY <2>4 DEF ReadCounter, BumpCounter, InsertMessage, Publish, LoseAck
      <3> QED BY <3>1, CapKept
    <2>5. CASE ReadHead(c) \/ EmitNext(c) \/ EmitRevoked(c) \/ EmitLast(c)
      <3>1. Quiet
        BY <2>5 DEF ReadHead, EmitNext, EmitRevoked, EmitLast, AppendAudit, Advance
      <3> QED BY <3>1, CapKept
    <2> QED BY <1>3, <2>1, <2>2, <2>3, <2>4, <2>5, CapPick, CapCommit DEF Step
  <1> QED BY <1>1, <1>2, <1>3 DEF Next

LEMMA CapInvariant == Spec => [](PayInv /\ Capped)
  <1>1. Init => Capped
    <2> SUFFICES ASSUME Init, NEW g \in Grants PROVE ActiveWhileLeft(g) /\ Room(g) /\ OneFirst(g)
      BY DEF Capped
    <2>1. /\ messages = {} /\ uses[g] = 0 /\ active[g] = TRUE /\ \A d \in Calls : ~InUse(g, d)
          /\ GrantOf[g].max \in Nat
      BY GrantsAssumption DEF Init, InUse, InTx
    <2>2. Cardinality(Unraced(g)) = 0
      BY <2>1, FS_EmptySet DEF Unraced
    <2> QED BY <2>1, <2>2 DEF ActiveWhileLeft, Room, OneFirst, First, Unlimited
  <1> QED BY <1>1, CapNext, PayInvariant, PTL DEF Spec

(* Every message has paid one use of one grant for each capability it needs, *)
(* uses_count counts the messages that paid, a grant is active just while a  *)
(* use is left, and max_uses caps those that chose it with no other use of   *)
(* it in flight: whatever calls race for the last use, fail after charging,  *)
(* are denied or replayed.                                                   *)
THEOREM PaidExactlyOnce == Spec => []PaidOnce
  <1>1. PayInv /\ Capped => PaidOnce
    <2> SUFFICES ASSUME PayInv, Capped PROVE PaidOnce
      OBVIOUS
    <2>1. ASSUME NEW m \in messages, NEW k \in Needs(m.call), ~ViaScope(m.call)
          PROVE  Cardinality(For(charged[m.call], k)) = 1
      <3>1. m.call \in Calls /\ Paid(m.call, Needs(m.call)) /\ k \in Capabilities
        BY CapabilitiesDiffer DEF PayInv, LogInv, TypeOK, OnlyWriters, PaidByPc, Needs
      <3>2. PICK g \in Grants : For(charged[m.call], k) = {g}
        BY <2>1, <3>1 DEF Paid, ExactlyFor
      <3> QED BY <3>2, FS_Singleton
    <2>2. ASSUME NEW m \in messages, ViaScope(m.call) PROVE charged[m.call] = {}
      BY <2>2 DEF PayInv, LogInv, TypeOK, OnlyWriters, PaidByPc, Paid
    <2>3. ASSUME NEW g \in Grants
          PROVE  /\ active[g] <=> (GrantOf[g].max = Unlimited \/ uses[g] < GrantOf[g].max)
                 /\ GrantOf[g].max # Unlimited =>
                       Cardinality({m \in messages : g \in charged[m.call] \ raced[m.call]}) <= GrantOf[g].max
      BY DEF Capped, ActiveWhileLeft, Room, Unraced
    <2> QED BY <2>1, <2>2, <2>3 DEF PaidOnce, PayInv, UsesCounted, PaidBy, Needs, For
  <1> QED BY <1>1, CapInvariant, PTL

(***************************************************************************)
(* The refinement.  A set of rows numbered 1 .. n without repetition is a  *)
(* sequence of calls, and a row numbered n + 1 appends its call.           *)
(***************************************************************************)
Numbered(M, n) == {m.seq : m \in M} = 1 .. n /\ \A m, k \in M : m.seq = k.seq => m = k

LEMMA NumberedIsFinite ==
  ASSUME NEW M, NEW n \in Nat, Numbered(M, n)
  PROVE  Cardinality(M) = n
  <1> DEFINE f == [i \in 1 .. n |-> CHOOSE m \in M : m.seq = i]
  <1>1. \A i \in 1 .. n : f[i] \in M /\ f[i].seq = i
    BY DEF Numbered
  <1>2. \A m \in M : m.seq \in 1 .. n /\ f[m.seq] = m
    BY DEF Numbered
  <1>3. f \in [1 .. n -> M]
    BY <1>1
  <1> HIDE DEF f
  <1>4. f \in Bijection(1 .. n, M)
    BY <1>1, <1>2, <1>3 DEF Bijection, Injection, Surjection, IsInjective
  <1>5. IsFiniteSet(1 .. n) /\ Cardinality(1 .. n) = n
    BY FS_Interval
  <1> QED BY <1>4, <1>5, FS_Bijection DEF ExistsBijection

LEMMA InTheirOrder ==
  ASSUME NEW M, NEW n \in Nat, Numbered(M, n)
  PROVE  /\ InOrder(M) \in [1 .. n -> {m.call : m \in M}]
         /\ \A m \in M : m.seq \in 1 .. n /\ InOrder(M)[m.seq] = m.call
         /\ \A i \in 1 .. n : \E m \in M : m.seq = i /\ InOrder(M)[i] = m.call
  <1>1. Cardinality(M) = n
    BY NumberedIsFinite
  <1>2. \A i \in 1 .. n : /\ (CHOOSE m \in M : m.seq = i) \in M
                          /\ (CHOOSE m \in M : m.seq = i).seq = i
    BY DEF Numbered
  <1>3. \A m \in M : m.seq \in 1 .. n /\ (CHOOSE k \in M : k.seq = m.seq) = m
    BY DEF Numbered
  <1>4. InOrder(M) = [i \in 1 .. n |-> (CHOOSE m \in M : m.seq = i).call]
    BY <1>1 DEF InOrder
  <1>5. \A i \in 1 .. n : \E m \in M : m.seq = i /\ InOrder(M)[i] = m.call
    BY <1>2, <1>4
  <1>6. \A m \in M : m.seq \in 1 .. n /\ InOrder(M)[m.seq] = m.call
    BY <1>3, <1>4
  <1>7. InOrder(M) \in [1 .. n -> {m.call : m \in M}]
    <2>1. ASSUME NEW i \in 1 .. n
          PROVE  (CHOOSE m \in M : m.seq = i).call \in {m.call : m \in M}
      <3>1. PICK m \in M : m = CHOOSE k \in M : k.seq = i
        BY <1>2
      <3> QED BY <3>1
    <2> QED BY <1>4, <2>1
  <1> QED BY <1>5, <1>6, <1>7

LEMMA NextRowAppends ==
  ASSUME NEW M, NEW n \in Nat, Numbered(M, n), NEW row, row.seq = n + 1
  PROVE  InOrder(M \cup {row}) = Append(InOrder(M), row.call)
  <1> DEFINE N == M \cup {row}
  <1>1. Numbered(N, n + 1)
    <2>1. \A m \in M : m.seq \in 1 .. n
      BY DEF Numbered
    <2>2. {m.seq : m \in N} = (1 .. n) \cup {n + 1}
      BY DEF Numbered
    <2>3. (1 .. n) \cup {n + 1} = 1 .. (n + 1)
      OBVIOUS
    <2> QED BY <2>1, <2>2, <2>3 DEF Numbered
  <1>2. /\ InOrder(M) \in [1 .. n -> {m.call : m \in M}]
        /\ \A m \in M : m.seq \in 1 .. n /\ InOrder(M)[m.seq] = m.call
        /\ \A i \in 1 .. n : \E m \in M : m.seq = i /\ InOrder(M)[i] = m.call
    BY InTheirOrder
  <1>3. /\ InOrder(N) \in [1 .. (n + 1) -> {m.call : m \in N}]
        /\ \A m \in N : m.seq \in 1 .. (n + 1) /\ InOrder(N)[m.seq] = m.call
    <2>1. n + 1 \in Nat
      OBVIOUS
    <2> HIDE DEF N
    <2> QED BY <1>1, <2>1, InTheirOrder
  <1>4. ASSUME NEW i \in 1 .. n PROVE InOrder(N)[i] = InOrder(M)[i]
    <2>1. PICK m \in M : m.seq = i /\ InOrder(M)[i] = m.call
      BY <1>2
    <2>2. m \in N
      OBVIOUS
    <2> HIDE DEF N
    <2> QED BY <1>3, <2>1, <2>2
  <1>5. InOrder(N)[n + 1] = row.call
    BY <1>3
  <1> HIDE DEF N
  <1>6. /\ InOrder(M) \in Seq({m.call : m \in M}) /\ Len(InOrder(M)) = n
        /\ InOrder(N) \in Seq({m.call : m \in N}) /\ Len(InOrder(N)) = n + 1
    BY <1>2, <1>3, SeqDef, LenProperties
  <1>7. Append(InOrder(M), row.call) = InOrder(N)
    BY <1>3, <1>4, <1>5, <1>6
  <1> QED BY <1>7 DEF N

(* GapFree makes every stream such a set of rows. *)
LEMMA StreamNumbered ==
  ASSUME LogInv, NEW s \in Streams
  PROVE  \E n \in Nat : Numbered(MessagesOf(s), n)
  <1>1. counter[s] \in Nat
    BY DEF LogInv, TypeOK
  <1>2. /\ {m.seq : m \in MessagesOf(s)} = 1 .. (counter[s] - 1)
        /\ \A m, k \in MessagesOf(s) : m.seq = k.seq => m = k
    BY DEF LogInv, GapFree
  <1>3. CASE counter[s] = 0
    <2>1. 1 .. (counter[s] - 1) = 1 .. 0
      BY <1>3
    <2> QED BY <1>2, <2>1 DEF Numbered
  <1>4. CASE counter[s] # 0
    <2>1. counter[s] - 1 \in Nat
      BY <1>1, <1>4
    <2> QED BY <1>2, <2>1 DEF Numbered
  <1> QED BY <1>3, <1>4

(* The rows of a stream are its log's entries. *)
LEMMA EntriesAreRows ==
  ASSUME LogInv, NEW s \in Streams
  PROVE  /\ \A m \in MessagesOf(s) : m.seq \in DOMAIN Entries[s] /\ Entries[s][m.seq] = m.call
         /\ \A i \in DOMAIN Entries[s] :
               \E m \in MessagesOf(s) : m.seq = i /\ Entries[s][i] = m.call
  <1>1. PICK n \in Nat : Numbered(MessagesOf(s), n)
    BY StreamNumbered
  <1>2. Entries[s] = InOrder(MessagesOf(s))
    BY DEF Entries
  <1> QED BY <1>1, <1>2, InTheirOrder

LEMMA EntriesKept ==
  ASSUME \A s \in Streams : MessagesOf(s)' = MessagesOf(s)
  PROVE  Entries' = Entries
  <1>1. ASSUME NEW s \in Streams PROVE InOrder(MessagesOf(s)') = InOrder(MessagesOf(s))
    OBVIOUS
  <1>2. Entries' = [s \in Streams |-> InOrder(MessagesOf(s)')]
    BY DEF Entries
  <1> QED BY <1>1, <1>2 DEF Entries

(* A call without a row is nowhere in the log. *)
LEMMA NotEntered ==
  ASSUME LogInv, NEW c \in Calls, \A m \in messages : m.call # c
  PROVE  \A s \in Streams : \A i \in DOMAIN Entries[s] : Entries[s][i] # c
  BY EntriesAreRows DEF MessagesOf

(***************************************************************************)
(* AnsweredAtEnd is inductive.                                             *)
(***************************************************************************)
LEMMA FateKept ==
  ASSUME FateInv, NEW c \in Calls, pc[c] # "done", pc'[c] # "idle",
         messages \subseteq messages', seen'[c] = seen[c] \/ pc'[c] # "publish",
         \A d \in Calls \ {c} : /\ pc'[d] = pc[d] /\ req'[d] = req[d] /\ answer'[d] = answer[d]
                                /\ seen'[d] = seen[d] /\ wrote'[d] = wrote[d],
         pc'[c] # "done" => answer'[c] = answer[c],
         pc'[c] = "publish" /\ "message" \in wrote'[c] =>
            [call |-> c, seq |-> SeqOf(c)] \in messages'
  PROVE  AnsweredAtEnd'
  BY DEF FateInv, AnsweredAtEnd, SeqOf

LEMMA FateNext == FateInv /\ [Next]_vars => FateInv'
  <1> SUFFICES ASSUME FateInv, [Next]_vars PROVE FateInv'
    OBVIOUS
  <1>0. PayInv' /\ TypeOK
    BY PayNext DEF FateInv, PayInv, LogInv
  <1>1. CASE UNCHANGED vars
    BY <1>0, <1>1 DEF vars, handler, tables, FateInv, AnsweredAtEnd, SeqOf
  <1>2. CASE AllDone
    BY <1>1, <1>2 DEF AllDone
  <1>3. ASSUME NEW c \in Calls, Start(c) \/ Step(c) \/ LoseTx(c) \/ LoseAck(c)
        PROVE  AnsweredAtEnd'
    <2> USE DEF Goto, tables, handler
    <2>1. CASE \/ Start(c) \/ CheckGranted(c) \/ CheckAsks(c) \/ OpenRequest(c) \/ LookupMisses(c)
               \/ ReadCounter(c) \/ BumpCounter(c) \/ InsertMessage(c)
      <3>1. /\ pc[c] # "done" /\ pc'[c] \notin {"idle", "done", "publish"}
            /\ messages' = messages /\ answer' = answer
            /\ \A d \in Calls \ {c} : /\ pc'[d] = pc[d] /\ req'[d] = req[d]
                                      /\ seen'[d] = seen[d] /\ wrote'[d] = wrote[d]
        BY <1>0, <2>1 DEF Start, CheckGranted, CheckAsks, OpenRequest, LookupMisses, ReadCounter,
                          BumpCounter, InsertMessage, TypeOK
      <3> QED BY <3>1, FateKept
    <2>2. CASE \/ ScopePays(c) \/ PickGrant(c) \/ Charge(c) \/ ChargeLast(c)
               \/ ReadHead(c) \/ EmitNext(c) \/ EmitRevoked(c) \/ EmitLast(c)
      <3>1. /\ pc[c] # "done" /\ pc'[c] \notin {"idle", "done", "publish"}
            /\ UNCHANGED <<messages, answer, req, seen, wrote>>
            /\ \A d \in Calls \ {c} : pc'[d] = pc[d]
        BY <1>0, <2>2 DEF ScopePays, PickGrant, Charge, ChargeLast, Use, Advance, ReadHead,
                          EmitNext, EmitRevoked, EmitLast, AppendAudit, TypeOK
      <3> QED BY <3>1, FateKept
    <2>3. CASE \/ CheckDenied(c) \/ LookupFinds(c) \/ NothingToPick(c) \/ CounterConflict(c)
               \/ InsertConflict(c) \/ Publish(c) \/ LoseTx(c) \/ LoseAck(c)
      <3>1. /\ pc[c] # "done" /\ pc'[c] = "done" /\ UNCHANGED <<messages, req, seen>>
            /\ \A d \in Calls \ {c} : /\ pc'[d] = pc[d] /\ answer'[d] = answer[d]
                                      /\ wrote'[d] = wrote[d]
        BY <1>0, <2>3 DEF CheckDenied, LookupFinds, NothingToPick, CounterConflict, InsertConflict,
                          Publish, LoseTx, LoseAck, Rollback, Answer, InTx, TypeOK
      <3> QED BY <3>1, FateKept
    <2>4. CASE Commit(c)
      <3>1. /\ pc[c] = "commit" /\ pc'[c] = "publish" /\ UNCHANGED <<answer, req, seen, wrote>>
            /\ \A d \in Calls \ {c} : pc'[d] = pc[d]
        BY <1>0, <2>4 DEF Commit, TypeOK
      <3>2. /\ messages \subseteq messages'
            /\ "message" \in wrote[c] => [call |-> c, seq |-> SeqOf(c)] \in messages'
        BY <2>4 DEF Commit, ApplyWrites
      <3> QED BY <3>1, <3>2, FateKept
    <2> QED BY <1>3, <2>1, <2>2, <2>3, <2>4 DEF Step
  <1> QED BY <1>0, <1>1, <1>2, <1>3 DEF Next, FateInv

THEOREM FateInvariant == Spec => []FateInv
  <1>1. Init => AnsweredAtEnd
    BY DEF Init, AnsweredAtEnd
  <1>2. FateInv <=> PayInv /\ AnsweredAtEnd
    BY DEF FateInv
  <1>3. AnsweredAtEnd /\ PayInv /\ [Next]_vars => AnsweredAtEnd'
    BY FateNext DEF FateInv
  <1> QED BY <1>1, <1>2, <1>3, PayInvariant, PTL DEF Spec

(***************************************************************************)
(* Every step is one of the log's, or changes nothing the log shows.       *)
(***************************************************************************)
LEMMA LogStart0 ==
  ASSUME FateInv, NEW c \in Calls, Start(c)
  PROVE  Log!LogNext
  <1>1. PICK r \in RequestsOf[c] : req' = [req EXCEPT ![c] = r]
    BY DEF Start
  <1>2. r \in Requests /\ req[c] = NoRequest /\ TypeOK /\ Rows
        /\ UNCHANGED <<messages, answer>>
    BY DEF Start, Requests, FateInv, PayInv, LogInv, AnsweredAtEnd, tables
  <1>3. \A s \in Streams : MessagesOf(s)' = MessagesOf(s)
    <2>1. \A m \in messages : m.call # c /\ m.call \in Calls
      BY <1>2 DEF Start, Rows, TypeOK
    <2>2. \A m \in messages : StreamOf(m.call)' = StreamOf(m.call)
      BY <1>1, <1>2, <2>1 DEF TypeOK, StreamOf
    <2> QED BY <1>2, <2>2 DEF MessagesOf
  <1>4. Log!Submit(c)
    BY <1>1, <1>2, <1>3, EntriesKept DEF Log!Submit
  <1> QED BY <1>4 DEF Log!LogNext

(* The steps that are refused, and the handlers' own. *)
LEMMA SameEntries ==
  ASSUME UNCHANGED <<messages, req>>
  PROVE  Entries' = Entries
  <1>1. \A s \in Streams : MessagesOf(s)' = MessagesOf(s)
    BY DEF MessagesOf, StreamOf
  <1> QED BY <1>1, EntriesKept

LEMMA LogRefuses ==
  ASSUME FateInv, NEW c \in Calls,
         \/ CheckDenied(c) \/ NothingToPick(c) \/ CounterConflict(c) \/ InsertConflict(c)
         \/ LoseTx(c) \/ LoseAck(c) \/ (Publish(c) /\ "request" \in wrote[c])
  PROVE  Log!LogNext
  <1>1. /\ TypeOK /\ Rows /\ WroteByPc /\ OnlyWriters /\ LogInv /\ AnsweredAtEnd
    BY DEF FateInv, PayInv, LogInv
  <1>2. Entries' = Entries /\ req' = req
    BY SameEntries DEF CheckDenied, NothingToPick, CounterConflict, InsertConflict, LoseTx,
                       LoseAck, Publish, tables
  <1>3. Log!Pending(c)
    BY <1>1, RequestsAssumption
       DEF CheckDenied, NothingToPick, CounterConflict, InsertConflict, LoseTx, LoseAck, Publish,
           InTx, TypeOK, AnsweredAtEnd, Log!Pending
  <1>4. CASE LoseTx(c) \/ LoseAck(c)
    <2>1. Answer(c, Log!Failed("error"))
      BY <1>4 DEF LoseTx, LoseAck
    <2>2. Log!Refuse(c)
      BY <1>2, <1>3, <2>1 DEF Log!Refuse, Log!Failures, Answer
    <2> QED BY <2>2 DEF Log!LogNext
  <1>5. CASE \/ CheckDenied(c) \/ NothingToPick(c) \/ CounterConflict(c) \/ InsertConflict(c)
             \/ (Publish(c) /\ "request" \in wrote[c])
    <2>1. PICK kind \in Log!Failures : Answer(c, Log!Failed(kind))
      BY <1>5 DEF CheckDenied, NothingToPick, CounterConflict, InsertConflict, Publish,
                  Log!Failures
    <2>2. \A m \in messages : m.call # c
      <3>1. CASE Publish(c) /\ "request" \in wrote[c]
        BY <1>1, <3>1 DEF Publish, WroteByPc, OnlyWriters
      <3>2. CASE CheckDenied(c) \/ NothingToPick(c) \/ CounterConflict(c) \/ InsertConflict(c)
        BY <1>1, <3>2 DEF CheckDenied, NothingToPick, CounterConflict, InsertConflict, Rows
      <3> QED BY <1>5, <3>1, <3>2
    <2>3. \A s \in Streams : \A i \in DOMAIN Entries[s] : Entries[s][i] # c
      BY <1>1, <2>2, NotEntered
    <2>4. Log!Refuse(c)
      BY <1>2, <1>3, <2>1, <2>3 DEF Log!Refuse, Answer
    <2> QED BY <2>4 DEF Log!LogNext
  <1> QED BY <1>4, <1>5

(* An "ok" answer gives the position of the entry of its key. *)
LEMMA LogConfirms ==
  ASSUME FateInv, NEW c \in Calls,
         LookupFinds(c) \/ (Publish(c) /\ "request" \notin wrote[c])
  PROVE  Log!LogNext
  <1>1. TypeOK /\ Rows /\ WroteByPc /\ LogInv /\ AnsweredAtEnd
    BY DEF FateInv, PayInv, LogInv
  <1>2. Entries' = Entries /\ req' = req
    BY SameEntries DEF LookupFinds, Publish, tables
  <1>3. Log!Pending(c) /\ StreamOf(c) \in Streams
    BY <1>1, RequestsAssumption DEF LookupFinds, Publish, TypeOK, AnsweredAtEnd, Log!Pending, StreamOf
  <1>4. \E m \in messages :
           /\ Same(m.call, c)
           /\ Answer(c, [kind |-> "ok", seq |-> m.seq, idempotent |-> m.call # c])
    <2>1. CASE LookupFinds(c)
      <3>1. PICK m \in Recorded(c) :
               Answer(c, [kind |-> "ok", seq |-> m.seq, idempotent |-> TRUE])
        BY <2>1 DEF LookupFinds
      <3>2. m \in messages /\ Same(m.call, c)
        BY DEF Recorded
      <3>3. (m.call # c) = TRUE
        BY <1>1, <2>1, <3>2 DEF LookupFinds, Rows
      <3> QED BY <3>1, <3>2, <3>3
    <2>2. CASE Publish(c) /\ "request" \notin wrote[c]
      <3> DEFINE m == [call |-> c, seq |-> SeqOf(c)]
      <3>1. m \in messages /\ Same(m.call, c)
        BY <1>1, <2>2 DEF Publish, WroteByPc, AnsweredAtEnd, Same, Log!Same
      <3>2. Answer(c, [kind |-> "ok", seq |-> m.seq, idempotent |-> FALSE])
        BY <2>2 DEF Publish
      <3>3. (m.call # c) = FALSE
        OBVIOUS
      <3> HIDE DEF m
      <3> QED BY <3>1, <3>2, <3>3
    <2> QED BY <2>1, <2>2
  <1>5. PICK m \in messages :
           /\ Same(m.call, c)
           /\ Answer(c, [kind |-> "ok", seq |-> m.seq, idempotent |-> m.call # c])
    BY <1>4
  <1>6. m \in MessagesOf(StreamOf(c))
    BY <1>5 DEF MessagesOf, Same, Log!Same, StreamOf
  <1>7. m.seq \in DOMAIN Entries[StreamOf(c)] /\ Entries[StreamOf(c)][m.seq] = m.call
    BY <1>1, <1>3, <1>6, EntriesAreRows
  <1>8. m.seq \in Log!PositionsOf(req[c])
    BY <1>5, <1>7 DEF Log!PositionsOf, StreamOf, Same
  <1>9. Log!Confirm(c)
    BY <1>2, <1>3, <1>5, <1>7, <1>8 DEF Log!Confirm, Answer, StreamOf
  <1> QED BY <1>9 DEF Log!LogNext

(* COMMIT enters the call at the end of its stream. *)
LEMMA LogEnters ==
  ASSUME FateInv, NEW c \in Calls, Commit(c), "message" \in wrote[c]
  PROVE  Log!LogNext
  <1>1. TypeOK /\ Rows /\ LogInv /\ AnsweredAtEnd /\ PendingFits /\ pc[c] = "commit"
    BY DEF FateInv, PayInv, LogInv, Commit
  <1>2. Log!Pending(c)
    BY <1>1, RequestsAssumption DEF TypeOK, AnsweredAtEnd, Log!Pending
  <1>3. StreamOf(c) \in Streams /\ SeqOf(c) \in Nat \ {0}
    BY <1>1, CommitSeq
  <1> PICK s \in Streams, q \in Nat \ {0} : s = StreamOf(c) /\ q = SeqOf(c)
    BY <1>3
  <1> DEFINE row == [call |-> c, seq |-> q]
  <1>4. messages' = messages \cup {row} /\ req' = req /\ answer' = answer
    BY DEF Commit, ApplyWrites, handler
  <1>5. row.call = c /\ row.seq = q
    OBVIOUS
  <1> HIDE DEF row
  <1>6. /\ MessagesOf(s)' = MessagesOf(s) \cup {row}
        /\ \A t \in Streams \ {s} : MessagesOf(t)' = MessagesOf(t)
    BY <1>4, <1>5 DEF MessagesOf, StreamOf
  <1>7. PICK n \in Nat : Numbered(MessagesOf(s), n)
    BY <1>1, StreamNumbered
  <1>8. q = n + 1
    <2>1. {m.seq : m \in MessagesOf(s)} \cup {q} = 1 .. q
          /\ \A m \in MessagesOf(s) : m.seq # q
      BY <1>1, CommitSeq
    <2>2. (1 .. n) \cup {q} = 1 .. q /\ q \notin 1 .. n
      BY <1>7, <2>1 DEF Numbered
    <2> QED BY <2>2
  <1>9. InOrder(MessagesOf(s)') = Append(InOrder(MessagesOf(s)), c)
    BY <1>5, <1>6, <1>7, <1>8, NextRowAppends
  <1>10. Entries' = [Entries EXCEPT ![s] = Append(@, c)]
    <2>1. Entries' = [t \in Streams |-> InOrder(MessagesOf(t)')]
      BY DEF Entries
    <2>2. \A t \in Streams \ {s} : InOrder(MessagesOf(t)') = InOrder(MessagesOf(t))
      BY <1>6
    <2> QED BY <1>9, <2>1, <2>2 DEF Entries
  <1>11. Log!PositionsOf(req[c]) = {}
    <2>1. \A m \in messages : ~Same(m.call, c)
      BY <1>1 DEF PendingFits, Open, InTx, Conflicting
    <2>2. ASSUME NEW i \in DOMAIN Entries[s], Log!Same(req[Entries[s][i]], req[c])
          PROVE  FALSE
      <3>1. PICK m \in MessagesOf(s) : Entries[s][i] = m.call
        BY <1>1, EntriesAreRows
      <3> QED BY <2>1, <2>2, <3>1 DEF MessagesOf, Same
    <2> QED BY <2>2 DEF Log!PositionsOf, StreamOf
  <1>12. Log!Enter(c)
    BY <1>2, <1>4, <1>10, <1>11 DEF Log!Enter, StreamOf
  <1> QED BY <1>12 DEF Log!LogNext

LEMMA LogStepMaps == FateInv /\ [Next]_vars => [Log!LogNext]_(Log!logVars)
  <1> SUFFICES ASSUME FateInv, [Next]_vars PROVE [Log!LogNext]_(Log!logVars)
    OBVIOUS
  <1>1. ASSUME UNCHANGED <<messages, req, answer>> PROVE UNCHANGED Log!logVars
    BY <1>1, SameEntries DEF Log!logVars
  <1>2. CASE UNCHANGED vars
    BY <1>1, <1>2 DEF vars, handler, tables
  <1>3. CASE AllDone
    BY <1>2, <1>3 DEF AllDone
  <1>4. ASSUME NEW c \in Calls, Start(c) \/ Step(c) \/ LoseTx(c) \/ LoseAck(c)
        PROVE  [Log!LogNext]_(Log!logVars)
    <2>1. CASE \/ CheckGranted(c) \/ CheckAsks(c) \/ OpenRequest(c) \/ LookupMisses(c)
               \/ ScopePays(c) \/ PickGrant(c) \/ Charge(c) \/ ChargeLast(c)
               \/ ReadCounter(c) \/ BumpCounter(c) \/ InsertMessage(c)
               \/ ReadHead(c) \/ EmitNext(c) \/ EmitRevoked(c) \/ EmitLast(c)
      BY <1>1, <2>1 DEF CheckGranted, CheckAsks, OpenRequest, LookupMisses, ScopePays, PickGrant,
                        Charge, ChargeLast, ReadCounter, BumpCounter, InsertMessage, ReadHead,
                        EmitNext, EmitRevoked, EmitLast, AppendAudit, tables, handler
    <2>2. CASE Commit(c) /\ "message" \notin wrote[c]
      BY <1>1, <2>2 DEF Commit, ApplyWrites, handler
    <2> QED BY <1>4, <2>1, <2>2, LogStart0, LogRefuses, LogConfirms, LogEnters DEF Step
  <1> QED BY <1>2, <1>3, <1>4 DEF Next

LEMMA LogInitial == Init => Log!LogInit
  <1> SUFFICES ASSUME Init PROVE Log!LogInit
    OBVIOUS
  <1>1. \A s \in Streams : MessagesOf(s) = {}
    BY DEF Init, MessagesOf
  <1>2. InOrder({}) = <<>>
    <2>1. Cardinality({}) = 0
      BY FS_EmptySet
    <2> QED BY <2>1 DEF InOrder
  <1>3. Entries = [s \in Streams |-> <<>>]
    BY <1>1, <1>2 DEF Entries
  <1> QED BY <1>3 DEF Init, Log!LogInit

(* The statements of appendMessage, interleaved, failed and rolled back in   *)
(* any way, cannot be told from one atomic append by their callers.          *)
THEOREM AppendImplementsLog == Spec => ImplementsLog
  BY LogInitial, LogStepMaps, FateInvariant, PTL DEF Spec, ImplementsLog, Log!LogSpec

------------------------------------------------------------------------------
(***************************************************************************)
(* The transactions of db.ts (SqlTx).                                      *)
(***************************************************************************)
(***************************************************************************)
(* Types, and what each caller knows of itself.                            *)
(***************************************************************************)
LEMMA LocalInit == TxInit => Local
  BY StatementsAssumption DEF TxInit, Local, TxTypeOK, TxPCs, Holds, Idle, Writes

LEMMA LocalStep ==
  ASSUME Local, [TxNext]_txVars
  PROVE  Local'
  <1>0. \A t \in Txs : /\ Holds(t) => conn[t] \in Conns
                       /\ at[t] = "run" => next[t] \in 1 .. Statements
    BY DEF Local, Writes
  <1> USE StatementsAssumption, ConnsAssumption
      DEF Local, TxTypeOK, TxPCs, config, GoOn, Holds, Writes
  <1>1. ASSUME NEW t \in Txs, StartTx(t)  PROVE Local'
    BY <1>1 DEF StartTx
  <1>2. ASSUME NEW t \in Txs, Connect(t)  PROVE Local'
    BY <1>2 DEF Connect
  <1>3. ASSUME NEW t \in Txs, Begin(t)  PROVE Local'
    BY <1>3 DEF Begin, Session, SetSession, InSession
  <1>4. ASSUME NEW t \in Txs, BeginFails(t)  PROVE Local'
    BY <1>4 DEF BeginFails, Finish
  <1>5. ASSUME NEW t \in Txs, Write(t)  PROVE Local'
    <2>1. conn[t] \in Conns /\ next[t] \in 1 .. Statements
      <3>1. at[t] = "run"
        BY <1>5 DEF Write
      <3> QED BY <1>0, <3>1
    <2>0. <<t, next[t]>> \in Txs \X (1 .. Statements)
      BY <2>1
    <2>2. session' \in [Conns -> [open : BOOLEAN, aborted : BOOLEAN, writes : SUBSET (Txs \X Writes)]]
      <3>1. session[conn[t]].writes \cup {<<t, next[t]>>} \in SUBSET (Txs \X Writes)
        BY <2>0, <2>1
      <3> DEFINE s == InSession(FALSE, session[conn[t]].writes \cup {<<t, next[t]>>})
      <3>2. s \in [open : BOOLEAN, aborted : BOOLEAN, writes : SUBSET (Txs \X Writes)]
        BY <3>1 DEF InSession
      <3>3. session' = [session EXCEPT ![conn[t]] = s] \/ session' = session
        BY <1>5 DEF Write, Session, SetSession
      <3> HIDE DEF s
      <3> QED BY <2>1, <3>2, <3>3
    <2>3. table' \subseteq Txs \X (1 .. Statements)
      <3>1. table' = table \/ table' = table \cup {<<t, next[t]>>}
        BY <1>5 DEF Write
      <3> QED BY <2>0, <3>1
    <2>4. next' \in [Txs -> 1 .. Statements + 1]
      BY <1>5, <2>0, <2>1 DEF Write
    <2>5. at' = [at EXCEPT ![t] = IF next[t] = Statements THEN "commit" ELSE "run"]
      BY <1>5 DEF Write, LastWrite
    <2> QED BY <1>5, <2>1, <2>2, <2>3, <2>4, <2>5 DEF Write
  <1>6. ASSUME NEW t \in Txs, StatementFails(t)  PROVE Local'
    BY <1>6 DEF StatementFails, Session, SetSession, InSession, Handler
  <1>7. ASSUME NEW t \in Txs, CallbackThrows(t)  PROVE Local'
    BY <1>7 DEF CallbackThrows, Handler
  <1>8. ASSUME NEW t \in Txs, CommitTx(t)  PROVE Local'
    <2>0. conn[t] \in Conns
      <3>1. Holds(t)
        BY <1>8 DEF CommitTx
      <3> QED BY <1>0, <3>1
    <2>1. Session(t).writes \subseteq Txs \X (1 .. Statements)
      BY <2>0 DEF Session
    <2> QED BY <1>8, <2>0, <2>1 DEF CommitTx, SetSession, Idle
  <1>9. ASSUME NEW t \in Txs, RollbackTx(t)  PROVE Local'
    BY <1>9 DEF RollbackTx, Session, SetSession, Idle
  <1>10. ASSUME NEW t \in Txs, Release(t)  PROVE Local'
    BY <1>10 DEF Release, Released
  <1>11. ASSUME NEW t \in Txs, Break(t)  PROVE Local'
    <2>0. conn[t] \in Conns
      <3>1. Holds(t)
        BY <1>11 DEF Break
      <3> QED BY <1>0, <3>1
    <2>1. Session(t).writes \subseteq Txs \X (1 .. Statements)
      BY <2>0 DEF Session
    <2>2. table' \subseteq Txs \X (1 .. Statements)
      BY <1>11, <2>1 DEF Break
    <2> QED BY <1>11, <2>0, <2>1, <2>2 DEF Break, SetSession, Idle
  <1>12. CASE UNCHANGED txVars
    BY <1>12 DEF txVars
  <1> QED
    BY <1>1, <1>2, <1>3, <1>4, <1>5, <1>6, <1>7, <1>8, <1>9, <1>10, <1>11, <1>12
       DEF TxNext, TxStep, Stopped

(* Every variable has its type in every state.                             *)
THEOREM TxTypesCorrect == TxSpec => []TxTypeOK
  <1>1. Local => TxTypeOK
    BY DEF Local
  <1> QED BY LocalInit, LocalStep, <1>1, PTL DEF TxSpec

(***************************************************************************)
(* No session is left behind.                                              *)
(***************************************************************************)
LEMMA OwnedInit == TxInit => SessionsOwned
  BY DEF TxInit, SessionsOwned

(* A step of t changes its own session only. *)
LEMMA OwnedStep ==
  ASSUME Local, SessionsOwned, [TxNext]_txVars
  PROVE  SessionsOwned'
  <1> USE DEF Local, TxTypeOK, TxPCs, GoOn, Holds
  <1>1. ASSUME NEW t \in Txs, StartTx(t) \/ Connect(t)  PROVE SessionsOwned'
    <2>1. \A c \in Conns, u \in Txs : conn[u] = c /\ at[u] \in {"run", "commit", "rollback"}
             => conn'[u] = c /\ at'[u] \in {"run", "commit", "rollback"}
      BY <1>1 DEF StartTx, Connect
    <2>2. session' = session
      BY <1>1 DEF StartTx, Connect
    <2> QED BY <2>1, <2>2 DEF SessionsOwned
  <1>2. ASSUME NEW t \in Txs,
               Begin(t) \/ Write(t) \/ StatementFails(t) \/ CallbackThrows(t)
        PROVE  SessionsOwned'
    <2>1. at' = [at EXCEPT ![t] = at'[t]] /\ at'[t] \in {"run", "commit", "rollback"} /\ conn' = conn
      BY <1>2 DEF Begin, Write, StatementFails, CallbackThrows, Handler
    <2>2. \A c \in Conns : c # conn[t] => session'[c] = session[c]
      BY <1>2 DEF Begin, Write, StatementFails, CallbackThrows, SetSession
    <2> QED BY <2>1, <2>2 DEF SessionsOwned
  <1>3. ASSUME NEW t \in Txs, CommitTx(t) \/ RollbackTx(t) \/ Break(t)  PROVE SessionsOwned'
    <2>1. at' = [at EXCEPT ![t] = at'[t]] /\ conn' = conn
      BY <1>3 DEF CommitTx, RollbackTx, Break
    <2>2. session' = [session EXCEPT ![conn[t]] = Idle]
      BY <1>3 DEF CommitTx, RollbackTx, Break, SetSession
    <2>3. \A c \in Conns : session'[c] # Idle => c # conn[t] /\ session[c] # Idle
      BY <2>2
    <2> QED BY <2>1, <2>3 DEF SessionsOwned
  <1>4. ASSUME NEW t \in Txs, BeginFails(t) \/ Release(t)  PROVE SessionsOwned'
    <2>1. at[t] \in {"begin", "release"} /\ at' = [at EXCEPT ![t] = at'[t]]
          /\ conn' = [conn EXCEPT ![t] = conn'[t]] /\ session' = session
      BY <1>4 DEF BeginFails, Finish, Release
    <2> QED BY <2>1 DEF SessionsOwned
  <1>5. CASE UNCHANGED txVars
    BY <1>5 DEF txVars, SessionsOwned
  <1> QED
    BY <1>1, <1>2, <1>3, <1>4, <1>5 DEF TxNext, TxStep, Stopped

(* With no caller in flight no connection is left inside a transaction,    *)
(* on either adapter, however callers overlap and fail.                    *)
THEOREM SessionsAtRest == TxSpec => []SessionsRest
  <1>1. Local /\ SessionsOwned => SessionsRest
    BY DEF Local, SessionsOwned, SessionsRest, Busy
  <1> QED BY LocalInit, LocalStep, OwnedInit, OwnedStep, <1>1, PTL DEF TxSpec


(***************************************************************************)
(* Isolated callers.                                                       *)
(***************************************************************************)
LEMMA IsolatedInit == TxInit => IsolatedInv
  <1> SUFFICES ASSUME TxInit
               PROVE  Alone /\ SessionByPc /\ Atomic
    BY DEF IsolatedInv
  <1>1. at = [u \in Txs |-> "idle"] /\ result = [u \in Txs |-> "none"] /\ table = {}
    BY DEF TxInit
  <1>2. Alone
    BY <1>1 DEF Alone, Holds, Busy
  <1>3. SessionByPc /\ Atomic
    BY <1>1 DEF SessionByPc, FindsOwn, Atomic, AtomicFor
  <1> QED BY <1>2, <1>3

(* Each one keeps away from the others. *)
LEMMA AloneStep ==
  ASSUME TxInv, Isolated, [TxNext]_txVars
  PROVE  Alone'
  <1>1. Local /\ Alone /\ SessionByPc
    BY DEF TxInv, IsolatedInv
  <1>0. at \in [Txs -> TxPCs] /\ conn \in [Txs -> Conns \cup {NoConn}]
    BY <1>1 DEF Local, TxTypeOK
  <1> USE <1>0 DEF GoOn, config, Holds, Busy
  <1>2. ASSUME NEW t \in Txs, StartTx(t)  PROVE Alone'
    <2>1. adapter = "pglite" => Busy = {}
      BY <1>2 DEF StartTx, Isolated
    <2>2. at[t] = "idle" /\ at' = [at EXCEPT ![t] = "connect"]
          /\ conn' = conn /\ adapter' = adapter
      BY <1>2 DEF StartTx
    <2> QED BY <1>1, <2>1, <2>2 DEF Alone
  <1>3. ASSUME NEW t \in Txs, Connect(t)  PROVE Alone'
    <2>1. PICK c \in Conns : /\ IF adapter = "pglite" THEN c = OnlyConn ELSE \A u \in Txs : conn[u] # c
                             /\ conn' = [conn EXCEPT ![t] = c]
      BY <1>3 DEF Connect
    <2>2. at \in [Txs -> TxPCs] /\ conn \in [Txs -> Conns \cup {NoConn}]
      BY <1>1 DEF Local, TxTypeOK
    <2>3. at[t] = "connect" /\ at' = [at EXCEPT ![t] = "begin"] /\ adapter' = adapter
      BY <1>3 DEF Connect
    <2>4. CASE adapter = "pglite"
      <3>1. \A u \in Txs : Holds(u)' \/ u \in Busy' => u = t
        BY <1>1, <2>2, <2>3, <2>4 DEF Alone
      <3> QED BY <3>1, <2>3 DEF Alone
    <2>5. CASE adapter # "pglite"
      <3>1. \A u \in Txs \ {t} : Holds(u)' => Holds(u) /\ conn'[u] = conn[u] /\ conn[u] # c
        BY <2>1, <2>2, <2>3, <2>5
      <3>2. conn'[t] = c
        BY <2>1, <2>2
      <3> QED BY <1>1, <2>3, <2>5, <3>1, <3>2 DEF Alone
    <2> QED BY <2>4, <2>5
  <1>4. ASSUME NEW t \in Txs,
               \/ Begin(t) \/ BeginFails(t) \/ Write(t) \/ StatementFails(t) \/ CallbackThrows(t)
               \/ CommitTx(t) \/ RollbackTx(t) \/ Break(t)
        PROVE  Alone'
    <2>1. at[t] \in {"begin", "run", "commit", "rollback"} /\ at' = [at EXCEPT ![t] = at'[t]]
      BY <1>4 DEF Begin, BeginFails, Finish, Write, StatementFails, CallbackThrows, CommitTx, RollbackTx, Break
    <2>2. conn' = conn /\ adapter' = adapter
      BY <1>4 DEF Begin, BeginFails, Write, StatementFails, CallbackThrows, CommitTx, RollbackTx, Break
    <2> QED BY <1>1, <2>1, <2>2 DEF Alone
  <1>5. ASSUME NEW t \in Txs, Release(t)  PROVE Alone'
    <2>1. at[t] = "release" /\ at' = [at EXCEPT ![t] = "done"]
          /\ conn' = [conn EXCEPT ![t] = NoConn] /\ adapter' = adapter
      BY <1>5 DEF Release, Released
    <2> QED BY <1>1, <2>1 DEF Alone
  <1>6. CASE UNCHANGED txVars
    BY <1>1, <1>6 DEF txVars, Alone
  <1> QED
    BY <1>2, <1>3, <1>4, <1>5, <1>6 DEF TxNext, TxStep, Stopped


(* What a step of one caller leaves to the others. *)
LEMMA Frame ==
  ASSUME TxInv, Isolated, NEW t \in Txs, NEW u \in Txs \ {t}, Holds(t),
         at'[u] = at[u], next'[u] = next[u], result'[u] = result[u], conn'[u] = conn[u],
         \A c \in Conns : c # conn[t] => session'[c] = session[c],
         AllOf(u) \cap table' = AllOf(u) \cap table
  PROVE  FindsOwn(u)' /\ AtomicFor(u)'
  <1>1. FindsOwn(u) /\ AtomicFor(u) /\ Alone /\ Local
    BY DEF TxInv, IsolatedInv, SessionByPc, Atomic
  <1>2. Holds(u) => conn[u] \in Conns /\ conn[u] # conn[t]
    BY <1>1 DEF Local, Alone
  <1>3. Holds(u) => Session(u)' = Session(u)
    BY <1>2 DEF Session
  <1>4. Written(u)' = Written(u)
    BY DEF Written
  <1>5. FindsOwn(u)'
    BY <1>1, <1>3, <1>4 DEF FindsOwn, Holds, AllOf
  <1>6. AtomicFor(u)'
    BY <1>1 DEF AtomicFor, AllOf
  <1> QED BY <1>5, <1>6

LEMMA AllOfDisjoint ==
  ASSUME NEW t \in Txs, NEW u \in Txs \ {t}
  PROVE  AllOf(t) \cap AllOf(u) = {}
  BY DEF AllOf

(* A transaction that reaches COMMIT has all its writes in its session. *)
LEMMA CommitAll ==
  ASSUME TxInv, Isolated, NEW t \in Txs, at[t] = "commit"
  PROVE  ~Session(t).aborted /\ Session(t).writes = AllOf(t)
  <1>1. FindsOwn(t) /\ next[t] = Statements + 1
    BY DEF TxInv, IsolatedInv, SessionByPc, Local
  <1>2. Session(t) = InSession(FALSE, Written(t))
    BY <1>1 DEF FindsOwn
  <1>3. Written(t) = AllOf(t)
    BY <1>1, StatementsAssumption DEF Written, AllOf, Writes
  <1> QED BY <1>2, <1>3 DEF InSession

LEMMA IsolatedStep ==
  ASSUME TxInv, Isolated, [TxNext]_txVars
  PROVE  SessionByPc' /\ Atomic'
  <1> SUFFICES ASSUME NEW v \in Txs
               PROVE  FindsOwn(v)' /\ AtomicFor(v)'
    BY DEF SessionByPc, Atomic
  <1>1. Local /\ Alone /\ FindsOwn(v) /\ AtomicFor(v) /\ SessionsOwned
    BY DEF TxInv, IsolatedInv, SessionByPc, Atomic
  <1>0. /\ at \in [Txs -> TxPCs] /\ conn \in [Txs -> Conns \cup {NoConn}]
        /\ next \in [Txs -> 1 .. Statements + 1] /\ session \in [Conns -> [open : BOOLEAN, aborted : BOOLEAN, writes : SUBSET (Txs \X Writes)]]
        /\ result \in [Txs -> {"none", "ok", "error", "lost"}]
    BY <1>1 DEF Local, TxTypeOK
  <1>c. \A t \in Txs : Holds(t) => conn[t] \in Conns
    BY <1>1 DEF Local
  <1> USE <1>0 DEF GoOn, config
  <1>2. ASSUME NEW t \in Txs, StartTx(t)  PROVE FindsOwn(v)' /\ AtomicFor(v)'
    BY <1>1, <1>2 DEF StartTx, FindsOwn, AtomicFor, Session, Written, AllOf
  <1>3. ASSUME NEW t \in Txs, Connect(t)  PROVE FindsOwn(v)' /\ AtomicFor(v)'
    <2>1. PICK c \in Conns : /\ IF adapter = "pglite" THEN c = OnlyConn ELSE \A u \in Txs : conn[u] # c
                             /\ conn' = [conn EXCEPT ![t] = c]
      BY <1>3 DEF Connect
    <2>2. session[c] = Idle
      <3> SUFFICES ASSUME NEW u \in Txs, conn[u] = c, at[u] \in {"run", "commit", "rollback"}
                   PROVE  FALSE
        BY <1>1 DEF SessionsOwned
      <3>1. at[t] = "connect"
        BY <1>3 DEF Connect
      <3>2. CASE adapter = "pglite"
        BY <1>1, <3>1, <3>2 DEF Alone, Busy
      <3>3. CASE adapter # "pglite"
        BY <2>1, <3>3
      <3> QED BY <3>2, <3>3
    <2>3. at[t] = "connect" /\ at' = [at EXCEPT ![t] = "begin"]
          /\ next' = next /\ result' = result /\ session' = session /\ table' = table
      BY <1>3 DEF Connect
    <2>4. CASE v = t
      BY <1>1, <2>1, <2>2, <2>3, <2>4 DEF FindsOwn, AtomicFor, Session, AllOf
    <2>5. CASE v # t
      BY <1>1, <2>1, <2>3, <2>5 DEF FindsOwn, AtomicFor, Session, Written, AllOf
    <2> QED BY <2>4, <2>5
  <1>4. ASSUME NEW t \in Txs, Begin(t)  PROVE FindsOwn(v)' /\ AtomicFor(v)'
    <2>1. /\ at[t] = "begin" /\ at' = [at EXCEPT ![t] = "run"]
          /\ session' = [session EXCEPT ![conn[t]] = InSession(FALSE, Session(t).writes)]
          /\ conn' = conn /\ next' = next /\ result' = result /\ table' = table
      BY <1>4 DEF Begin, SetSession
    <2>2. Holds(t)
      BY <2>1 DEF Holds
    <2>3. CASE v = t
      <3>1. next[t] = 1 /\ Session(t) = Idle
        BY <1>1, <2>1, <2>3 DEF Local, FindsOwn
      <3>2. Written(t) = {} /\ Written(t)' = {}
        BY <2>1, <3>1 DEF Written
      <3>3. Session(t)' = InSession(FALSE, Written(t)')
        <4>1. Session(t).writes = {}
          BY <3>1 DEF Idle
        <4>2. session' = [session EXCEPT ![conn[t]] = InSession(FALSE, {})] /\ conn[t] \in Conns
          BY <1>c, <2>1, <2>2, <4>1
        <4> QED BY <2>1, <3>2, <4>2 DEF Session
      <3> QED BY <1>1, <2>1, <2>3, <3>3 DEF FindsOwn, AtomicFor, AllOf
    <2>4. CASE v # t
      BY <2>1, <2>2, <2>4, Frame
    <2> QED BY <2>3, <2>4
  <1>5. ASSUME NEW t \in Txs, BeginFails(t)  PROVE FALSE
    <2>1. FindsOwn(t)
      BY DEF TxInv, IsolatedInv, SessionByPc
    <2> QED BY <1>5, <2>1 DEF BeginFails, FindsOwn, Idle
  <1>6. ASSUME NEW t \in Txs, Write(t)  PROVE FindsOwn(v)' /\ AtomicFor(v)'
    <2>1. /\ at[t] = "run" /\ at' = [at EXCEPT ![t] = IF LastWrite(t) THEN "commit" ELSE "run"]
          /\ conn' = conn /\ next' = [next EXCEPT ![t] = @ + 1] /\ result' = result
      BY <1>6 DEF Write
    <2>2. Holds(t) /\ FindsOwn(t)
      BY <2>1 DEF Holds, TxInv, IsolatedInv, SessionByPc
    <2>3. Session(t) = InSession(FALSE, Written(t))
      BY <2>1, <2>2 DEF FindsOwn
    <2>4. /\ session' = [session EXCEPT ![conn[t]] = InSession(FALSE, Written(t) \cup {<<t, next[t]>>})]
          /\ table' = table
      BY <1>6, <2>3 DEF Write, SetSession, InSession
    <2>5. CASE v = t
      <3>1. Written(t)' = Written(t) \cup {<<t, next[t]>>}
        BY <2>1 DEF Written
      <3>2. Session(t)' = InSession(FALSE, Written(t)')
        BY <1>c, <2>1, <2>2, <2>4, <3>1 DEF Session
      <3> QED BY <1>1, <2>1, <2>4, <2>5, <3>2 DEF FindsOwn, AtomicFor, AllOf
    <2>6. CASE v # t
      BY <2>1, <2>2, <2>4, <2>6, Frame
    <2> QED BY <2>5, <2>6
  <1>7. ASSUME NEW t \in Txs, StatementFails(t) \/ CallbackThrows(t)  PROVE FindsOwn(v)' /\ AtomicFor(v)'
    <2>1. /\ at[t] = "run" /\ at' = [at EXCEPT ![t] = "rollback"]
          /\ conn' = conn /\ next' = next /\ result' = result /\ table' = table
          /\ \A c \in Conns : c # conn[t] => session'[c] = session[c]
      BY <1>7 DEF StatementFails, CallbackThrows, SetSession, Handler
    <2>2. CASE v = t
      BY <1>1, <2>1, <2>2 DEF FindsOwn, AtomicFor, AllOf
    <2>3. CASE v # t
      BY <2>1, <2>3, Frame DEF Holds
    <2> QED BY <2>2, <2>3
  <1>8. ASSUME NEW t \in Txs, CommitTx(t)  PROVE FindsOwn(v)' /\ AtomicFor(v)'
    <2>1. /\ at[t] = "commit" /\ at' = [at EXCEPT ![t] = "release"]
          /\ conn' = conn /\ next' = next /\ result' = [result EXCEPT ![t] = "ok"]
          /\ session' = [session EXCEPT ![conn[t]] = Idle]
      BY <1>8 DEF CommitTx, SetSession
    <2>2. table' = table \cup AllOf(t)
      BY <1>8, CommitAll DEF CommitTx
    <2>3. CASE v = t
      BY <1>c, <2>1, <2>2, <2>3 DEF FindsOwn, AtomicFor, AllOf, Session, Holds
    <2>4. CASE v # t
      <3>1. AllOf(v) \cap table' = AllOf(v) \cap table
        BY <2>2, <2>4, AllOfDisjoint
      <3> QED BY <2>1, <2>4, <3>1, Frame DEF Holds
    <2> QED BY <2>3, <2>4
  <1>9. ASSUME NEW t \in Txs, RollbackTx(t)  PROVE FindsOwn(v)' /\ AtomicFor(v)'
    <2>1. /\ at[t] = "rollback" /\ at' = [at EXCEPT ![t] = "release"]
          /\ conn' = conn /\ next' = next /\ result' = [result EXCEPT ![t] = "error"]
          /\ session' = [session EXCEPT ![conn[t]] = Idle] /\ table' = table
      BY <1>9 DEF RollbackTx, SetSession
    <2>2. CASE v = t
      BY <1>1, <1>c, <2>1, <2>2 DEF FindsOwn, AtomicFor, AllOf, Session, Holds
    <2>3. CASE v # t
      BY <2>1, <2>3, Frame DEF Holds
    <2> QED BY <2>2, <2>3
  <1>10. ASSUME NEW t \in Txs, Release(t)  PROVE FindsOwn(v)' /\ AtomicFor(v)'
    <2>1. /\ at[t] = "release" /\ at' = [at EXCEPT ![t] = "done"]
          /\ conn' = [conn EXCEPT ![t] = NoConn] /\ next' = next /\ result' = result
          /\ session' = session /\ table' = table
      BY <1>10 DEF Release, Released
    <2> QED BY <1>1, <2>1 DEF FindsOwn, AtomicFor, AllOf, Session, Written
  <1>11. ASSUME NEW t \in Txs, Break(t)  PROVE FindsOwn(v)' /\ AtomicFor(v)'
    <2>1. /\ at[t] \in {"begin", "run", "commit", "rollback"} /\ at' = [at EXCEPT ![t] = "release"]
          /\ conn' = conn /\ next' = next /\ result' = [result EXCEPT ![t] = "lost"]
          /\ session' = [session EXCEPT ![conn[t]] = Idle]
      BY <1>11 DEF Break, SetSession
    <2>2. table' = table \/ (at[t] = "commit" /\ table' = table \cup AllOf(t))
      BY <1>11, CommitAll DEF Break
    <2>3. CASE v = t
      BY <1>1, <1>c, <2>1, <2>2, <2>3 DEF FindsOwn, AtomicFor, AllOf, Session, Holds
    <2>4. CASE v # t
      <3>1. AllOf(v) \cap table' = AllOf(v) \cap table
        BY <2>2, <2>4, AllOfDisjoint
      <3> QED BY <2>1, <2>4, <3>1, Frame DEF Holds
    <2> QED BY <2>3, <2>4
  <1>12. CASE UNCHANGED txVars
    BY <1>1, <1>12 DEF txVars, FindsOwn, AtomicFor, AllOf, Session, Written
  <1> QED
    BY <1>2, <1>3, <1>4, <1>5, <1>6, <1>7, <1>8, <1>9, <1>10, <1>11, <1>12
       DEF TxNext, TxStep, Stopped


LEMMA TxInvInit == TxInit => TxInv
  BY LocalInit, OwnedInit, IsolatedInit DEF TxInv

LEMMA TxInvStep ==
  ASSUME TxInv, [TxNext]_txVars
  PROVE  TxInv'
  <1>1. Local' /\ SessionsOwned'
    BY LocalStep, OwnedStep DEF TxInv
  <1>2. Isolated' => Isolated
    BY DEF Isolated, TxNext, TxStep, Stopped, StartTx, Connect, Begin, BeginFails, Write, StatementFails,
           CallbackThrows, CommitTx, RollbackTx, Release, Break, config, txVars
  <1>3. IsolatedInv'
    BY <1>2, AloneStep, IsolatedStep DEF IsolatedInv
  <1> QED BY <1>1, <1>3 DEF TxInv

LEMMA TxInvariant == TxSpec => []TxInv
  BY TxInvInit, TxInvStep, PTL DEF TxSpec

(* Whatever fails, the tables hold all of a transaction or nothing, and its *)
(* caller is told the truth: on Postgres always, on PGlite if transactions  *)
(* do not overlap; for any number of callers, connections and statements.   *)
THEOREM AtomicUnlessShared == TxSpec => []AllOrNothing
  <1>1. TxInv => AllOrNothing
    BY DEF TxInv, IsolatedInv, AllOrNothing
  <1> QED BY TxInvariant, <1>1, PTL

(***************************************************************************)
(* An adapter implements AtomicStore.                                      *)
(***************************************************************************)
LEMMA StoreInitial == TxInit => Store!StoreInit
  BY DEF TxInit, Store!StoreInit

LEMMA StoreStep ==
  ASSUME TxInv, [TxNext]_txVars
  PROVE  [Store!StoreNext]_Store!storeVars
  <1>c. adapter' = adapter /\ overlap' = overlap
    BY DEF TxNext, TxStep, Stopped, StartTx, Connect, Begin, BeginFails, Write, StatementFails,
           CallbackThrows, CommitTx, RollbackTx, Release, Break, config, txVars
  <1>0. Isolated' = Isolated
    BY <1>c DEF Isolated
  <1>1. CASE ~Isolated
    BY <1>0, <1>1 DEF Store!storeVars
  <1>2. CASE Isolated
    <2>1. /\ Local /\ SessionByPc /\ result \in [Txs -> {"none", "ok", "error", "lost"}]
      BY <1>2 DEF TxInv, IsolatedInv, Local, TxTypeOK
    <2>2. CASE table' = table /\ result' = result
      BY <1>0, <1>2, <2>2 DEF Store!storeVars
    <2>3. ASSUME NEW t \in Txs, result[t] = "none", AllOf(t) \cap table = {},
                 \/ CommitTx(t) \/ RollbackTx(t) \/ Break(t)
          PROVE  Store!StoreNext
      <3>1. CASE CommitTx(t)
        <4>1. table' = table \cup AllOf(t) /\ result' = [result EXCEPT ![t] = "ok"]
          BY <1>2, <3>1, CommitAll DEF CommitTx
        <4> QED BY <1>0, <1>2, <2>3, <4>1 DEF Store!StoreNext, Store!Apply, Store!AllOf, AllOf
      <3>2. CASE RollbackTx(t)
        <4>1. table' = table /\ result' = [result EXCEPT ![t] = "error"]
          BY <3>2 DEF RollbackTx
        <4> QED BY <1>0, <1>2, <2>3, <4>1 DEF Store!StoreNext, Store!Tell, Store!AllOf, AllOf
      <3>3. CASE Break(t)
        <4>1. result' = [result EXCEPT ![t] = "lost"]
          BY <3>3 DEF Break
        <4>2. table' = table \/ table' = table \cup AllOf(t)
          BY <1>2, <3>3, CommitAll DEF Break
        <4>3. CASE table' = table
          BY <1>0, <1>2, <2>3, <4>1, <4>3 DEF Store!StoreNext, Store!Tell
        <4>4. CASE table' = table \cup AllOf(t)
          BY <1>0, <1>2, <2>3, <4>1, <4>4 DEF Store!StoreNext, Store!Apply, Store!AllOf, AllOf
        <4> QED BY <4>2, <4>3, <4>4
      <3> QED BY <2>3, <3>1, <3>2, <3>3
    <2>4. ASSUME NEW t \in Txs, CommitTx(t) \/ RollbackTx(t) \/ Break(t)
          PROVE  result[t] = "none" /\ AllOf(t) \cap table = {}
      BY <2>1, <2>4 DEF SessionByPc, FindsOwn, CommitTx, RollbackTx, Break
    <2>5. ASSUME NEW t \in Txs, BeginFails(t)  PROVE FALSE
      <3>1. FindsOwn(t)
        BY <2>1 DEF SessionByPc
      <3> QED BY <2>5, <3>1 DEF BeginFails, FindsOwn, Idle
    <2>6. ASSUME NEW t \in Txs, Write(t)  PROVE table' = table /\ result' = result
      BY <2>1, <2>6 DEF SessionByPc, FindsOwn, Write, InSession
    <2> QED
      BY <2>2, <2>3, <2>4, <2>5, <2>6
         DEF TxNext, TxStep, Stopped, StartTx, Connect, Begin, StatementFails, CallbackThrows, Release, txVars
  <1> QED BY <1>1, <1>2

(* The adapter of db.ts implements the atomic store: its statements cannot  *)
(* be told apart by callers that are isolated.                              *)
THEOREM AdapterImplementsStore == TxSpec => ImplementsStore
  BY StoreInitial, StoreStep, TxInvariant, PTL DEF TxSpec, ImplementsStore, Store!StoreSpec

(* What service.ts relies on in tx, whatever fails and overlaps.             *)
THEOREM AlwaysTransactional == TxSpec => []Transactional
  <1>1. TxTypeOK /\ AllOrNothing /\ SessionsRest => Transactional
    BY DEF Transactional
  <1> QED BY <1>1, TxTypesCorrect, AtomicUnlessShared, SessionsAtRest, PTL

=============================================================================
