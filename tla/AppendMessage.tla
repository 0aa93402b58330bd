----------------------------- MODULE AppendMessage -----------------------------
(***************************************************************************)
(* MessageLayer.appendMessage on the Postgres adapter.  Every call runs on *)
(* a pooled connection of its own, at READ COMMITTED, one SQL statement at *)
(* a time; the statements of different calls interleave.  A statement      *)
(* reads the rows committed when it starts and its own transaction's       *)
(* writes; an UPDATE waits for the transaction that wrote the row last, an *)
(* INSERT for one that inserted a conflicting key.  A write is therefore   *)
(* kept with its call (charged, wrote) and joins the tables at COMMIT.     *)
(* BEGIN and inserts that no other transaction can conflict with           *)
(* (message_parts, events) are part of the neighbouring statement.         *)
(* Principals are actors of one org, and streams are readable by them.     *)
(***************************************************************************)
EXTENDS Integers, FiniteSets, Sequences

CONSTANTS Calls,      \* concurrent and successive calls of appendMessage
          Streams,    \* stream ids
          RequestsOf, \* [Calls -> sets of inputs [stream, actor, key, command, auto]]
          Scoped,     \* actors whose principal carries the capabilities as scopes
          Grants,     \* rows of table grants, numbered by created_at
          GrantOf,    \* [Grants -> [actor, capability, stream, max]]
          AnyStream,  \* resource_id NULL
          NoRequest   \* the input of a call that was not made

Append0 == "message:append"
Invoke == "command:invoke"
Capabilities == {Append0, Invoke}
Unlimited == 0        \* max_uses NULL; the code accepts no maxUses below 1

Requests == UNION {RequestsOf[c] : c \in Calls}

ASSUME GrantsAssumption ==
    /\ Grants \subseteq Nat
    /\ \A g \in Grants : GrantOf[g].max \in Nat /\ GrantOf[g].capability \in Capabilities
ASSUME RequestsAssumption ==
    /\ NoRequest \notin Requests
    /\ \A r \in Requests : r.stream \in Streams /\ r.command \in BOOLEAN /\ r.auto \in BOOLEAN

VARIABLES
    \* the handlers
    pc, req, cap, pick, seen, todo, head, answer,
    \* history: the grants a call chose while another had them in use
    raced,
    \* what each handler's open transaction has written
    charged, wrote,
    \* the tables
    uses, active, counter, messages, permissionRequests, audit, committed,
    \* the calls whose events the in-process bus has seen
    bus

handler == <<req, cap, pick, raced, seen, todo, head, answer>>
tables == <<uses, active, counter, messages, permissionRequests, committed>>
vars == <<pc, handler, charged, wrote, tables, audit, bus>>

PCs == {"idle", "check", "lookup", "pick", "charge", "counter", "bump", "insert",
        "request", "emit", "audit", "commit", "publish", "done"}
MutantInTx == PCs \ {"idle", "check", "lookup", "request"}
InTx == {"pick", "charge", "counter", "bump", "insert", "emit", "audit", "commit"}

StreamOf(c) == req[c].stream
MessagesOf(s) == {m \in messages : StreamOf(m.call) = s}

(* The calls of rows numbered 1, 2, ... in the order of their numbers. *)
InOrder(rows) == [i \in 1 .. Cardinality(rows) |-> (CHOOSE m \in rows : m.seq = i).call]
Entries == [s \in Streams |-> InOrder(MessagesOf(s))]
Log == INSTANCE MessageLog WITH log <- Entries, asked <- req

Same(c, d) == Log!Same(req[c], req[d])
SeqOf(c) == IF seen[c] = 0 THEN 1 ELSE seen[c]   \* what nextSeqTx returns
Goto(c, label) == pc' = [pc EXCEPT ![c] = label]
Answer(c, a) == answer' = [answer EXCEPT ![c] = a]

(***************************************************************************)
(* Grants.                                                                 *)
(***************************************************************************)
MutantCovers(g, c) == /\ GrantOf[g].actor = req[c].actor
                      /\ GrantOf[g].stream \in {AnyStream, StreamOf(c)}
(* The rows the WHERE clause of hasGrant and of consumeGrantInTx selects. *)
Covers(g, c) == /\ GrantOf[g].actor = req[c].actor
                /\ GrantOf[g].capability = cap[c]
                /\ GrantOf[g].stream \in {AnyStream, StreamOf(c)}
Live(g) == /\ active[g]
           /\ GrantOf[g].max # Unlimited => uses[g] < GrantOf[g].max
LiveGrants(c) == {g \in Grants : Covers(g, c) /\ Live(g)}
ViaScope(c) == req[c].actor \in Scoped
Oldest(g, S) == g \in S /\ \A h \in S : g <= h   \* ORDER BY created_at LIMIT 1

MutantExhausts(g) == GrantOf[g].max # Unlimited /\ uses[g] + 1 > GrantOf[g].max
(* uses_count >= max_uses in the row RETURNING gives back. *)
Exhausts(g) == GrantOf[g].max # Unlimited /\ uses[g] + 1 >= GrantOf[g].max

(* The command part, if there is one, is checked and charged second. *)
SecondCapability(c) == cap[c] = Append0 /\ req[c].command

(***************************************************************************)
(* The audit log: rows in audit_seq order, each with the row whose hash it *)
(* extends.  Rows of transactions that did not commit are not seen.        *)
(***************************************************************************)
VisibleTo(S) == {i \in DOMAIN audit : audit[i].call \in S}
Last(i, S) == IF S = {} THEN i = 0 ELSE i \in S /\ \A j \in S : j <= i
MutantReadsHead(c, i) == Last(i, DOMAIN audit)   \* a hash kept in the process
ReadsHead(c, i) == Last(i, VisibleTo(committed \cup {c}))

(***************************************************************************)
(* Before the transaction.                                                 *)
(***************************************************************************)
Init ==
    /\ pc = [c \in Calls |-> "idle"]
    /\ req = [c \in Calls |-> NoRequest]
    /\ cap = [c \in Calls |-> Append0]
    /\ pick = [c \in Calls |-> 0]
    /\ raced = [c \in Calls |-> {}]
    /\ seen = [c \in Calls |-> 0]
    /\ todo = [c \in Calls |-> <<>>]
    /\ head = [c \in Calls |-> 0]
    /\ answer = [c \in Calls |-> Log!Unanswered]
    /\ charged = [c \in Calls |-> {}]
    /\ wrote = [c \in Calls |-> {}]
    /\ uses = [g \in Grants |-> 0]
    /\ active = [g \in Grants |-> TRUE]
    /\ counter = [s \in Streams |-> 0]      \* 0: no row in stream_counters
    /\ messages = {}
    /\ permissionRequests = {}
    /\ audit = <<>>
    /\ committed = {}
    /\ bus = {}

Start(c) ==
    /\ pc[c] = "idle"
    /\ \E r \in RequestsOf[c] : req' = [req EXCEPT ![c] = r]
    /\ Goto(c, "check")
    /\ UNCHANGED <<cap, pick, raced, seen, todo, head, answer, charged, wrote, tables, audit, bus>>

(* hasGrant, once per capability the call needs. *)
CheckGranted(c) ==
    /\ pc[c] = "check"
    /\ ViaScope(c) \/ LiveGrants(c) # {}
    /\ Goto(c, IF SecondCapability(c) THEN "check" ELSE "lookup")
    /\ cap' = [cap EXCEPT ![c] = IF SecondCapability(c) THEN Invoke ELSE Append0]
    /\ UNCHANGED <<req, pick, raced, seen, todo, head, answer, charged, wrote, tables, audit, bus>>

CheckDenied(c) ==
    /\ pc[c] = "check" /\ ~req[c].auto
    /\ ~ViaScope(c) /\ LiveGrants(c) = {}
    /\ Goto(c, "done")
    /\ Answer(c, Log!Failed("denied"))
    /\ UNCHANGED <<req, cap, pick, raced, seen, todo, head, charged, wrote, tables, audit, bus>>

(* autoRequestOnDeny: createPermissionRequest instead.  Its transaction is *)
(* the INSERT below, then the emit and COMMIT every transaction ends with. *)
CheckAsks(c) ==
    /\ pc[c] = "check" /\ req[c].auto
    /\ ~ViaScope(c) /\ LiveGrants(c) = {}
    /\ Goto(c, "request")
    /\ UNCHANGED <<handler, charged, wrote, tables, audit, bus>>

OpenRequest(c) ==
    /\ pc[c] = "request"
    /\ wrote' = [wrote EXCEPT ![c] = {"request"}]
    /\ todo' = [todo EXCEPT ![c] = <<"permission_request.created">>]
    /\ Goto(c, "emit")
    /\ UNCHANGED <<req, cap, pick, raced, seen, head, answer, charged, tables, audit, bus>>

(***************************************************************************)
(* The transaction.                                                        *)
(***************************************************************************)
MutantRecorded(c) == {m \in messages : /\ req[m.call].actor = req[c].actor
                                       /\ req[m.call].key = req[c].key}
(* The committed message of the call's (stream, actor, key). *)
Recorded(c) == {m \in messages : Same(m.call, c)}

(* Such a message is committed: nothing is written or published. *)
LookupFinds(c) ==
    /\ pc[c] = "lookup"
    /\ \E m \in Recorded(c) : Answer(c, [kind |-> "ok", seq |-> m.seq, idempotent |-> TRUE])
    /\ Goto(c, "done")
    /\ UNCHANGED <<req, cap, pick, raced, seen, todo, head, charged, wrote, tables, audit, bus>>

LookupMisses(c) ==
    /\ pc[c] = "lookup"
    /\ Recorded(c) = {}
    /\ Goto(c, "pick")
    /\ UNCHANGED <<handler, charged, wrote, tables, audit, bus>>

Advance(c) ==
    /\ Goto(c, IF SecondCapability(c) THEN "pick" ELSE "counter")
    /\ cap' = [cap EXCEPT ![c] = IF SecondCapability(c) THEN Invoke ELSE @]

ScopePays(c) ==
    /\ pc[c] = "pick" /\ ViaScope(c)
    /\ Advance(c)
    /\ UNCHANGED <<req, pick, raced, seen, todo, head, answer, charged, wrote, tables, audit, bus>>

(* d's transaction has chosen g and may yet commit a use of it. *)
InUse(g, d) == pc[d] \in InTx /\ (g \in charged[d] \/ (pc[d] = "charge" /\ pick[d] = g))
Contended(g, c) == \E d \in Calls \ {c} : InUse(g, d)

(* The subquery of consumeGrantInTx's UPDATE, on the statement's snapshot. *)
PickGrant(c) ==
    /\ pc[c] = "pick" /\ ~ViaScope(c)
    /\ \E g \in Grants : /\ Oldest(g, LiveGrants(c))
                         /\ pick' = [pick EXCEPT ![c] = g]
                         /\ raced' = [raced EXCEPT ![c] = IF Contended(g, c) THEN @ \cup {g} ELSE @]
    /\ Goto(c, "charge")
    /\ UNCHANGED <<req, cap, seen, todo, head, answer, charged, wrote, tables, audit, bus>>

Rollback(c) == /\ charged' = [charged EXCEPT ![c] = {}]
               /\ wrote' = [wrote EXCEPT ![c] = {}]
               /\ Goto(c, "done")

NothingToPick(c) ==
    /\ pc[c] = "pick" /\ ~ViaScope(c) /\ LiveGrants(c) = {}
    /\ Rollback(c)
    /\ Answer(c, Log!Failed("denied"))
    /\ UNCHANGED <<req, cap, pick, raced, seen, todo, head, tables, audit, bus>>

(* The UPDATE itself.  It waits for another writer of the row; when that   *)
(* one commits, Postgres checks only the outer "id = ..." again, not the   *)
(* conditions of the subquery.                                             *)
Use(c) == /\ pc[c] = "charge"
          /\ \A d \in Calls \ {c} : pc[d] \in InTx => pick[c] \notin charged[d]
          /\ charged' = [charged EXCEPT ![c] = @ \cup {pick[c]}]

Charge(c) ==
    /\ Use(c) /\ ~Exhausts(pick[c])
    /\ Advance(c)
    /\ UNCHANGED <<req, pick, raced, seen, todo, head, answer, wrote, tables, audit, bus>>

(* The last use: active=0 in the same transaction, and grant.revoked. *)
ChargeLast(c) ==
    /\ Use(c) /\ Exhausts(pick[c])
    /\ todo' = [todo EXCEPT ![c] = <<"grant.revoked">>]
    /\ Goto(c, "emit")
    /\ UNCHANGED <<req, cap, pick, raced, seen, head, answer, wrote, tables, audit, bus>>

(* nextSeqTx: SELECT next_seq, then INSERT 2 or UPDATE to what was read + 1. *)
ReadCounter(c) ==
    /\ pc[c] = "counter"
    /\ seen' = [seen EXCEPT ![c] = counter[StreamOf(c)]]
    /\ Goto(c, "bump")
    /\ UNCHANGED <<req, cap, pick, raced, todo, head, answer, charged, wrote, tables, audit, bus>>

CounterFree(c) ==
    \A d \in Calls \ {c} :
        pc[d] \in InTx /\ "counter" \in wrote[d] => StreamOf(d) # StreamOf(c)

BumpCounter(c) ==
    /\ pc[c] = "bump"
    /\ CounterFree(c)
    /\ seen[c] = 0 => counter[StreamOf(c)] = 0
    /\ wrote' = [wrote EXCEPT ![c] = @ \cup {"counter"}]
    /\ Goto(c, "insert")
    /\ UNCHANGED <<handler, charged, tables, audit, bus>>

(* The primary key of stream_counters: another call inserted the row first. *)
CounterConflict(c) ==
    /\ pc[c] = "bump"
    /\ CounterFree(c)
    /\ seen[c] = 0 /\ counter[StreamOf(c)] # 0
    /\ Rollback(c)
    /\ Answer(c, Log!Failed("conflict"))
    /\ UNCHANGED <<req, cap, pick, raced, seen, todo, head, tables, audit, bus>>

MutantConflictSeq(c) == {m \in messages : Same(m.call, c)}
MutantConflictKey(c) == {m \in messages : StreamOf(m.call) = StreamOf(c) /\ m.seq = SeqOf(c)}
(* The two UNIQUE constraints of table messages.  A conflicting insert that *)
(* has not committed is waited for, but the lock on the stream's counter,   *)
(* held since BumpCounter, leaves no two inserts of a stream open.          *)
Conflicting(c) ==
    {m \in messages : \/ Same(m.call, c)
                      \/ StreamOf(m.call) = StreamOf(c) /\ m.seq = SeqOf(c)}

InsertMessage(c) ==
    /\ pc[c] = "insert"
    /\ Conflicting(c) = {}
    /\ wrote' = [wrote EXCEPT ![c] = @ \cup {"message"}]
    /\ todo' = [todo EXCEPT ![c] = IF req[c].command
                                   THEN <<"message.appended", "command.invoked">>
                                   ELSE <<"message.appended">>]
    /\ Goto(c, "emit")
    /\ UNCHANGED <<req, cap, pick, raced, seen, head, answer, charged, tables, audit, bus>>

InsertConflict(c) ==
    /\ pc[c] = "insert"
    /\ Conflicting(c) # {}
    /\ Rollback(c)
    /\ Answer(c, Log!Failed("conflict"))
    /\ UNCHANGED <<req, cap, pick, raced, seen, todo, head, tables, audit, bus>>

(* emit: INSERT INTO events and appendAudit's SELECT of the last hash ... *)
ReadHead(c) ==
    /\ pc[c] = "emit"
    /\ \E i \in {0} \cup DOMAIN audit :
          /\ ReadsHead(c, i)
          /\ head' = [head EXCEPT ![c] = i]
    /\ Goto(c, "audit")
    /\ UNCHANGED <<req, cap, pick, raced, seen, todo, answer, charged, wrote, tables, audit, bus>>

(* ... and its INSERT, which draws audit_seq at once. *)
AppendAudit(c) ==
    /\ pc[c] = "audit"
    /\ audit' = Append(audit, [call |-> c, type |-> Head(todo[c]), prev |-> head[c]])
    /\ todo' = [todo EXCEPT ![c] = Tail(@)]
    /\ UNCHANGED <<req, pick, raced, seen, head, answer, charged, wrote, tables, bus>>

(* grant.revoked is emitted while charging: before the first insert. *)
EmitNext(c) == AppendAudit(c) /\ Len(todo[c]) > 1 /\ Goto(c, "emit") /\ UNCHANGED cap
EmitRevoked(c) == AppendAudit(c) /\ Len(todo[c]) = 1 /\ wrote[c] = {} /\ Advance(c)
EmitLast(c) == AppendAudit(c) /\ Len(todo[c]) = 1 /\ wrote[c] # {}
               /\ Goto(c, "commit") /\ UNCHANGED cap

ApplyWrites(c) ==
    /\ uses' = [g \in Grants |-> IF g \in charged[c] THEN uses[g] + 1 ELSE uses[g]]
    /\ active' = [g \in Grants |-> active[g] /\ ~(g \in charged[c] /\ Exhausts(g))]
    /\ counter' = [counter EXCEPT ![StreamOf(c)] =
                     IF "counter" \in wrote[c] THEN SeqOf(c) + 1 ELSE @]
    /\ messages' = messages \cup
                     (IF "message" \in wrote[c] THEN {[call |-> c, seq |-> SeqOf(c)]} ELSE {})
    /\ permissionRequests' = permissionRequests \cup
                     (IF "request" \in wrote[c] THEN {<<c, cap[c]>>} ELSE {})
    /\ committed' = committed \cup {c}

Commit(c) ==
    /\ pc[c] = "commit"
    /\ ApplyWrites(c)
    /\ Goto(c, "publish")
    /\ UNCHANGED <<handler, charged, wrote, audit, bus>>

(* The events go to the bus in one synchronous loop, then the call returns. *)
Publish(c) ==
    /\ pc[c] = "publish"
    /\ bus' = bus \cup {c}
    /\ Answer(c, IF "request" \in wrote[c] THEN Log!Failed("requested")
                 ELSE [kind |-> "ok", seq |-> SeqOf(c), idempotent |-> FALSE])
    /\ Goto(c, "done")
    /\ UNCHANGED <<req, cap, pick, raced, seen, todo, head, charged, wrote, tables, audit>>

(***************************************************************************)
(* Failures: the connection or the process is lost.  Before COMMIT the     *)
(* server rolls back; after it the writes stay and nothing is published.   *)
(***************************************************************************)
LoseTx(c) ==
    /\ pc[c] \in InTx
    /\ Rollback(c)
    /\ Answer(c, Log!Failed("error"))
    /\ UNCHANGED <<req, cap, pick, raced, seen, todo, head, tables, audit, bus>>

LoseAck(c) ==
    /\ pc[c] = "publish"
    /\ Answer(c, Log!Failed("error"))
    /\ Goto(c, "done")
    /\ UNCHANGED <<req, cap, pick, raced, seen, todo, head, charged, wrote, tables, audit, bus>>

Step(c) ==
    \/ CheckGranted(c) \/ CheckDenied(c) \/ CheckAsks(c) \/ OpenRequest(c)
    \/ LookupFinds(c) \/ LookupMisses(c)
    \/ ScopePays(c) \/ PickGrant(c) \/ NothingToPick(c)
    \/ Charge(c) \/ ChargeLast(c)
    \/ ReadCounter(c) \/ BumpCounter(c) \/ CounterConflict(c)
    \/ InsertMessage(c) \/ InsertConflict(c)
    \/ ReadHead(c) \/ EmitNext(c) \/ EmitRevoked(c) \/ EmitLast(c)
    \/ Commit(c) \/ Publish(c)

AllDone == (\A c \in Calls : pc[c] = "done") /\ UNCHANGED vars

Next == \/ \E c \in Calls : Start(c) \/ Step(c) \/ LoseTx(c) \/ LoseAck(c)
        \/ AllDone

Spec == Init /\ [][Next]_vars

(* Every statement a client has sent is eventually executed. *)
FairSpec == Spec /\ \A c \in Calls : WF_vars(Step(c))
(***************************************************************************)
(* Properties.                                                             *)
(***************************************************************************)
EventTypes == {"message.appended", "command.invoked", "grant.revoked",
               "permission_request.created"}
Answers == [kind : {"none", "ok"} \cup Log!Failures, seq : Nat, idempotent : BOOLEAN]

(* Every variable has the type of the column, local or lock it stands for. *)
TypeOK ==
    /\ pc \in [Calls -> PCs]
    /\ req \in [Calls -> Requests \cup {NoRequest}]
    /\ \A c \in Calls : pc[c] # "idle" => req[c] \in Requests
    /\ cap \in [Calls -> Capabilities]
    /\ pick \in [Calls -> Grants \cup {0}]
    /\ \A c \in Calls : pc[c] = "charge" => pick[c] \in Grants
    /\ raced \in [Calls -> SUBSET Grants]
    /\ seen \in [Calls -> Nat]
    /\ todo \in [Calls -> Seq(EventTypes)]
    /\ head \in [Calls -> Nat]
    /\ answer \in [Calls -> Answers]
    /\ charged \in [Calls -> SUBSET Grants]
    /\ wrote \in [Calls -> SUBSET {"counter", "message", "request"}]
    /\ uses \in [Grants -> Nat]
    /\ active \in [Grants -> BOOLEAN]
    /\ counter \in [Streams -> Nat]
    /\ messages \subseteq [call : Calls, seq : Nat]
    /\ permissionRequests \subseteq Calls \X Capabilities
    /\ audit \in Seq([call : Calls, type : EventTypes, prev : Nat])
    /\ committed \subseteq Calls
    /\ bus \subseteq Calls

(* The committed messages of a stream carry each of 1 .. n exactly once, and *)
(* the counter stands at n + 1, whatever calls raced, failed or rolled back. *)
(* nextSeqTx reads and writes the counter in two statements without a lock.  *)
GapFree ==
    \A s \in Streams :
        /\ {m.seq : m \in MessagesOf(s)} = 1 .. (counter[s] - 1)
        /\ \A m, n \in MessagesOf(s) : m.seq = n.seq => m = n

(* At most one message is ever committed for a (stream, actor, key), though  *)
(* retries look the key up before the first attempt has committed.           *)
OneMessagePerKey == \A m, n \in messages : Same(m.call, n.call) => m = n

(* A message has paid exactly one use of one covering grant for each         *)
(* capability it needed, and nothing but a committed message has paid: a     *)
(* failed, denied or replayed call leaves uses_count where it was.  A grant  *)
(* is active just while a use is left, and max_uses caps the messages that   *)
(* chose it while no other transaction had it in use.  Those that raced for  *)
(* it are charged on top, past the cap: the UPDATE that waits for the row    *)
(* does not read uses_count < max_uses again.                                *)
PaidOnce ==
    /\ \A m \in messages :
          LET c == m.call
              needs == {Append0} \cup (IF req[c].command THEN {Invoke} ELSE {})
          IN IF ViaScope(c) THEN charged[c] = {}
             ELSE \A k \in needs : Cardinality({g \in charged[c] : GrantOf[g].capability = k}) = 1
    /\ \A g \in Grants : uses[g] = Cardinality({m \in messages : g \in charged[m.call]})
    /\ \A g \in Grants :
          LET limit == GrantOf[g].max
              alone == {m \in messages : g \in charged[m.call] \ raced[m.call]}
          IN /\ active[g] <=> (limit = Unlimited \/ uses[g] < limit)
             /\ limit # Unlimited => Cardinality(alone) <= limit

(* A committed audit row extends a committed row, never one rolled back.     *)
AuditExtendsCommitted ==
    \A i \in VisibleTo(committed) :
        audit[i].prev # 0 => audit[i].prev < i /\ audit[audit[i].prev].call \in committed

(* appendMessage implements the log of MessageLog: its callers cannot tell   *)
(* the statements of the transaction apart.                                  *)
ImplementsLog == Log!LogSpec

(* The messages of a stream are what appendMessage promises, however many    *)
(* calls and retries overlap: numbered without a gap or a repetition, and    *)
(* one for each idempotency key.                                             *)
LogSound == TypeOK /\ GapFree /\ OneMessagePerKey

(* Every call is answered: no set of transactions waits in a circle for the  *)
(* locks on grants and counters.                                             *)
EveryCallAnswered == \A c \in Calls : (pc[c] = "check") ~> (pc[c] = "done")

(***************************************************************************)
(* Why GapFree and OneMessagePerKey hold: the inductive invariant.         *)
(***************************************************************************)
Open(c) == pc[c] \in InTx

(* What a handler has written by the time it is at each statement. *)
WroteByPc ==
    \A c \in Calls :
        /\ pc[c] \in {"idle", "check", "lookup", "pick", "charge", "counter", "bump", "request"}
              => wrote[c] = {}
        /\ pc[c] = "insert" => wrote[c] = {"counter"}
        /\ pc[c] \in {"emit", "audit", "done"} => wrote[c] \in {{}, {"request"}, {"counter", "message"}}
        /\ pc[c] \in {"commit", "publish"} => wrote[c] \in {{"request"}, {"counter", "message"}}

(* A counter that was read may be stale, but only ever too low. *)
SeenBehind ==
    \A c \in Calls : /\ pc[c] = "idle" => seen[c] = 0
                     /\ req[c] \in Requests => seen[c] <= counter[StreamOf(c)]

(* One open transaction at a time has moved the counter of a stream. *)
CounterLock ==
    \A c, d \in Calls :
        /\ Open(c) /\ "counter" \in wrote[c]
        /\ Open(d) /\ "counter" \in wrote[d]
        /\ StreamOf(c) = StreamOf(d)
        => c = d

(* A row is its call's; a row about to be committed still fits. *)
Rows == \A m \in messages : pc[m.call] \in {"publish", "done"} /\ m.seq = SeqOf(m.call)
PendingFits == \A c \in Calls : Open(c) /\ "message" \in wrote[c] => Conflicting(c) = {}

NeverOne == \A s \in Streams : counter[s] # 1   \* the first row is inserted as 2

LogInv == /\ TypeOK /\ WroteByPc /\ SeenBehind /\ CounterLock /\ Rows /\ PendingFits
          /\ NeverOne /\ GapFree /\ OneMessagePerKey

(***************************************************************************)
(* A claim of the documentation that the code does not keep.               *)
(***************************************************************************)
(* verifyAuditChain: each committed row extends the committed row before it. *)
ChainVerifies ==
    LET rows == VisibleTo(committed) IN
    \A i \in rows : Last(audit[i].prev, {j \in rows : j < i})
=============================================================================
