-------------------------- MODULE TelegramBridgeProofs --------------------------
(* Theorems about TelegramBridge and about ChatAgents, the two kinds of
   programs that sit beside the server, for every value of their constants. *)
EXTENDS TelegramBridge, ChatAgents, FiniteSetTheorems, SequenceTheorems, WellFoundedInduction, TLAPS

(***************************************************************************)
(* The inductive invariant.                                                *)
(***************************************************************************)
Past == {"conflict", "bind", "append", "finish"}
On(h, s, u) == request[h].pc \in Past /\ request[h].setup = s /\ request[h].update = u

\* The shape of what is in flight.
RequestInv ==
    /\ \A h \in Requests :
          /\ request[h].pc = "idle" => request[h] = NoRequest
          /\ request[h].pc # "idle" => request[h].update \in Updates /\ request[h].setup \in Setups
          /\ request[h].pc # "reserve" => request[h].chat = Null
          /\ request[h].pc = "finish" => request[h].verdict \in Verdicts
          /\ request[h].pc # "finish" => request[h].verdict = Null
          /\ request[h].pc \in {"conflict", "bind", "append"} => Chat[request[h].update] # Null
    /\ \A a \in Admins : admin[a].pc # "idle" => admin[a].setup \in Setups

\* Until its row is inserted nobody has heard of a setup.
BirthInv ==
    \A s \in Setups : creating[s] \in {"no", "checked"} =>
        /\ setup[s] = Absent
        /\ \A b \in Bots : hook[b] # Null => hook[b].setup # s
        /\ \A a \in Admins : admin[a].setup # s
        /\ \A h \in Requests : request[h].setup # s

\* One request at a time is past the reservation of an update; it alone
\* appends the message, and leaves the row telling the truth.
OwnRow ==
    \A h \in Requests : request[h].pc \in Past =>
        /\ inbound[request[h].setup][request[h].update] = Reserved
        /\ \A g \in Requests : On(g, request[h].setup, request[h].update) => g = h

OwnMessage ==
    \A h \in Requests :
        LET m == <<request[h].setup, request[h].update>>
        IN  /\ request[h].pc \in {"conflict", "bind", "append"} => m \notin log
            /\ request[h].verdict = "accepted" => m \in log
            /\ request[h].verdict \in {"ignored", "denied"} => m \notin log
            /\ request[h].verdict = "error" => mishaps # 0

RowTells(s, u) ==
    /\ inbound[s][u].status = "accepted" => <<s, u>> \in log
    /\ inbound[s][u] # Reserved /\ inbound[s][u].status \in {"none", "ignored", "denied"} => <<s, u>> \notin log
    /\ inbound[s][u].status = "error" => mishaps # 0
    /\ inbound[s][u] = Reserved /\ mishaps = 0 => \E h \in Requests : On(h, s, u)

RowsTell == \A s \in Setups, u \in Updates : RowTells(s, u)

RecordInv == OwnRow /\ OwnMessage /\ RowsTell

\* A bot without an overlap has at most one request that may bind, and what
\* a request has loaded of the binding still holds.
Alone(b) == \A g, h \in Requests : MayBind(g, b) /\ MayBind(h, b) => g = h

Loaded(b) ==
    \A h \in Requests :
        LET s == request[h].setup
            u == request[h].update
        IN  s \in Setups /\ Bot[s] = b =>
              /\ request[h].pc \in Unbound => setup[s].chat = request[h].chat
              /\ request[h].pc = "append" => setup[s].chat = Chat[u]
              /\ request[h].pc = "bind" => ~Bound(s, Chat[u])

OneChat(b) ==
    \A s \in Setups, u \in Updates :
        <<s, u>> \in log /\ Bot[s] = b => Chat[u] # Null /\ Chat[u] = setup[s].chat

OneOwner(b) ==
    \A s, t \in Setups :
        setup[s].status = "active" /\ setup[t].status = "active" /\ s # t /\ Bot[s] = b /\ Bot[t] = b
            => setup[s].chat # setup[t].chat

CalmFor(b) == Alone(b) /\ Loaded(b) /\ OneChat(b) /\ OneOwner(b)
CalmInv == \A b \in Bots \ overlap : CalmFor(b)

(***************************************************************************)
(* Types, and the shape of requests.                                       *)
(***************************************************************************)
Shape == TypeOK /\ RequestInv

\* What the provers need to know of the rows of updates.
LEMMA EntryFacts ==
  /\ NoEntry \in Entries /\ Reserved \in Entries
  /\ NoEntry # Reserved /\ NoEntry.status = "none" /\ Reserved.status = "ignored"
  /\ \A v \in Verdicts, b \in BOOLEAN : Entry(v, b) \in Entries /\ Entry(v, b).status = v
  /\ \A v \in Verdicts : Entry(v, v # "accepted") # Reserved
  /\ \A e \in Entries : e.status \in Verdicts \union {"none"}
  BY DEF NoEntry, Reserved, Entries, Entry, Verdicts

LEMMA ShapeInit == Init => Shape
  BY BridgeAssumption, EntryFacts
     DEF Init, Shape, TypeOK, RequestInv, Absent, Row, NoRequest, Request, NoJob, Job, Secrets, Statuses

LEMMA ShapeStep ==
  ASSUME Shape, [Next]_vars
  PROVE  Shape'
  <1> USE BridgeAssumption DEF Shape, TypeOK, RequestInv, Statuses, Verdicts, Secrets
  <1>0. Null \notin Chats /\ \A u \in Updates : Chat[u] \in Chats \union {Null} /\ Bot[u] \in Bots
    BY DEF Chats, Bots
  <1>00. \A s \in Setups : Bot[s] \in Bots
    BY DEF Bots
  <1>1. ASSUME NEW s \in Setups, Create(s)  PROVE Shape'
    <2>1. setup' \in [Setups -> [status : Statuses \union {"absent"}, chat : Chats \union {Null},
                                auto : BOOLEAN, secret : Secrets]]
      <3>1. CASE UNCHANGED setup
        BY <3>1
      <3>2. CASE InsertSetup(s)
        BY <3>2 DEF InsertSetup, Row
      <3>3. CASE MarkError(s)
        BY <3>3 DEF MarkError, Row, WithStatus
      <3> QED BY <1>1, <3>1, <3>2, <3>3 DEF Create, CheckExisting, GetMeFails, RegisterWebhook
    <2>2. hook' \in [Bots -> [setup : Setups, secret : Secrets] \union {Null}]
      BY <1>1, <1>00 DEF Create, CheckExisting, InsertSetup, GetMeFails, RegisterWebhook, MarkError, SetWebhook
    <2>3. creating' \in [Setups -> {"no", "checked", "inserted", "refused", "over"}]
      BY <1>1 DEF Create, CheckExisting, InsertSetup, GetMeFails, RegisterWebhook, MarkError, Creates
    <2>4. UNCHANGED <<inbound, log, answered, admin, request, managed, overlap, mishaps>>
      BY <1>1 DEF Create, CheckExisting, InsertSetup, GetMeFails, RegisterWebhook, MarkError
    <2> QED BY <2>1, <2>2, <2>3, <2>4
  <1>2. ASSUME NEW a \in Admins, Administer(a)  PROVE Shape'
    <2> USE <1>00 DEF Administers, Job, NoJob
    <2>1. ASSUME NEW s \in Setups, LoadForDisable(a, s) \/ LoadForRotate(a, s)  PROVE Shape'
      <3>1. managed' \in Nat /\ managed' + mishaps \in Secrets /\ managed' \in Secrets
        BY <2>1 DEF LoadForDisable, LoadForRotate, Manages
      <3>2. \E j : j.pc \in {"delete", "rehook"} /\ j.setup = s /\ admin' = [admin EXCEPT ![a] = j]
                    /\ j \in [pc : {"delete", "rehook"}, setup : Setups, secret : Secrets]
        BY <2>1, <3>1 DEF LoadForDisable, LoadForRotate
      <3>3. UNCHANGED <<setup, inbound, log, hook, answered, creating, request, overlap, mishaps>>
        BY <2>1 DEF LoadForDisable, LoadForRotate
      <3> QED BY <3>1, <3>2, <3>3
    <2>2. CASE Unhook(a)
      <3>1. admin[a].setup \in Setups
        BY <2>2 DEF Unhook
      <3>2. hook' \in [Bots -> [setup : Setups, secret : Secrets] \union {Null}]
        BY <2>2, <3>1 DEF Unhook, DeleteWebhook
      <3>3. \E j \in [pc : {"disable"}, setup : Setups, secret : {0}] :
               admin' = [admin EXCEPT ![a] = j]
        BY <2>2, <3>1 DEF Unhook
      <3>4. UNCHANGED <<setup, inbound, log, answered, creating, request, managed, overlap,
                        mishaps>>
        BY <2>2 DEF Unhook
      <3> QED BY <2>2, <3>1, <3>2, <3>3, <3>4
    <2>3. CASE Disable(a)
      BY <2>3 DEF Disable, WithStatus, Row
    <2>4. CASE Rehook(a)
      <3>1. admin[a].setup \in Setups
        BY <2>4 DEF Rehook
      <3>2. hook' \in [Bots -> [setup : Setups, secret : Secrets] \union {Null}]
        <4>1. admin[a].secret \in Secrets
          OBVIOUS
        <4>2. hook' \in {hook, [hook EXCEPT ![Bot[admin[a].setup]] =
                                 [setup |-> admin[a].setup, secret |-> admin[a].secret]]}
          BY <2>4 DEF Rehook, SetWebhook
        <4> QED BY <3>1, <4>1, <4>2
      <3>3. \E j \in {NoJob, Job("rotate", admin[a].setup, admin[a].secret)} : admin' = [admin EXCEPT ![a] = j]
        BY <2>4 DEF Rehook
      <3> QED BY <2>4, <3>1, <3>2, <3>3 DEF Rehook
    <2>5. CASE Rotate(a)
      BY <2>5 DEF Rotate, Row
    <2>6. CASE AdminFails(a)
      BY <2>6 DEF AdminFails
    <2> QED BY <1>2, <2>1, <2>2, <2>3, <2>4, <2>5, <2>6 DEF Administer
  <1>3. ASSUME NEW u \in Updates, Deliver(u)  PROVE Shape'
    <2>1. CASE LoadDisabled(u)
      BY <2>1 DEF LoadDisabled
    <2>2. ASSUME NEW h \in Requests, Load(h, u)  PROVE Shape'
      BY <2>2, <1>0, <1>00 DEF Load, Steps, Request
    <2> QED BY <1>3, <2>1, <2>2 DEF Deliver
  <1>4. ASSUME NEW h \in Requests, Proceed(h) \/ QueryFails(h)  PROVE Shape'
    <2> DEFINE r == request[h]
    <2>0. r.pc # "idle" => r.update \in Updates /\ r.setup \in Setups
      OBVIOUS
    <2> USE <1>0 DEF Steps, Request, NoRequest, Finishing, At
    <2>1. CASE Reserve(h)
      <3>1. /\ inbound' \in [Setups -> [Updates -> Entries]]
            /\ UNCHANGED <<setup, log, hook, answered, creating, admin, managed, overlap, mishaps>>
        BY <2>0, <2>1, EntryFacts DEF Reserve, Record
      <3>2. request' = [request EXCEPT ![h] = Route(r)] /\ r.pc = "reserve"
        BY <2>1 DEF Reserve
      <3>3. /\ Route(r) \in {At(r, "conflict"), At(r, "append"), Finishing(r, "ignored"), Finishing(r, "denied")}
            /\ Route(r) \in {At(r, "conflict"), At(r, "append")} => Chat[r.update] # Null
        BY <2>0, <3>2 DEF Route
      <3> QED BY <2>0, <3>1, <3>2, <3>3
    <2>2. CASE Duplicate(h)
      BY <2>0, <2>2 DEF Duplicate, Answer, Mishap
    <2>3. CASE CheckConflict(h)
      <3>1. \E n \in {Finishing(r, "ignored"), At(r, "bind")} : request' = [request EXCEPT ![h] = n]
        BY <2>3 DEF CheckConflict
      <3> QED BY <2>0, <2>3, <3>1 DEF CheckConflict
    <2>4. CASE Bind(h)
      BY <2>0, <2>4 DEF Bind, Row
    <2>5. CASE AppendText(h)
      <3>1. \E v \in {"accepted", "denied"} : request' = [request EXCEPT ![h] = Finishing(r, v)]
        BY <2>5 DEF AppendText
      <3> QED BY <2>0, <2>5, <3>1 DEF AppendText
    <2>6. CASE Finish(h)
      <3>1. /\ inbound' \in [Setups -> [Updates -> Entries]]
            /\ request' = [request EXCEPT ![h] = NoRequest]
        <4>1. Entry(r.verdict, r.verdict # "accepted") \in Entries
          BY <2>6, EntryFacts DEF Finish
        <4> QED BY <2>0, <2>6, <4>1 DEF Finish, Record
      <3>2. /\ mishaps' \in Nat /\ managed + mishaps' \in Secrets /\ answered' \subseteq Updates
            /\ UNCHANGED <<setup, log, hook, creating, admin, managed, overlap>>
        BY <2>0, <2>6 DEF Finish, Answer, Mishap
      <3> QED BY <3>1, <3>2
    <2>7. CASE QueryFails(h)
      <3>1. \E n \in {NoRequest, Finishing(r, "error")} : request' = [request EXCEPT ![h] = n]
        BY <2>7 DEF QueryFails
      <3>2. mishaps' \in Nat /\ managed + mishaps' \in Secrets
        BY <2>7 DEF QueryFails, Mishap
      <3> QED BY <2>0, <2>7, <3>1, <3>2 DEF QueryFails
    <2> QED BY <1>4, <2>1, <2>2, <2>3, <2>4, <2>5, <2>6, <2>7 DEF Proceed
  <1>5. CASE Crash
    BY <1>5 DEF Crash, NoJob, Job, NoRequest, Request, Mishap
  <1>6. CASE UNCHANGED vars
    BY <1>6 DEF vars
  <1> QED BY <1>1, <1>2, <1>3, <1>4, <1>5, <1>6 DEF Next

(* Every variable has its type in every state.                             *)
THEOREM TypeCorrect == Spec => []TypeOK
  <1>1. Shape => TypeOK
    BY DEF Shape
  <1> QED BY ShapeInit, ShapeStep, <1>1, PTL DEF Spec

(***************************************************************************)
(* Steps, as the later proofs see them.                                    *)
(***************************************************************************)
\* A step of one request leaves the others alone.
LEMMA OneRequest ==
  ASSUME Shape, NEW h \in Requests, Proceed(h) \/ QueryFails(h)
  PROVE  /\ request[h].pc # "idle" /\ request[h].update \in Updates /\ request[h].setup \in Setups
         /\ \A g \in Requests : g # h => request'[g] = request[g]
         /\ request'[h].setup \in {request[h].setup, Null}
         /\ UNCHANGED <<hook, creating, admin, managed, overlap>>
  <1>1. request[h].pc # "idle"
    BY DEF Proceed, Reserve, Duplicate, CheckConflict, Bind, AppendText, Finish, QueryFails
  <1>2. \E r : r.setup \in {request[h].setup, Null} /\ request' = [request EXCEPT ![h] = r]
    BY DEF Proceed, Reserve, Duplicate, CheckConflict, Bind, AppendText, Finish, QueryFails,
           Steps, Route, At, Finishing, Request, NoRequest
  <1>3. UNCHANGED <<hook, creating, admin, managed, overlap>>
    BY DEF Proceed, Reserve, Duplicate, CheckConflict, Bind, AppendText, Finish, QueryFails
  <1> QED BY <1>1, <1>2, <1>3 DEF Shape, TypeOK, RequestInv

\* What concerns one setup that has been born does not matter.
LEMMA BirthFrame ==
  ASSUME Shape, BirthInv, creating' = creating,
         NEW s \in Setups, creating[s] \notin {"no", "checked"},
         \A t \in Setups : t # s => setup'[t] = setup[t],
         \A b \in Bots : hook'[b] = hook[b] \/ hook'[b] = Null \/ hook'[b].setup = s,
         \A a \in Admins : admin'[a].setup \in {admin[a].setup, s, Null},
         \A h \in Requests : request'[h].setup \in {request[h].setup, s, Null}
  PROVE  BirthInv'
  <1> SUFFICES ASSUME NEW t \in Setups, creating[t] \in {"no", "checked"}
               PROVE  /\ setup'[t] = Absent
                      /\ \A b \in Bots : hook'[b] # Null => hook'[b].setup # t
                      /\ \A a \in Admins : admin'[a].setup # t
                      /\ \A h \in Requests : request'[h].setup # t
    BY DEF BirthInv
  <1>1. /\ setup[t] = Absent /\ t # s /\ t # Null
        /\ \A b \in Bots : hook[b] # Null => hook[b].setup # t
        /\ \A a \in Admins : admin[a].setup # t
        /\ \A h \in Requests : request[h].setup # t
    BY BridgeAssumption DEF BirthInv
  <1> QED BY <1>1

LEMMA BirthInit == Init => BirthInv
  BY BridgeAssumption DEF Init, BirthInv, NoJob, Job, NoRequest, Request

LEMMA BirthStep ==
  ASSUME Shape, BirthInv, [Next]_vars
  PROVE  BirthInv'
  <1> USE BridgeAssumption DEF Shape, TypeOK, BirthInv
  <1>0. \A b \in Bots : hook[b] # Null => hook[b].setup \in Setups
    OBVIOUS
  <1>1. ASSUME NEW s \in Setups, Create(s)  PROVE BirthInv'
    <2>1. UNCHANGED <<admin, request>>
      BY <1>1 DEF Create, CheckExisting, InsertSetup, GetMeFails, RegisterWebhook, MarkError
    <2>2. CASE CheckExisting(s) \/ GetMeFails(s)
      BY <2>1, <2>2 DEF CheckExisting, GetMeFails, Creates
    <2>3. CASE InsertSetup(s)
      BY <2>1, <2>3 DEF InsertSetup, Creates
    <2>4. CASE RegisterWebhook(s)
      <3>1. \A t \in Setups : creating'[t] \in {"no", "checked"} => t # s /\ creating[t] = creating'[t]
        BY <2>4 DEF RegisterWebhook, Creates
      <3>2. \A b \in Bots : hook'[b] = hook[b] \/ hook'[b].setup = s
        BY <2>4 DEF RegisterWebhook, SetWebhook
      <3> QED BY <2>1, <2>4, <3>1, <3>2 DEF RegisterWebhook
    <2>5. CASE MarkError(s)
      BY <2>1, <2>5 DEF MarkError, Creates
    <2> QED BY <1>1, <2>2, <2>3, <2>4, <2>5 DEF Create
  <1>2. ASSUME NEW a \in Admins, Administer(a)  PROVE BirthInv'
    <2> USE DEF Administers, Job, NoJob, RequestInv
    <2>1. ASSUME NEW s \in Setups, LoadForDisable(a, s) \/ LoadForRotate(a, s)  PROVE BirthInv'
      <3>1. creating[s] \notin {"no", "checked"}
        BY <2>1 DEF LoadForDisable, LoadForRotate, Absent, Row
      <3>2. \A c \in Admins : admin'[c].setup \in {admin[c].setup, s}
        BY <2>1 DEF LoadForDisable, LoadForRotate
      <3>3. UNCHANGED <<setup, hook, creating, request>>
        BY <2>1 DEF LoadForDisable, LoadForRotate
      <3> QED BY <3>1, <3>2, <3>3, BirthFrame
    <2>2. CASE Unhook(a) \/ Disable(a) \/ Rehook(a) \/ Rotate(a) \/ AdminFails(a)
      <3>1. admin[a].setup \in Setups /\ creating[admin[a].setup] \notin {"no", "checked"}
        BY <2>2 DEF Unhook, Disable, Rehook, Rotate, AdminFails
      <3>2. \A c \in Admins : admin'[c].setup \in {admin[c].setup, admin[a].setup, Null}
        <4>1. \E j : j.setup \in {admin[a].setup, Null} /\ admin' = [admin EXCEPT ![a] = j]
          BY <2>2 DEF Unhook, Disable, Rehook, Rotate, AdminFails
        <4> QED BY <4>1
      <3>3. \A b \in Bots : hook'[b] = hook[b] \/ hook'[b] = Null \/ hook'[b].setup = admin[a].setup
        BY <2>2 DEF Unhook, Disable, Rehook, Rotate, AdminFails, SetWebhook, DeleteWebhook
      <3>4. /\ \A s \in Setups : s # admin[a].setup => setup'[s] = setup[s]
            /\ UNCHANGED <<creating, request>>
        BY <2>2 DEF Unhook, Disable, Rehook, Rotate, AdminFails
      <3> QED BY <3>1, <3>2, <3>3, <3>4, BirthFrame
    <2> QED BY <1>2, <2>1, <2>2 DEF Administer
  <1>3. ASSUME NEW u \in Updates, Deliver(u)  PROVE BirthInv'
    <2>1. UNCHANGED <<setup, hook, creating, admin>>
      BY <1>3 DEF Deliver, LoadDisabled, Load
    <2>2. Bot[u] \in Bots
      BY DEF Bots
    <2>3. CASE LoadDisabled(u)
      BY <2>1, <2>3 DEF LoadDisabled
    <2>4. ASSUME NEW h \in Requests, Load(h, u)  PROVE BirthInv'
      <3> DEFINE s == hook[Bot[u]].setup
      <3>1. s \in Setups /\ creating[s] \notin {"no", "checked"}
        BY <2>2, <2>4 DEF Load
      <3>2. \E chat : request' = [request EXCEPT ![h] = Request("reserve", u, s, chat, Null)]
        BY <2>4 DEF Load, Steps
      <3>3. \A g \in Requests : request'[g].setup \in {request[g].setup, s}
        BY <3>2 DEF Request
      <3> QED BY <2>1, <3>1, <3>3, BirthFrame
    <2> QED BY <1>3, <2>3, <2>4 DEF Deliver
  <1>4. ASSUME NEW h \in Requests, Proceed(h) \/ QueryFails(h)  PROVE BirthInv'
    <2>1. \A s \in Setups : s # request[h].setup => setup'[s] = setup[s]
      BY <1>4 DEF Proceed, Reserve, Duplicate, CheckConflict, Bind, AppendText, Finish, QueryFails
    <2>2. request[h].setup \in Setups /\ creating[request[h].setup] \notin {"no", "checked"}
      BY <1>4, OneRequest
    <2>3. \A g \in Requests : request'[g].setup \in {request[g].setup, Null}
      BY <1>4, OneRequest
    <2> QED BY <1>4, <2>1, <2>2, <2>3, OneRequest, BirthFrame
  <1>5. CASE Crash
    BY <1>5 DEF Crash, NoJob, Job, NoRequest, Request
  <1>6. CASE UNCHANGED vars
    BY <1>6 DEF vars
  <1> QED BY <1>1, <1>2, <1>3, <1>4, <1>5, <1>6 DEF Next

(***************************************************************************)
(* Records.                                                                *)
(***************************************************************************)
LEMMA RecordInit == Init => RecordInv
  BY BridgeAssumption, EntryFacts
     DEF Init, RecordInv, OwnRow, OwnMessage, RowsTell, RowTells, On, Past, NoRequest, Request, Verdicts

\* Nothing happens to the rows, the messages and the requests past Reserve.
LEMMA RecordFrame ==
  ASSUME Shape, RecordInv, UNCHANGED <<inbound, log>>, mishaps' = 0 => mishaps = 0,
         \A h \in Requests : request'[h] # request[h] =>
            request[h].pc \notin Past /\ request'[h].pc \in {"idle", "reserve"} /\ request'[h].verdict = Null
  PROVE  RecordInv'
  <1> USE BridgeAssumption, EntryFacts DEF Past, Verdicts
  <1>1. \A h \in Requests, s \in Setups, u \in Updates : On(h, s, u) <=> On(h, s, u)'
    BY DEF On
  <1>2. \A h \in Requests : request[h].pc \in Past <=> request'[h].pc \in Past
    OBVIOUS
  <1>3. \A h \in Requests : request'[h].pc \in Past => request'[h] = request[h]
    BY <1>2
  <1>4. \A h \in Requests : request[h].pc \in Past => request[h].setup \in Setups /\ request[h].update \in Updates
    BY DEF Shape, RequestInv
  <1>5. OwnRow'
    BY <1>1, <1>3, <1>4 DEF RecordInv, OwnRow
  <1>6. OwnMessage'
    BY DEF RecordInv, OwnMessage
  <1>7. RowsTell'
    <2> SUFFICES ASSUME NEW s \in Setups, NEW u \in Updates  PROVE RowTells(s, u)'
      BY DEF RowsTell
    <2>1. RowTells(s, u)
      BY DEF RecordInv, RowsTell
    <2> QED BY <1>1, <2>1 DEF RowTells
  <1> QED BY <1>5, <1>6, <1>7 DEF RecordInv

\* A request past Reserve goes on with its update, and may append its message.
LEMMA RecordOnward ==
  ASSUME Shape, RecordInv, UNCHANGED inbound, mishaps' = 0 => mishaps = 0,
         NEW h \in Requests, NEW r, request' = [request EXCEPT ![h] = r],
         request[h].pc \in Past, r.pc \in Past,
         r.setup = request[h].setup, r.update = request[h].update,
         log' = log \/ (log' = log \union {<<r.setup, r.update>>} /\ r.verdict = "accepted"),
         r.pc \in {"conflict", "bind", "append"} => request[h].pc \in {"conflict", "bind", "append"} /\ log' = log,
         r.verdict = "accepted" => <<r.setup, r.update>> \in log',
         r.verdict \in {"ignored", "denied"} => <<r.setup, r.update>> \notin log',
         r.verdict = "error" => mishaps' # 0
  PROVE  RecordInv'
  <1> USE BridgeAssumption, EntryFacts DEF Past, Verdicts
  <1>0. request'[h] = r /\ \A g \in Requests : g # h => request'[g] = request[g]
    BY DEF Shape, TypeOK
  <1>1. \A g \in Requests, s \in Setups, u \in Updates : On(g, s, u) <=> On(g, s, u)'
    BY <1>0 DEF On
  <1>2. \A g \in Requests : request[g].pc \in Past => request[g].setup \in Setups /\ request[g].update \in Updates
    BY DEF Shape, RequestInv
  <1>3. \A g \in Requests : /\ request'[g].pc \in Past <=> request[g].pc \in Past
                            /\ request'[g].setup = request[g].setup /\ request'[g].update = request[g].update
    BY <1>0
  <1>4. OwnRow'
    BY <1>1, <1>2, <1>3 DEF RecordInv, OwnRow
  <1>5. ASSUME NEW g \in Requests, g # h, request[g].pc \in Past
        PROVE  <<request[g].setup, request[g].update>> # <<r.setup, r.update>>
    BY <1>2, <1>5 DEF RecordInv, OwnRow, On
  <1>6. ASSUME NEW g \in Requests
        PROVE  LET m == <<request'[g].setup, request'[g].update>>
               IN  /\ request'[g].pc \in {"conflict", "bind", "append"} => m \notin log'
                   /\ request'[g].verdict = "accepted" => m \in log'
                   /\ request'[g].verdict \in {"ignored", "denied"} => m \notin log'
                   /\ request'[g].verdict = "error" => mishaps' # 0
    <2>1. CASE g = h
      BY <1>0, <2>1 DEF RecordInv, OwnMessage
    <2>2. CASE g # h /\ request[g].pc \in Past
      <3>1. <<request[g].setup, request[g].update>> \in log' <=> <<request[g].setup, request[g].update>> \in log
        BY <1>5, <2>2
      <3> QED BY <1>0, <2>2, <3>1 DEF RecordInv, OwnMessage
    <2>3. CASE g # h /\ request[g].pc \notin Past
      <3>1. request'[g].verdict = Null /\ request'[g].pc \notin Past
        BY <1>0, <2>3 DEF Shape, RequestInv
      <3> QED BY <3>1
    <2> QED BY <2>1, <2>2, <2>3
  <1>7. OwnMessage'
    BY <1>6 DEF OwnMessage
  <1>8. RowsTell'
    <2>1. inbound[r.setup][r.update] = Reserved
      BY DEF RecordInv, OwnRow
    <2>2. \A s \in Setups, u \in Updates : inbound[s][u] # Reserved => (<<s, u>> \in log' <=> <<s, u>> \in log)
      BY <2>1
    <2> SUFFICES ASSUME NEW s \in Setups, NEW u \in Updates
                 PROVE  RowTells(s, u)'
      BY DEF RowsTell
    <2>3. /\ inbound[s][u].status = "accepted" => <<s, u>> \in log
          /\ inbound[s][u] # Reserved /\ inbound[s][u].status \in {"none", "ignored", "denied"} => <<s, u>> \notin log
          /\ inbound[s][u].status = "error" => mishaps # 0
          /\ inbound[s][u] = Reserved /\ mishaps = 0 => \E g \in Requests : On(g, s, u)
      BY DEF RecordInv, RowsTell, RowTells
    <2>4. inbound[s][u].status = "accepted" => <<s, u>> \in log'
      BY <2>2, <2>3
    <2>5. inbound[s][u] # Reserved /\ inbound[s][u].status \in {"none", "ignored", "denied"} => <<s, u>> \notin log'
      BY <2>2, <2>3
    <2>6. inbound[s][u] = Reserved /\ mishaps' = 0 => \E g \in Requests : On(g, s, u)'
      BY <1>1, <2>3
    <2> QED BY <2>3, <2>4, <2>5, <2>6, <1>0 DEF RowTells
  <1> QED BY <1>4, <1>7, <1>8 DEF RecordInv

\* A request that ends without another word on its row.
LEMMA RecordDropped ==
  ASSUME Shape, RecordInv, UNCHANGED <<inbound, log>>, mishaps' # 0,
         \A h \in Requests : request'[h] \in {request[h], NoRequest}
  PROVE  RecordInv'
  <1> USE BridgeAssumption, EntryFacts DEF Past, Verdicts
  <1>1. \A h \in Requests, s \in Setups, u \in Updates : On(h, s, u)' => On(h, s, u)
    BY DEF On, NoRequest, Request
  <1>2. \A h \in Requests : request'[h].pc \in Past =>
           /\ request'[h] = request[h]
           /\ request[h].setup \in Setups /\ request[h].update \in Updates
    BY DEF Shape, RequestInv, NoRequest, Request
  <1>3. OwnRow'
    BY <1>1, <1>2 DEF RecordInv, OwnRow
  <1>4. OwnMessage'
    BY DEF RecordInv, OwnMessage, NoRequest, Request
  <1>5. RowsTell'
    BY DEF RecordInv, RowsTell, RowTells
  <1> QED BY <1>3, <1>4, <1>5 DEF RecordInv

LEMMA RecordReserve ==
  ASSUME Shape, RecordInv, NEW h \in Requests, Reserve(h),
         NEW s \in Setups, NEW u \in Updates, request[h].setup = s, request[h].update = u
  PROVE  RecordInv'
  <1> USE BridgeAssumption, EntryFacts DEF Past, Verdicts
  <1> DEFINE n == Route(request[h])
  <1>1. request[h].pc = "reserve" /\ inbound[s][u] = NoEntry
    BY DEF Reserve, Recorded, Shape, RequestInv
  <1>2. /\ n.setup = s /\ n.update = u /\ n.pc \in {"conflict", "append", "finish"}
        /\ n.verdict \in {Null, "ignored", "denied"}
    BY <1>1 DEF Route, At, Finishing, Request
  <1> HIDE DEF n
  <1>3. request'[h] = n /\ \A g \in Requests : g # h => request'[g] = request[g]
    BY DEF Reserve, Steps, Shape, TypeOK, n
  <1>4. /\ inbound'[s][u] = Reserved
        /\ \A t \in Setups, v \in Updates : <<t, v>> # <<s, u>> => inbound'[t][v] = inbound[t][v]
        /\ UNCHANGED <<log, mishaps>>
    BY <1>1 DEF Reserve, Record, Shape, TypeOK
  <1>5. \A g \in Requests : request[g].pc \in Past =>
           /\ request[g].setup \in Setups /\ request[g].update \in Updates
           /\ <<request[g].setup, request[g].update>> # <<s, u>> /\ g # h
    BY <1>1 DEF RecordInv, OwnRow, Shape, RequestInv
  <1>6. \A g \in Requests, t \in Setups, v \in Updates :
           On(g, t, v)' <=> On(g, t, v) \/ (g = h /\ t = s /\ v = u)
    BY <1>1, <1>2, <1>3 DEF On
  <1>7. OwnRow'
    <2>1. ASSUME NEW g \in Requests, request'[g].pc \in Past
          PROVE  inbound'[request'[g].setup][request'[g].update] = Reserved
      <3>1. CASE g = h
        BY <1>2, <1>3, <1>4, <3>1
      <3>2. CASE g # h
        <4>1. request'[g] = request[g] /\ inbound[request[g].setup][request[g].update] = Reserved
          BY <1>3, <2>1, <3>2 DEF RecordInv, OwnRow
        <4> QED BY <1>4, <1>5, <2>1, <4>1
      <3> QED BY <3>1, <3>2
    <2>2. ASSUME NEW g \in Requests, NEW f \in Requests,
                 request'[g].pc \in Past, request'[f].pc \in Past,
                 request'[f].setup = request'[g].setup, request'[f].update = request'[g].update
          PROVE  f = g
      <3>1. CASE f # h /\ g # h
        BY <1>3, <2>2, <3>1 DEF RecordInv, OwnRow, On
      <3>2. CASE f = h \/ g = h
        BY <1>2, <1>3, <1>5, <2>2, <3>2
      <3> QED BY <3>1, <3>2
    <2> QED BY <2>1, <2>2 DEF OwnRow, On
  <1>8. OwnMessage'
    <2>1. <<s, u>> \notin log
      BY <1>1 DEF RecordInv, RowsTell, RowTells
    <2> QED BY <1>2, <1>3, <1>4, <2>1 DEF RecordInv, OwnMessage
  <1>9. RowsTell'
    <2>1. On(h, s, u)'
      BY <1>6
    <2>2. ASSUME NEW t \in Setups, NEW w \in Updates, <<t, w>> # <<s, u>>
          PROVE  /\ inbound'[t][w] = inbound[t][w]
                 /\ \A g \in Requests : On(g, t, w) => On(g, t, w)'
      BY <1>4, <1>6, <2>2
    <2>3. ASSUME NEW t \in Setups, NEW w \in Updates
          PROVE  /\ inbound'[t][w].status = "accepted" => <<t, w>> \in log'
                 /\ inbound'[t][w] # Reserved /\ inbound'[t][w].status \in {"none", "ignored", "denied"} => <<t, w>> \notin log'
                 /\ inbound'[t][w].status = "error" => mishaps' # 0
                 /\ inbound'[t][w] = Reserved /\ mishaps' = 0 => \E g \in Requests : On(g, t, w)'
      <3>1. CASE <<t, w>> = <<s, u>>
        BY <1>4, <2>1, <3>1
      <3>2. CASE <<t, w>> # <<s, u>>
        BY <1>4, <2>2, <3>2 DEF RecordInv, RowsTell, RowTells
      <3> QED BY <3>1, <3>2
    <2> QED BY <2>3 DEF RowsTell, RowTells
  <1> QED BY <1>7, <1>8, <1>9 DEF RecordInv

LEMMA RecordFinish ==
  ASSUME Shape, RecordInv, NEW h \in Requests, Finish(h),
         NEW s \in Setups, NEW u \in Updates, request[h].setup = s, request[h].update = u
  PROVE  RecordInv'
  <1> USE BridgeAssumption, EntryFacts DEF Past, Verdicts
  <1>0. PICK v : v = request[h].verdict
    OBVIOUS
  <1>1. request[h].pc = "finish" /\ v \in Verdicts
    BY <1>0 DEF Finish, Shape, RequestInv
  <1>2. request'[h] = NoRequest /\ \A g \in Requests : g # h => request'[g] = request[g]
    BY DEF Finish, Steps, Shape, TypeOK
  <1>3. /\ inbound'[s][u] = Entry(v, v # "accepted")
        /\ \A t \in Setups, w \in Updates : <<t, w>> # <<s, u>> => inbound'[t][w] = inbound[t][w]
        /\ log' = log /\ (mishaps' = 0 => mishaps = 0)
    BY <1>0, <1>1 DEF Finish, Record, Answer, Mishap, Shape, TypeOK
  <1>4. \A g \in Requests, t \in Setups, w \in Updates : On(g, t, w)' <=> On(g, t, w) /\ g # h
    BY <1>2 DEF On, NoRequest, Request
  <1>5. \A g \in Requests : request'[g].pc \in Past =>
           /\ g # h /\ request'[g] = request[g]
           /\ request[g].setup \in Setups /\ request[g].update \in Updates
           /\ <<request[g].setup, request[g].update>> # <<s, u>>
    BY <1>1, <1>2 DEF RecordInv, OwnRow, On, Shape, RequestInv, NoRequest, Request
  <1>6. OwnRow'
    BY <1>3, <1>4, <1>5 DEF RecordInv, OwnRow
  <1>7. OwnMessage'
    BY <1>2, <1>3 DEF RecordInv, OwnMessage, NoRequest, Request
  <1>8. RowsTell'
    <2>1. /\ v = "accepted" => <<s, u>> \in log
          /\ v \in {"ignored", "denied"} => <<s, u>> \notin log
          /\ v = "error" => mishaps # 0
      BY <1>0 DEF RecordInv, OwnMessage
    <2>2. \A t \in Setups, w \in Updates, g \in Requests :
             <<t, w>> # <<s, u>> /\ On(g, t, w) => g # h
      BY DEF On
    <2>3. ASSUME NEW t \in Setups, NEW w \in Updates
          PROVE  /\ inbound'[t][w].status = "accepted" => <<t, w>> \in log'
                 /\ inbound'[t][w] # Reserved /\ inbound'[t][w].status \in {"none", "ignored", "denied"} => <<t, w>> \notin log'
                 /\ inbound'[t][w].status = "error" => mishaps' # 0
                 /\ inbound'[t][w] = Reserved /\ mishaps' = 0 => \E g \in Requests : On(g, t, w)'
      <3>1. CASE <<t, w>> = <<s, u>>
        BY <1>1, <1>3, <2>1, <3>1 DEF Shape, TypeOK
      <3>2. CASE <<t, w>> # <<s, u>>
        BY <1>3, <1>4, <2>2, <3>2 DEF RecordInv, RowsTell, RowTells
      <3> QED BY <3>1, <3>2
    <2> QED BY <2>3 DEF RowsTell, RowTells
  <1> QED BY <1>6, <1>7, <1>8 DEF RecordInv

LEMMA RecordStep ==
  ASSUME Shape, RecordInv, [Next]_vars
  PROVE  RecordInv'
  <1>0. \A h \in Requests : request[h].pc # "idle" => request[h].setup \in Setups /\ request[h].update \in Updates
    BY DEF Shape, RequestInv
  <1>1. ASSUME NEW s \in Setups, Create(s)  PROVE RecordInv'
    <2>1. UNCHANGED <<inbound, log, request, mishaps>>
      BY <1>1 DEF Create, CheckExisting, InsertSetup, GetMeFails, RegisterWebhook, MarkError
    <2> QED BY <2>1, RecordFrame
  <1>2. ASSUME NEW a \in Admins, Administer(a)  PROVE RecordInv'
    <2>1. UNCHANGED <<inbound, log, request, mishaps>>
      BY <1>2 DEF Administer, LoadForDisable, LoadForRotate, Unhook, Disable, Rehook, Rotate, AdminFails
    <2> QED BY <2>1, RecordFrame
  <1>3. ASSUME NEW u \in Updates, Deliver(u)  PROVE RecordInv'
    <2>1. UNCHANGED <<inbound, log, mishaps>>
      BY <1>3 DEF Deliver, LoadDisabled, Load
    <2>2. \A h \in Requests : request'[h] # request[h] =>
             request[h].pc = "idle" /\ request'[h].pc = "reserve" /\ request'[h].verdict = Null
      <3>1. CASE LoadDisabled(u)
        BY <3>1 DEF LoadDisabled
      <3>2. ASSUME NEW h \in Requests, Load(h, u)
            PROVE  /\ request[h].pc = "idle"
                   /\ \E r : /\ r.pc = "reserve" /\ r.verdict = Null
                             /\ request' = [request EXCEPT ![h] = r]
        BY <3>2 DEF Load, Steps, Request
      <3> QED BY <1>3, <3>1, <3>2 DEF Deliver, Shape, TypeOK
    <2> QED BY <2>1, <2>2, RecordFrame DEF Past
  <1>4. ASSUME NEW h \in Requests, Proceed(h) \/ QueryFails(h)  PROVE RecordInv'
    <2>1. request[h].setup \in Setups /\ request[h].update \in Updates
      BY <1>4, OneRequest
    <2> USE DEF Past, Finishing, At, Request
    <2>2. CASE Reserve(h)
      BY <2>1, <2>2, RecordReserve
    <2>3. CASE Finish(h)
      BY <2>1, <2>3, RecordFinish
    <2>4. CASE Duplicate(h)
      <3>1. /\ UNCHANGED <<inbound, log>> /\ (mishaps' = 0 => mishaps = 0)
            /\ request[h].pc = "reserve" /\ request' = [request EXCEPT ![h] = NoRequest]
        BY <2>4 DEF Duplicate, Answer, Mishap, Steps, Shape, TypeOK
      <3>2. \A g \in Requests : request'[g] # request[g] =>
               request[g].pc = "reserve" /\ request'[g].pc = "idle" /\ request'[g].verdict = Null
        BY <3>1 DEF Shape, TypeOK, NoRequest
      <3> QED BY <3>1, <3>2, RecordFrame
    <2>5. CASE CheckConflict(h)
      <3>1. PICK r \in {Finishing(request[h], "ignored"), At(request[h], "bind")} :
               request' = [request EXCEPT ![h] = r]
        BY <2>5 DEF CheckConflict, Steps
      <3>2. UNCHANGED <<inbound, log, mishaps>> /\ request[h].pc = "conflict"
        BY <2>5 DEF CheckConflict
      <3>3. <<request[h].setup, request[h].update>> \notin log
        BY <3>2 DEF RecordInv, OwnMessage
      <3> QED BY BridgeAssumption, <3>1, <3>2, <3>3, RecordOnward DEF Verdicts
    <2>6. CASE Bind(h)
      <3>1. request' = [request EXCEPT ![h] = At(request[h], "append")]
        BY <2>6 DEF Bind, Steps
      <3>2. UNCHANGED <<inbound, log, mishaps>> /\ request[h].pc = "bind"
        BY <2>6 DEF Bind
      <3> QED BY BridgeAssumption, <3>1, <3>2, RecordOnward DEF Verdicts
    <2>7. CASE AppendText(h)
      <3>1. UNCHANGED <<inbound, mishaps>> /\ request[h].pc = "append"
        BY <2>7 DEF AppendText
      <3>2. <<request[h].setup, request[h].update>> \notin log
        BY <3>1 DEF RecordInv, OwnMessage
      <3>3. CASE /\ request' = [request EXCEPT ![h] = Finishing(request[h], "accepted")]
                 /\ log' = log \union {<<request[h].setup, request[h].update>>}
        BY <3>1, <3>3, RecordOnward
      <3>4. CASE request' = [request EXCEPT ![h] = Finishing(request[h], "denied")] /\ log' = log
        BY <3>1, <3>2, <3>4, RecordOnward
      <3> QED BY <2>7, <3>3, <3>4 DEF AppendText, Steps
    <2>8. CASE QueryFails(h)
      <3>1. UNCHANGED <<inbound, log>> /\ mishaps' # 0 /\ request[h].pc \in {"reserve", "conflict", "bind", "append", "finish"}
        BY <2>8 DEF QueryFails, Mishap, Shape, TypeOK
      <3>2. CASE request' = [request EXCEPT ![h] = NoRequest]
        <4>1. \A g \in Requests : request'[g] \in {request[g], NoRequest}
          BY <3>2
        <4> QED BY <3>1, <4>1, RecordDropped
      <3>3. CASE request[h].pc # "reserve" /\ request' = [request EXCEPT ![h] = Finishing(request[h], "error")]
        BY <3>1, <3>3, RecordOnward
      <3> QED BY <2>8, <3>2, <3>3 DEF QueryFails, Steps
    <2> QED BY <1>4, <2>2, <2>3, <2>4, <2>5, <2>6, <2>7, <2>8 DEF Proceed
  <1>5. CASE Crash
    <2>1. UNCHANGED <<inbound, log>> /\ mishaps' # 0 /\ \A h \in Requests : request'[h] = NoRequest
      BY <1>5 DEF Crash, Mishap, Shape, TypeOK
    <2> QED BY <2>1, RecordDropped
  <1>6. CASE UNCHANGED vars
    <2>1. UNCHANGED <<inbound, log, request, mishaps>>
      BY <1>6 DEF vars
    <2> QED BY <2>1, RecordFrame
  <1> QED BY <1>1, <1>2, <1>3, <1>4, <1>5, <1>6 DEF Next

(* What is recorded of an update agrees with the channel, and without a      *)
(* mishap nothing is left open, however requests and retries overlap.        *)
THEOREM RecordsAlwaysTell == Spec => []RecordsTell
  <1>1. Shape /\ RecordInv => RecordsTell
    <2> SUFFICES ASSUME Shape, RecordInv, NEW s \in Setups, NEW u \in Updates
                 PROVE  /\ inbound[s][u].status = "accepted" => <<s, u>> \in log
                        /\ inbound[s][u] # Reserved /\ inbound[s][u].status \in {"ignored", "denied"} => <<s, u>> \notin log
                        /\ mishaps = 0 /\ ~Working(s, u) =>
                              /\ inbound[s][u] # Reserved
                              /\ <<s, u>> \in log => inbound[s][u].status = "accepted"
      BY DEF RecordsTell
    <2>1. inbound[s][u] \in Entries
      BY DEF Shape, TypeOK
    <2>2. ~Working(s, u) => ~\E h \in Requests : On(h, s, u)
      BY DEF Working, On, InFlight
    <2> QED BY <2>1, <2>2, EntryFacts DEF RecordInv, RowsTell, RowTells, Verdicts
  <1> QED BY ShapeInit, ShapeStep, RecordInit, RecordStep, <1>1, PTL DEF Spec

(***************************************************************************)
(* A disabled setup.                                                       *)
(***************************************************************************)
\* What may become of a retired setup in one step: nothing.
LEMMA RetiredStep ==
  ASSUME Shape, [Next]_vars, NEW s \in Setups, Retired(s)
  PROVE  Retired(s)' /\ \A u \in Updates : (<<s, u>> \in log)' => <<s, u>> \in log
  <1> USE DEF Shape, TypeOK
  <1>0. setup[s].status = "disabled" /\ creating[s] = "over" /\ \A h \in Requests : request[h].setup # s
    BY DEF Retired, InFlight
  <1> SUFFICES /\ setup'[s].status = "disabled" /\ creating'[s] = "over"
               /\ \A h \in Requests : request'[h].setup # s
               /\ \A u \in Updates : <<s, u>> \in log' => <<s, u>> \in log
    BY DEF Retired, InFlight
  <1>1. ASSUME NEW t \in Setups, Create(t)
        PROVE  /\ UNCHANGED <<log, request>>
               /\ setup'[s] = setup[s] /\ creating'[s] = creating[s]
    <2>1. creating[t] \in {"no", "checked", "inserted", "refused"} /\ UNCHANGED <<log, request>>
      BY <1>1 DEF Create, CheckExisting, InsertSetup, GetMeFails, RegisterWebhook, MarkError
    <2>2. t # s
      BY <1>0, <2>1
    <2> QED BY <1>1, <2>1, <2>2
            DEF Create, CheckExisting, InsertSetup, GetMeFails, RegisterWebhook, MarkError, Creates
  <1>2. ASSUME NEW a \in Admins, Administer(a)
        PROVE  /\ UNCHANGED <<log, request, creating>>
               /\ setup'[s].status \in {setup[s].status, "disabled"}
    BY <1>2 DEF Administer, LoadForDisable, LoadForRotate, Unhook, Disable, Rehook, Rotate, AdminFails,
                WithStatus, Row
  <1>3. ASSUME NEW u \in Updates, Deliver(u)
        PROVE  /\ UNCHANGED <<log, setup, creating>>
               /\ \A h \in Requests : request'[h].setup # s
    <2>1. UNCHANGED <<log, setup, creating>>
      BY <1>3 DEF Deliver, LoadDisabled, Load
    <2>2. ASSUME NEW h \in Requests, Load(h, u)
          PROVE  \E r : r.setup # s /\ request' = [request EXCEPT ![h] = r]
      <3>1. hook[Bot[u]].setup # s
        BY <1>0, <2>2 DEF Load
      <3> QED BY <2>2, <3>1 DEF Load, Steps, Request
    <2> QED BY <1>0, <1>3, <2>1, <2>2 DEF Deliver, LoadDisabled
  <1>4. ASSUME NEW h \in Requests, Proceed(h) \/ QueryFails(h)
        PROVE  /\ creating' = creating /\ setup'[s] = setup[s]
               /\ \A g \in Requests : request'[g].setup # s
               /\ \A u \in Updates : <<s, u>> \in log' => <<s, u>> \in log
    <2>1. /\ creating' = creating /\ request[h].setup # s
          /\ \A g \in Requests : request'[g].setup \in {request[g].setup, Null}
      BY <1>0, <1>4, OneRequest
    <2>2. setup'[s] = setup[s]
      BY <1>4, <2>1 DEF Proceed, Reserve, Duplicate, CheckConflict, Bind, AppendText, Finish, QueryFails
    <2>3. log' = log \/ log' = log \union {<<request[h].setup, request[h].update>>}
      BY <1>4 DEF Proceed, Reserve, Duplicate, CheckConflict, Bind, AppendText, Finish, QueryFails
    <2> QED BY BridgeAssumption, <1>0, <2>1, <2>2, <2>3
  <1>5. CASE Crash
    BY BridgeAssumption, <1>0, <1>5 DEF Crash, NoRequest, Request
  <1>6. CASE UNCHANGED vars
    BY <1>0, <1>6 DEF vars
  <1> QED BY <1>0, <1>1, <1>2, <1>3, <1>4, <1>5, <1>6 DEF Next

(* A setup that is disabled stays so and appends nothing more, once the      *)
(* requests that loaded it before are over.                                  *)
THEOREM DisabledIsFinal == Spec => RetiredForGood
  <1>1. Shape /\ [Next]_vars
          => [\A s \in Setups : Retired(s) =>
                Retired(s)' /\ \A u \in Updates : (<<s, u>> \in log)' => <<s, u>> \in log]_vars
    BY RetiredStep
  <1> QED BY ShapeInit, ShapeStep, <1>1, PTL DEF Spec, RetiredForGood

(***************************************************************************)
(* Bindings.                                                               *)
(***************************************************************************)
LEMMA CalmInit == Init => CalmInv
  BY BridgeAssumption
     DEF Init, CalmInv, CalmFor, Alone, Loaded, OneChat, OneOwner, MayBind, Unbound,
         NoRequest, Request, Absent, Row

\* No binding, no message, and requests only come to their end.
LEMMA CalmFrame ==
  ASSUME Shape, UNCHANGED log, NEW b \in Bots, CalmFor(b),
         \A s \in Setups : /\ setup'[s].chat = setup[s].chat
                           /\ setup'[s].status = "active" => setup[s].status = "active",
         \A h \in Requests : request'[h] = request[h] \/ request'[h].pc \in {"idle", "finish"}
  PROVE  CalmFor(b)'
  <1>1. Alone(b)'
    BY DEF CalmFor, Alone, MayBind, Unbound
  <1>2. \A s \in Setups, c \in Chats \union {Null} : Bound(s, c)' => Bound(s, c)
    BY DEF Bound
  <1>3. ASSUME NEW h \in Requests, NEW s \in Setups, NEW u \in Updates,
               request'[h].setup = s, request'[h].update = u, Bot[s] = b,
               request'[h].pc \in {"reserve", "conflict", "bind", "append"}
        PROVE  /\ request'[h].pc \in Unbound => setup'[s].chat = request'[h].chat
               /\ request'[h].pc = "append" => setup'[s].chat = Chat[u]
               /\ request'[h].pc = "bind" => ~Bound(s, Chat[u])'
    <2>1. request'[h] = request[h]
      BY <1>3
    <2>2. Chat[u] \in Chats \union {Null}
      BY DEF Chats
    <2> QED BY <1>2, <1>3, <2>1, <2>2 DEF CalmFor, Loaded
  <1>4. Loaded(b)'
    BY <1>3 DEF Loaded, Unbound, Shape, RequestInv
  <1>5. OneChat(b)'
    BY DEF CalmFor, OneChat
  <1>6. OneOwner(b)'
    BY DEF CalmFor, OneOwner
  <1> QED BY <1>1, <1>4, <1>5, <1>6 DEF CalmFor

LEMMA CalmLoad ==
  ASSUME Shape, NEW b \in Bots, CalmFor(b), b \notin overlap',
         NEW h \in Requests, NEW v \in Updates, Load(h, v)
  PROVE  CalmFor(b)'
  <1> USE BridgeAssumption DEF Unbound
  <1>0. PICK s \in Setups : s = hook[Bot[v]].setup
    BY DEF Load, Bots, Shape, TypeOK
  <1>1. /\ UNCHANGED <<setup, log>> /\ request[h].pc = "idle"
        /\ request'[h] = Request("reserve", v, s, setup[s].chat, Null)
        /\ \A g \in Requests : g # h => request'[g] = request[g]
        /\ setup[s].chat = Null /\ Bot[s] = b => \A g \in Requests : ~MayBind(g, b)
    BY <1>0 DEF Load, Steps, Shape, TypeOK
  <1>2. \A g \in Requests : /\ g # h => (MayBind(g, b)' <=> MayBind(g, b))
                            /\ g = h /\ MayBind(g, b)' => setup[s].chat = Null /\ Bot[s] = b
    BY <1>1 DEF MayBind, Request
  <1>3. Alone(b)'
    BY <1>1, <1>2 DEF CalmFor, Alone
  <1>4. \A t \in Setups, c \in Chats \union {Null} : Bound(t, c)' <=> Bound(t, c)
    BY <1>1 DEF Bound
  <1>5. Loaded(b)'
    <2>1. ASSUME NEW g \in Requests, NEW t \in Setups, NEW u \in Updates,
                 request'[g].setup = t, request'[g].update = u, Bot[t] = b
          PROVE  /\ request'[g].pc \in Unbound => setup'[t].chat = request'[g].chat
                 /\ request'[g].pc = "append" => setup'[t].chat = Chat[u]
                 /\ request'[g].pc = "bind" => ~Bound(t, Chat[u])'
      <3>1. CASE g = h
        BY <1>1, <2>1, <3>1 DEF Request
      <3>2. CASE g # h
        <4>1. request'[g] = request[g] /\ Chat[u] \in Chats \union {Null}
          BY <1>1, <3>2 DEF Chats
        <4> QED BY <1>1, <1>4, <2>1, <4>1 DEF CalmFor, Loaded
      <3> QED BY <3>1, <3>2
    <2>2. \A g \in Requests : request'[g].pc # "idle" => request'[g].update \in Updates
      BY <1>1 DEF Request, Shape, RequestInv
    <2> QED BY <2>1, <2>2 DEF Loaded
  <1>6. OneChat(b)' /\ OneOwner(b)'
    BY <1>1 DEF CalmFor, OneChat, OneOwner
  <1> QED BY <1>3, <1>5, <1>6 DEF CalmFor

\* Reserve and CheckConflict: a request keeps what it has loaded, and goes
\* on to append or to bind only if that is right.
LEMMA CalmOnward ==
  ASSUME Shape, UNCHANGED <<setup, log>>, NEW b \in Bots, CalmFor(b),
         NEW h \in Requests, NEW s \in Setups, NEW u \in Updates, NEW pc \in {"conflict", "bind", "append"},
         request[h].setup = s, request[h].update = u, request[h].pc \in {"reserve", "conflict"},
         request' = [request EXCEPT ![h] = At(request[h], pc)],
         pc \in {"conflict", "bind"} => request[h].chat = Null,
         pc = "bind" => ~Bound(s, Chat[u]),
         pc = "append" => request[h].chat = Chat[u]
  PROVE  CalmFor(b)'
  <1> USE DEF Unbound
  <1>1. /\ request'[h] = Request(pc, u, s, Null, Null)
        /\ \A g \in Requests : g # h => request'[g] = request[g]
    BY DEF At, Shape, TypeOK
  <1>2. \A g \in Requests : MayBind(g, b)' => MayBind(g, b)
    BY <1>1 DEF MayBind, Request
  <1>3. Alone(b)'
    BY <1>2 DEF CalmFor, Alone
  <1>4. \A t \in Setups, c \in Chats \union {Null} : Bound(t, c)' <=> Bound(t, c)
    BY DEF Bound
  <1>5. \A w \in Updates : Chat[w] \in Chats \union {Null}
    BY DEF Chats
  <1>6. Loaded(b)'
    <2>1. ASSUME NEW g \in Requests, NEW t \in Setups, NEW w \in Updates,
                 request'[g].setup = t, request'[g].update = w, Bot[t] = b
          PROVE  /\ request'[g].pc \in Unbound => setup'[t].chat = request'[g].chat
                 /\ request'[g].pc = "append" => setup'[t].chat = Chat[w]
                 /\ request'[g].pc = "bind" => ~Bound(t, Chat[w])'
      <3>1. CASE g = h
        <4>1. t = s /\ w = u /\ request'[g].pc = pc /\ request'[g].chat = Null
          BY <1>1, <2>1, <3>1 DEF Request
        <4>2. setup[s].chat = request[h].chat
          BY <2>1, <4>1 DEF CalmFor, Loaded
        <4> QED BY <1>4, <1>5, <4>1, <4>2
      <3>2. CASE g # h
        BY <1>1, <1>4, <1>5, <2>1, <3>2 DEF CalmFor, Loaded
      <3> QED BY <3>1, <3>2
    <2>2. \A g \in Requests : request'[g].pc # "idle" => request'[g].update \in Updates
      BY <1>1 DEF Request, Shape, RequestInv
    <2> QED BY <2>1, <2>2 DEF Loaded
  <1>7. OneChat(b)' /\ OneOwner(b)'
    BY DEF CalmFor, OneChat, OneOwner
  <1> QED BY <1>3, <1>6, <1>7 DEF CalmFor

LEMMA CalmBind ==
  ASSUME Shape, NEW b \in Bots, CalmFor(b), NEW h \in Requests, Bind(h),
         NEW s \in Setups, NEW u \in Updates, request[h].setup = s, request[h].update = u
  PROVE  CalmFor(b)'
  <1> USE BridgeAssumption DEF Unbound
  <1>1. /\ request[h].pc = "bind" /\ request[h].chat = Null /\ Chat[u] # Null
        /\ request'[h] = Request("append", u, s, Null, Null)
        /\ \A g \in Requests : g # h => request'[g] = request[g]
        /\ setup'[s].status = "active" /\ setup'[s].chat = Chat[u]
        /\ \A t \in Setups : t # s => setup'[t] = setup[t]
        /\ log' = log
    BY DEF Bind, Steps, At, Row, Shape, TypeOK, RequestInv
  <1>2. CASE Bot[s] # b
    <2>1. Alone(b)'
      BY <1>1, <1>2 DEF CalmFor, Alone, MayBind, Request
    <2>2. \A t \in Setups, c \in Chats \union {Null} : Bot[t] = b => (Bound(t, c)' <=> Bound(t, c))
      BY <1>1, <1>2 DEF Bound
    <2>3. ASSUME NEW g \in Requests, NEW t \in Setups, NEW w \in Updates,
                 request'[g].setup = t, request'[g].update = w, Bot[t] = b
          PROVE  /\ request'[g].pc \in Unbound => setup'[t].chat = request'[g].chat
                 /\ request'[g].pc = "append" => setup'[t].chat = Chat[w]
                 /\ request'[g].pc = "bind" => ~Bound(t, Chat[w])'
      <3>1. g # h /\ t # s /\ Chat[w] \in Chats \union {Null}
        BY <1>1, <1>2, <2>3 DEF Request, Chats
      <3> QED BY <1>1, <2>2, <2>3, <3>1 DEF CalmFor, Loaded
    <2>4. \A g \in Requests : request'[g].pc # "idle" => request'[g].update \in Updates
      BY <1>1 DEF Request, Shape, RequestInv
    <2>5. Loaded(b)'
      BY <2>3, <2>4 DEF Loaded
    <2>6. OneChat(b)' /\ OneOwner(b)'
      BY <1>1, <1>2 DEF CalmFor, OneChat, OneOwner
    <2> QED BY <2>1, <2>5, <2>6 DEF CalmFor
  <1>3. CASE Bot[s] = b
    <2>1. MayBind(h, b) /\ \A g \in Requests : g # h => ~MayBind(g, b)
      BY <1>1, <1>3 DEF CalmFor, Alone, MayBind
    <2>2. setup[s].chat = Null /\ ~Bound(s, Chat[u])
      BY <1>1, <1>3 DEF CalmFor, Loaded
    <2>3. Alone(b)'
      BY <1>1, <2>1 DEF Alone, MayBind, Request
    <2>4. ASSUME NEW g \in Requests, NEW t \in Setups, NEW w \in Updates,
                 request'[g].setup = t, request'[g].update = w, Bot[t] = b
          PROVE  /\ request'[g].pc \in Unbound => setup'[t].chat = request'[g].chat
                 /\ request'[g].pc = "append" => setup'[t].chat = Chat[w]
                 /\ request'[g].pc # "bind"
      <3>1. CASE g = h
        BY <1>1, <2>4, <3>1 DEF Request
      <3>2. CASE g # h /\ request[g].pc \in Unbound
        <4>1. request[g].chat # Null /\ request[g].pc = "reserve"
          BY <1>1, <2>1, <2>4, <3>2 DEF MayBind, Shape, RequestInv
        <4>2. setup[t].chat = request[g].chat /\ t # s
          BY <1>1, <2>2, <2>4, <3>2, <4>1 DEF CalmFor, Loaded
        <4> QED BY <1>1, <3>2, <4>1, <4>2
      <3>3. CASE g # h /\ request[g].pc = "append"
        <4>1. setup[t].chat = Chat[w] /\ Chat[w] # Null
          BY <1>1, <2>4, <3>3 DEF CalmFor, Loaded, Shape, RequestInv
        <4> QED BY <1>1, <2>2, <3>3, <4>1
      <3>4. CASE g # h /\ request[g].pc \notin Unbound /\ request[g].pc # "append"
        BY <1>1, <3>4
      <3> QED BY <3>1, <3>2, <3>3, <3>4
    <2>5. \A g \in Requests : request'[g].pc # "idle" => request'[g].update \in Updates
      BY <1>1 DEF Request, Shape, RequestInv
    <2>6. Loaded(b)'
      BY <2>4, <2>5 DEF Loaded
    <2>7. OneChat(b)'
      BY <1>1, <2>2 DEF CalmFor, OneChat
    <2>8. OneOwner(b)'
      BY <1>1, <1>3, <2>2 DEF CalmFor, OneOwner, Bound
    <2> QED BY <2>3, <2>6, <2>7, <2>8 DEF CalmFor
  <1> QED BY <1>2, <1>3

LEMMA CalmAppend ==
  ASSUME Shape, NEW b \in Bots, CalmFor(b), NEW h \in Requests, AppendText(h),
         NEW s \in Setups, NEW u \in Updates, request[h].setup = s, request[h].update = u
  PROVE  CalmFor(b)'
  <1>1. /\ request[h].pc = "append" /\ Chat[u] # Null /\ setup' = setup
        /\ request'[h].pc = "finish"
        /\ \A g \in Requests : g # h => request'[g] = request[g]
        /\ log' = log \/ log' = log \union {<<s, u>>}
    BY DEF AppendText, Steps, Finishing, Request, Shape, TypeOK, RequestInv
  <1>2. Alone(b)'
    BY <1>1 DEF CalmFor, Alone, MayBind, Unbound
  <1>3. \A t \in Setups, c \in Chats \union {Null} : Bound(t, c)' <=> Bound(t, c)
    BY <1>1 DEF Bound
  <1>4. Loaded(b)'
    <2>1. ASSUME NEW g \in Requests, NEW t \in Setups, NEW w \in Updates,
                 request'[g].setup = t, request'[g].update = w, Bot[t] = b, g # h
          PROVE  /\ request'[g].pc \in Unbound => setup'[t].chat = request'[g].chat
                 /\ request'[g].pc = "append" => setup'[t].chat = Chat[w]
                 /\ request'[g].pc = "bind" => ~Bound(t, Chat[w])'
      <3>1. Chat[w] \in Chats \union {Null}
        BY DEF Chats
      <3> QED BY <1>1, <1>3, <2>1, <3>1 DEF CalmFor, Loaded
    <2>2. \A g \in Requests : g # h /\ request'[g].pc # "idle" => request'[g].update \in Updates
      BY <1>1 DEF Shape, RequestInv
    <2> QED BY <1>1, <2>1, <2>2 DEF Loaded, Unbound
  <1>5. Bot[s] = b => setup[s].chat = Chat[u]
    BY <1>1 DEF CalmFor, Loaded
  <1>6. OneChat(b)' /\ OneOwner(b)'
    BY <1>1, <1>5 DEF CalmFor, OneChat, OneOwner
  <1> QED BY <1>2, <1>4, <1>6 DEF CalmFor

LEMMA CalmStep ==
  ASSUME Shape, BirthInv, CalmInv, [Next]_vars
  PROVE  CalmInv'
  <1> SUFFICES ASSUME NEW b \in Bots, b \notin overlap'
               PROVE  CalmFor(b)'
    BY DEF CalmInv
  <1>0. CalmFor(b)
    <2>1. overlap \subseteq overlap'
      BY DEF Next, vars, Create, CheckExisting, InsertSetup, GetMeFails, RegisterWebhook, MarkError,
             Administer, LoadForDisable, LoadForRotate, Unhook, Disable, Rehook, Rotate, AdminFails,
             Deliver, LoadDisabled, Load, Proceed, Reserve, Duplicate, CheckConflict, Bind, AppendText, Finish,
             QueryFails, Crash
    <2> QED BY <2>1 DEF CalmInv
  <1>1. ASSUME NEW s \in Setups, Create(s)  PROVE CalmFor(b)'
    <2>1. UNCHANGED <<log, request>>
      BY <1>1 DEF Create, CheckExisting, InsertSetup, GetMeFails, RegisterWebhook, MarkError
    <2>2. creating[s] = "checked" => setup[s] = Absent
      BY DEF BirthInv
    <2>3. \A t \in Setups : /\ setup'[t].chat = setup[t].chat
                            /\ setup'[t].status = "active" => setup[t].status = "active"
      BY <1>1, <2>2 DEF Create, CheckExisting, InsertSetup, GetMeFails, RegisterWebhook, MarkError,
                        WithStatus, Row, Absent, Shape, TypeOK
    <2> QED BY <1>0, <2>1, <2>3, CalmFrame
  <1>2. ASSUME NEW a \in Admins, Administer(a)  PROVE CalmFor(b)'
    <2>1. UNCHANGED <<log, request>>
      BY <1>2 DEF Administer, LoadForDisable, LoadForRotate, Unhook, Disable, Rehook, Rotate, AdminFails
    <2>2. \A t \in Setups : /\ setup'[t].chat = setup[t].chat
                            /\ setup'[t].status = "active" => setup[t].status = "active"
      BY <1>2 DEF Administer, LoadForDisable, LoadForRotate, Unhook, Disable, Rehook, Rotate, AdminFails,
                  WithStatus, Row, Shape, TypeOK
    <2> QED BY <1>0, <2>1, <2>2, CalmFrame
  <1>3. ASSUME NEW v \in Updates, Deliver(v)  PROVE CalmFor(b)'
    <2>1. CASE LoadDisabled(v)
      BY <1>0, <2>1, CalmFrame DEF LoadDisabled
    <2> QED BY <1>0, <1>3, <2>1, CalmLoad DEF Deliver
  <1>4. ASSUME NEW h \in Requests, Proceed(h) \/ QueryFails(h)  PROVE CalmFor(b)'
    <2>0. PICK s \in Setups, u \in Updates : request[h].setup = s /\ request[h].update = u
      BY <1>4, OneRequest
    <2>1. ASSUME UNCHANGED <<setup, log>>, request'[h].pc \in {"idle", "finish"}  PROVE CalmFor(b)'
      BY <1>0, <1>4, <2>1, OneRequest, CalmFrame
    <2>2. CASE Reserve(h)
      <3>1. /\ UNCHANGED <<setup, log>> /\ request[h].pc = "reserve"
            /\ request' = [request EXCEPT ![h] = Route(request[h])]
        BY <2>2 DEF Reserve, Steps
      <3>2. CASE Route(request[h]) \in {Finishing(request[h], "ignored"), Finishing(request[h], "denied")}
        BY <2>1, <3>1, <3>2 DEF Finishing, Request, Shape, TypeOK
      <3>3. CASE Route(request[h]) = At(request[h], "conflict") /\ request[h].chat = Null
        BY <1>0, <2>0, <3>1, <3>3, CalmOnward
      <3>4. CASE Route(request[h]) = At(request[h], "append") /\ request[h].chat = Chat[u]
        BY <1>0, <2>0, <3>1, <3>4, CalmOnward
      <3> QED BY <2>0, <3>2, <3>3, <3>4 DEF Route
    <2>3. CASE CheckConflict(h)
      <3>1. /\ UNCHANGED <<setup, log>> /\ request[h].pc = "conflict" /\ request[h].chat = Null
            /\ request' = [request EXCEPT ![h] =
                  IF Bound(s, Chat[u]) THEN Finishing(request[h], "ignored") ELSE At(request[h], "bind")]
        BY <2>0, <2>3 DEF CheckConflict, Steps, Shape, RequestInv
      <3>2. CASE Bound(s, Chat[u])
        BY <2>1, <3>1, <3>2 DEF Finishing, Request, Shape, TypeOK
      <3>3. CASE ~Bound(s, Chat[u])
        BY <1>0, <2>0, <3>1, <3>3, CalmOnward
      <3> QED BY <3>2, <3>3
    <2>4. CASE Bind(h)
      BY <1>0, <2>0, <2>4, CalmBind
    <2>5. CASE AppendText(h)
      BY <1>0, <2>0, <2>5, CalmAppend
    <2>6. CASE Duplicate(h) \/ Finish(h) \/ QueryFails(h)
      <3>1. UNCHANGED <<setup, log>> /\ request'[h].pc \in {"idle", "finish"}
        BY <2>6 DEF Duplicate, Finish, QueryFails, Steps, NoRequest, Finishing, Request, Shape, TypeOK
      <3> QED BY <2>1, <3>1
    <2> QED BY <1>4, <2>2, <2>3, <2>4, <2>5, <2>6 DEF Proceed
  <1>5. CASE Crash
    BY <1>0, <1>5, CalmFrame DEF Crash, NoRequest, Request
  <1>6. CASE UNCHANGED vars
    BY <1>0, <1>6, CalmFrame DEF vars
  <1> QED BY <1>1, <1>2, <1>3, <1>4, <1>5, <1>6 DEF Next

(* Unless two requests that found a bot's setups unbound were in flight at   *)
(* once, every message of a setup is from the one chat it is bound to ...    *)
THEOREM OneChatUnlessOverlap == Spec => []CalmlyOneChat
  <1>1. CalmInv => CalmlyOneChat
    BY DEF CalmInv, CalmFor, OneChat, CalmlyOneChat, Bots
  <1> QED BY ShapeInit, ShapeStep, BirthInit, BirthStep, CalmInit, CalmStep, <1>1, PTL DEF Spec

(* ... and no two active setups of the bot share a chat.                     *)
THEOREM OneOwnerUnlessOverlap == Spec => []CalmlyOneOwner
  <1>1. CalmInv => CalmlyOneOwner
    BY DEF CalmInv, CalmFor, OneOwner, CalmlyOneOwner, Bots
  <1> QED BY ShapeInit, ShapeStep, BirthInit, BirthStep, CalmInit, CalmStep, <1>1, PTL DEF Spec

(* A setup, its chat and its human stay together: the theorems on chats and  *)
(* owners as the one property that the runs check.                           *)
THEOREM PairedUnlessOverlap == Spec => []CalmlyPaired
  <1>1. TypeOK /\ CalmlyOneChat /\ CalmlyOneOwner => CalmlyPaired
    BY DEF CalmlyPaired
  <1> QED BY <1>1, TypeCorrect, OneChatUnlessOverlap, OneOwnerUnlessOverlap, PTL

(***************************************************************************)
(* The agents (ChatAgents and the modules it extends): what every state of *)
(* them looks like.                                                        *)
(***************************************************************************)
\* What there is to hold: events, handlers, messages.
Kinds == {"message", "command", "mention"}
Events == [kind : Kinds, on : Streams, seq : Nat]
Keys == [kind : Kinds \cup {"run"}, on : Streams, seq : Nat]
Stages == FirstStages \cup {"arrival", "periodic", "running", "error", "relay", "final"}
Outs == {"ok", "thrown", "refused", "denied", "pending", "skipped", "silent"}
Handlers ==
  [key : Events \cup {None}, stage : Stages, to : Streams, run : Nat, wait : BOOLEAN, req : Nat,
   at : {"load", "thread", "channel", "append", "ask", "poll", "followup", "watch", "done"},
   back : {"thread", "channel", "append", None}, out : Outs \cup {None}]
Written ==
  [by : {Me, User}, asks : SUBSET {"command", "mention"}, text : BOOLEAN,
   re : (Stages \cup {"said"}) \X (Events \cup {None})]
ScanPoints ==
  {"off", "boot", "arrive", "connect", "stream", "seek", "idle", "periodic", "poem", "threads", "read", "page"}
Scans ==
  [at : ScanPoints, chans : Seq(Channels), left : Seq(Streams), page : SUBSET Events, max : Nat,
   cut : SUBSET Events, due : BOOLEAN]
There == Channels \cup DOMAIN threads

Asking ==
  [cap : {"message:append", "thread:create", "channel:create", "command:register"}, on : Streams \cup {None},
   status : {"open", "approved", "denied"}]
Opened == [channel : Streams, parent : Nat]
WorldTypes ==
  /\ program \in {"poet", "weather", "assistant", "cursor"}
  /\ life \in [up : BOOLEAN, n : Nat]
  /\ channels \in Seq(Channels)
  /\ threads \in Seq(Opened) /\ Len(threads) <= MaxThreads
  /\ messages \in [Streams -> Seq(Written)]
  /\ requests \in Seq(Asking)
  /\ \A s \in Streams \ There : messages[s] = <<>>
PollTypes ==
  /\ jobs \subseteq Handlers
  /\ seen \subseteq Keys
  /\ last \in [Streams -> Nat] /\ from \in [Streams -> Nat]
  /\ scan \in Scans
Launches == [key : Events, life : Nat, heard : Seq(Streams \X Nat), up : BOOLEAN]
ChatTypes ==
  /\ conn \in {"none", "open", "closed"} /\ subs \subseteq Streams
  /\ DOMAIN sessions \subseteq Threads
  /\ \A t \in DOMAIN sessions : sessions[t] \in [run : Nat, done : SUBSET Nat]
  /\ runs \in Seq(Launches)

\* Where a handler can be.
StagesOf(p) ==
  CASE p = "assistant" -> {"arrival", "answer", "post_message"}
    [] p = "cursor" -> {"ack", "norepo", "running", "error", "relay", "final"}
    [] OTHER -> {"reply", "periodic"}
Placed(j) ==
  /\ j.stage \in {"arrival", "periodic"} =>
       /\ j.key = None /\ j.at \in {"channel", "ask", "poll", "append", "done"}
       /\ j.back \in {None, "channel", "append"}
  /\ j.stage \notin {"arrival", "periodic"} => j.key \in Events /\ j.at # "channel" /\ j.back # "channel"
  /\ j.at = "ask" => j.back \in {"thread", "channel"}
  /\ j.at = "poll" => j.back # None
  /\ j.at = "done" => j.back = None /\ j.out \in Outs
  /\ j.at = "watch" => j.stage = "final"
  /\ j.at = "followup" => j.stage = "relay"
  /\ j.stage \in {"running", "error", "relay", "final"} =>
       /\ j.at \in {"load", "followup", "watch", "append", "poll", "done"}
       /\ j.back \in {None, "append"}
  /\ j.stage \in {"ack", "norepo"} /\ (j.at = "append" \/ j.back = "append" \/ j.out = "ok") => j.to \in Threads
  /\ j.stage \in {"running", "final"} => j.to \in Threads
HandlerOK(j) ==
  /\ Placed(j) /\ j.stage \in StagesOf(program) /\ j.to \in There
  /\ j.stage \notin {"arrival", "periodic"} => j.key.on \in There
HandlersOK == \A j \in jobs : HandlerOK(j)

\* Where the loop can be, and what then holds of the page and of the socket.
LoopOK ==
  /\ ~life.up => jobs = {} /\ DOMAIN sessions = {} /\ scan.at = "off"
  /\ scan.at \in {"off", "boot", "arrive", "connect", "seek"} => conn # "open"
  /\ scan.at \in {"boot", "arrive", "connect", "seek"} => last = Zero
  /\ scan.at \in {"boot", "arrive", "connect", "stream", "seek"} => scan.page = {} /\ scan.cut = {}
  /\ conn = "open" => scan.at = "stream" /\ program \in {"assistant", "cursor"}
  /\ scan.at = "boot" => jobs = {} /\ DOMAIN sessions = {}
  /\ scan.at \in {"threads", "read", "page"} /\ program # "assistant" => scan.chans # <<>>
  /\ scan.at \in {"read", "page"} => scan.left # <<>>
  /\ program = "assistant" =>
       /\ scan.at = "read" => scan.page = {} /\ scan.cut = {}
       /\ scan.at \in {"connect", "seek"} => channels # <<>>
       /\ \A j \in jobs : j.stage = "arrival" => scan.at = "arrive"
  /\ program \in {"poet", "weather"} \/ scan.at = "arrive" => \A j, k \in jobs : j = k
  /\ program # "cursor" => runs = <<>> /\ DOMAIN sessions = {}
  /\ \A s \in Streams : last[s] <= Len(messages[s])
  /\ \A e \in scan.page : e.on \in There /\ e.seq <= Len(messages[e.on])

\* An invocation may still be answered by this run of the process while it
\* can be taken up or is being handled, and then it was not answered yet.
Reopenable(e) ==
  CASE program = "cursor" -> Remembered(e) \notin seen
    [] program = "assistant" -> e.seq > last[e.on] \/ e \in scan.page
    [] OTHER -> e \notin seen
Unanswered(j) == j.stage \in FirstStages /\ (j.at # "done" \/ j.out \notin {"ok", "thrown"})
MayAnswer(e) == life.up /\ (Reopenable(e) \/ \E j \in jobs : j.key = e /\ Unanswered(j))
AnswersOK ==
  \A e \in Events :
    /\ IsFiniteSet(FirstAnswers(e)) /\ Cardinality(FirstAnswers(e)) <= life.n
    /\ MayAnswer(e) => Cardinality(FirstAnswers(e)) < life.n
Same(e, f) == IF program = "cursor" THEN Remembered(e) = Remembered(f) ELSE e = f
TakenUpOK ==
  /\ \A j \in jobs : j.stage \in FirstStages => ~Reopenable(j.key)
  /\ \A j, k \in jobs : {j.stage, k.stage} \subseteq FirstStages /\ Same(j.key, k.key) => j = k

\* The page is what lies between the number read to and its last event; what
\* is no longer on it is accounted for.
Accounted(e) == Taken(e) \/ \E j \in jobs : j.key = e
PageOK ==
  /\ scan.at = "page" =>
       /\ \A e \in scan.page \cup scan.cut :
            e.on = Head(scan.left) /\ e.on \in There /\ last[e.on] <= e.seq /\ e.seq <= scan.max
       /\ \A e \in scan.cut : e.seq = scan.max
       /\ last[Head(scan.left)] <= scan.max /\ scan.max <= Len(messages[Head(scan.left)])
       /\ \A e \in EventsAfter(Head(scan.left), last[Head(scan.left)]) :
            WantedBy(e) /\ e.seq <= scan.max => e \in scan.page \cup scan.cut \/ Accounted(e)
  /\ program # "assistant" => \A e \in scan.page \cup scan.cut : last[e.on] < e.seq
SeenOK == life.up /\ program \in {"poet", "weather"} => \A e \in seen : Accounted(e)
WatchOK ==
  \A j \in jobs : /\ j.stage = "final" => Taken(j.key)
                  /\ j.stage = "relay" => j.key.kind = "message" /\ IsThread(j.key.on)
SettledInv == PassedIsSettled /\ PageOK /\ SeenOK /\ WatchOK

\* A message launches one run for its command and its mention.
RunsOK ==
  /\ \A r \in DOMAIN runs :
       /\ runs[r].life <= life.n /\ runs[r].key.on \in There
       /\ runs[r].key.kind = "message" => InPrivate(runs[r].key.on)
       /\ life.up /\ runs[r].life = life.n =>
            /\ Remembered(runs[r].key) \in seen
            /\ \A j \in jobs : j.stage \in FirstStages => Remembered(j.key) # Remembered(runs[r].key)
  /\ \A q, r \in DOMAIN runs :
       q # r /\ runs[q].life = runs[r].life => Remembered(runs[q].key) # Remembered(runs[r].key)
  /\ \A j \in jobs : j.stage \in {"ack", "norepo"} /\ j.key.kind = "message" => InPrivate(j.key.on)

\* What a run was told, or is about to be, its session knows of; a run that
\* has no session yet was told nothing.
Heard(r, t, n) == \E i \in DOMAIN runs[r].heard : runs[r].heard[i] = <<t, n>>
Untold(j) == j.stage = "relay" /\ j.at \in {"load", "followup"}
SessionOK(t) ==
  /\ sessions[t].run \in DOMAIN runs
  /\ \E j \in jobs : j.stage = "final" /\ j.run = sessions[t].run /\ j.to = t
  /\ \A n \in Nat : Heard(sessions[t].run, t, n) => n \in sessions[t].done
  /\ \A j \in jobs : Untold(j) /\ j.run = sessions[t].run /\ j.key.on = t => j.key.seq \in sessions[t].done
TellsOK ==
  /\ \A t \in DOMAIN sessions : SessionOK(t)
  /\ \A j \in jobs :
       /\ j.stage \in {"running", "final", "relay"} => j.run \in DOMAIN runs
       /\ j.stage = "running" =>
            /\ runs[j.run].heard = <<>>
            /\ \A t \in DOMAIN sessions : sessions[t].run # j.run
            /\ \A k \in jobs : Untold(k) => k.run # j.run
            /\ \A k \in jobs : k.stage = "running" /\ k.run = j.run => k = j
       /\ Untold(j) =>
            /\ ~Heard(j.run, j.key.on, j.key.seq)
            /\ \A k \in jobs : Untold(k) /\ k.run = j.run /\ k.key.on = j.key.on /\ k.key.seq = j.key.seq => k = j
  /\ \A r \in DOMAIN runs : IsInjective(runs[r].heard)

ShapeOK == WorldTypes /\ PollTypes /\ ChatTypes /\ HandlersOK /\ LoopOK

\* What a call of the client does to its handler j, which goes on as k, and to the server.
Says(j, k) ==
  /\ j.at = "append" /\ k.at = "done" /\ k.out \in {"ok", "thrown"}
  /\ \E m \in Written : m.re = <<j.stage, j.key>> /\ messages' = [messages EXCEPT ![j.to] = Append(@, m)]
GoesOn(j, k) ==
  /\ k \in Handlers /\ k.key = j.key /\ k.run = j.run
  /\ k.stage = j.stage \/ {j.stage, k.stage} \subseteq FirstStages
  /\ Unanswered(k) => Unanswered(j)
  /\ Untold(k) => Untold(j)
  /\ k.stage = "final" => k.to = j.to
Opens ==
  /\ requests' \in Seq(Asking)
  /\ channels' = channels \/ channels' = Append(channels, Own)
  /\ \/ threads' = threads
     \/ Len(threads) < MaxThreads /\ \E t \in Opened : threads' = Append(threads, t)
ClientStep(j) ==
  /\ UNCHANGED <<program, life, pollVars, chatVars>> /\ Opens
  /\ \E k : Becomes(j, k) /\ GoesOn(j, k) /\ HandlerOK(k)' /\ (messages' = messages \/ Says(j, k))
UserStep ==
  /\ requests' \in Seq(Asking)
  /\ UNCHANGED <<program, life, channels, threads, jobs, pollVars, chatVars>>
  /\ \/ messages' = messages
     \/ \E s \in There, m \in Written :
          m.re = <<"said", None>> /\ messages' = [messages EXCEPT ![s] = Append(@, m)]

LEMMA ChannelsAreStreams == Own \in Channels /\ Channels \subseteq Streams /\ Threads \subseteq Streams
  BY DEF Channels, Streams

\* Users and admins only write messages, decide requests and change grants.
LEMMA UsersOnlyWrite ==
  ASSUME ShapeOK, World /\ UNCHANGED <<pollVars, chatVars>>
  PROVE  UserStep
<1> USE DEF ShapeOK
<1>1. ASSUME NEW s \in Streams, NEW h \in Shapes, Post(s, h)  PROVE UserStep
  <2>1. s \in There
    BY <1>1 DEF Post, There, Channels, ToSet, WorldTypes, WorldConstants
  <2> DEFINE m == [by |-> User, asks |-> h.asks, text |-> h.text, re |-> <<"said", None>>]
  <2>2. m \in Written
    BY WorldConstants DEF Written
  <2>3. messages' = [messages EXCEPT ![s] = Append(@, m)] /\ m.re = <<"said", None>>
    BY <1>1 DEF Post
  <2>4. UNCHANGED <<program, life, channels, threads, jobs, pollVars, chatVars>> /\ requests' \in Seq(Asking)
    BY <1>1 DEF Post, WorldTypes
  <2> HIDE DEF m
  <2> QED BY <2>1, <2>2, <2>3, <2>4 DEF UserStep
<1>2. ASSUME NEW r \in DOMAIN requests, Approve(r) \/ Deny(r) \/ ApproveInTeamApp(r)  PROVE UserStep
  <2>1. PICK status \in {"approved", "denied"} : Decide(r, status)
    BY <1>2 DEF Approve, Deny, ApproveInTeamApp
  <2>2. requests \in Seq(Asking) /\ requests[r] \in Asking
    BY DEF WorldTypes
  <2>3. requests' = [requests EXCEPT ![r] = [requests[r] EXCEPT !.status = status]]
    BY <2>1 DEF Decide
  <2>4. [requests[r] EXCEPT !.status = status] \in Asking
    BY <2>2 DEF Asking
  <2>5. requests' \in Seq(Asking)
    BY <2>2, <2>3, <2>4
  <2> QED BY <1>2, <2>1, <2>5 DEF Approve, Deny, ApproveInTeamApp, Decide, UserStep
<1>3. CASE Rescope
  BY <1>3 DEF Rescope, UserStep, WorldTypes
<1> QED BY <1>1, <1>2, <1>3 DEF World

(***************************************************************************)
(* The calls of the client: each leads its handler on, and leaves the rest. *)
(***************************************************************************)
LEMMA OpensMore ==
  ASSUME ShapeOK, Opens
  PROVE  /\ There \subseteq There' /\ There' \subseteq Streams
         /\ Len(threads) \in Nat /\ DOMAIN threads = 1 .. Len(threads)
         /\ \A t \in DOMAIN threads : t \in DOMAIN threads' /\ threads'[t] = threads[t]
         /\ threads' \in Seq(Opened) /\ Len(threads') <= MaxThreads
         /\ requests' \in Seq(Asking)
         /\ channels' \in Seq(Channels) /\ (channels # <<>> => channels' # <<>>)
<1>1. Len(threads) \in Nat /\ DOMAIN threads = 1 .. Len(threads) /\ Len(threads) <= MaxThreads /\ MaxThreads \in Nat
      /\ threads \in Seq(Opened) /\ channels \in Seq(Channels)
  BY WorldConstants DEF ShapeOK, WorldTypes
<1>2. threads' \in Seq(Opened) /\ Len(threads') \in Len(threads) .. MaxThreads
      /\ \A t \in DOMAIN threads : t \in DOMAIN threads' /\ threads'[t] = threads[t]
  <2>1. CASE threads' = threads
    BY <1>1, <2>1
  <2>2. ASSUME Len(threads) < MaxThreads, NEW t \in Opened, threads' = Append(threads, t)
        PROVE  /\ threads' \in Seq(Opened) /\ Len(threads') \in Len(threads) .. MaxThreads
               /\ \A i \in DOMAIN threads : i \in DOMAIN threads' /\ threads'[i] = threads[i]
    <3>1. threads' \in Seq(Opened)
      BY <1>1, <2>2
    <3>2. Len(threads') = Len(threads) + 1 /\ DOMAIN threads' = 1 .. Len(threads) + 1
      BY <1>1, <2>2
    <3>3. \A i \in 1 .. Len(threads) : threads'[i] = threads[i]
      BY <1>1, <2>2
    <3>4. Len(threads) + 1 \in Len(threads) .. MaxThreads
          /\ \A i \in 1 .. Len(threads) : i \in 1 .. Len(threads) + 1
      BY <1>1, <2>2
    <3> QED BY <1>1, <3>1, <3>2, <3>3, <3>4
  <2> QED BY <2>1, <2>2 DEF Opens
<1>3. channels' \in Seq(Channels) /\ (channels # <<>> => channels' # <<>>)
  <2>1. CASE channels' = channels
    BY <1>1, <2>1
  <2>2. CASE channels' = Append(channels, Own)
    <3>1. Own \in Channels
      BY ChannelsAreStreams
    <3> QED BY <1>1, <2>2, <3>1
  <2> QED BY <2>1, <2>2 DEF Opens
<1>4. There \subseteq There' /\ There' \subseteq Streams
  BY <1>1, <1>2, ChannelsAreStreams DEF There, Threads
<1> QED BY <1>1, <1>2, <1>3, <1>4 DEF Opens

LEMMA Stays ==
  ASSUME ShapeOK, Opens, UNCHANGED program, NEW j \in jobs, NEW k,
         Placed(k), k.stage \in StagesOf(program), k.key = j.key, k.to \in There \/ k.to \in There',
         j.stage \in {"arrival", "periodic"} => k.stage \in {"arrival", "periodic"}
  PROVE  HandlerOK(k)'
<1>1. There \subseteq There'
  BY OpensMore
<1>2. HandlerOK(j)
  BY DEF ShapeOK, HandlersOK
<1> QED BY <1>1, <1>2 DEF HandlerOK

\* A handler that ends.
LEMMA EndsWell ==
  ASSUME ShapeOK, NEW j \in jobs, j.at # "done", NEW out \in Outs,
         out = "ok" /\ j.stage \in {"ack", "norepo"} => j.to \in Threads
  PROVE  /\ GoesOn(j, Ends(j, out)) /\ Placed(Ends(j, out))
         /\ Ends(j, out).stage = j.stage /\ Ends(j, out).key = j.key /\ Ends(j, out).to = j.to
         /\ Ends(j, out).at = "done" /\ Ends(j, out).out = out /\ HandlerOK(j)
<1>1. j \in Handlers /\ HandlerOK(j) /\ Placed(j)
  BY DEF ShapeOK, PollTypes, HandlersOK, HandlerOK
<1> DEFINE k == Ends(j, out)
<1>2. k \in Handlers /\ k.stage = j.stage /\ k.key = j.key /\ k.to = j.to /\ k.run = j.run /\ k.at = "done"
      /\ k.out = out /\ k.back = None
  BY <1>1 DEF Handlers, Ends
<1> HIDE DEF k
<1>3. GoesOn(j, k)
  BY <1>1, <1>2 DEF GoesOn, Unanswered, Untold
<1>4. Placed(k)
  BY <1>1, <1>2, WorldConstants DEF Placed
<1> QED BY <1>1, <1>2, <1>3, <1>4 DEF k

LEMMA EndsThere ==
  ASSUME ShapeOK, Opens, UNCHANGED program, NEW j \in jobs, j.at # "done", NEW out \in Outs,
         out = "ok" /\ j.stage \in {"ack", "norepo"} => j.to \in Threads
  PROVE  HandlerOK(Ends(j, out))'
<1>1. Placed(Ends(j, out)) /\ Ends(j, out).stage = j.stage /\ Ends(j, out).key = j.key /\ Ends(j, out).to = j.to
      /\ HandlerOK(j)
  BY EndsWell
<1> DEFINE k == Ends(j, out)
<1>2. k.stage \in StagesOf(program) /\ k.to \in There
  BY <1>1 DEF HandlerOK
<1> QED BY <1>1, <1>2, Stays

\* A call that was not carried out, or whose answer is lost.
LEMMA UnsentStep ==
  ASSUME ShapeOK, NEW j \in jobs, j.at # "done", NEW out \in Outs \ {"ok"}, Becomes(j, Ends(j, out)),
         UNCHANGED <<program, life, pollVars, chatVars, messages>>, Opens
  PROVE  ClientStep(j)
<1>1. GoesOn(j, Ends(j, out)) /\ HandlerOK(Ends(j, out))'
  BY EndsWell, EndsThere
<1> QED BY <1>1 DEF ClientStep

\* A call that goes on to another.
LEMMA OnwardStep ==
  ASSUME ShapeOK, NEW j \in jobs, NEW k, j.at # "done", GoesOn(j, k), Placed(k), Becomes(j, k),
         k.stage \in StagesOf(program), k.to \in There \/ k.to \in There',
         UNCHANGED <<program, life, pollVars, chatVars, messages>>, Opens
  PROVE  ClientStep(j)
<1>1. k.key = j.key /\ (j.stage \in {"arrival", "periodic"} => k.stage \in {"arrival", "periodic"})
  BY DEF GoesOn, FirstStages
<1>2. HandlerOK(k)'
  BY <1>1, Stays
<1> QED BY <1>2 DEF ClientStep

\* Each call of the client is such a step.
LEMMA CreateThreadStep ==
  ASSUME ShapeOK, NEW j \in jobs, createThread(j), UNCHANGED <<pollVars, chatVars>>
  PROVE  ClientStep(j)
<1>1. j \in Handlers /\ HandlerOK(j) /\ Placed(j) /\ j.at = "thread" /\ UNCHANGED <<program, life>>
  BY DEF ShapeOK, PollTypes, HandlersOK, HandlerOK, createThread, frame
<1>2. j.key \in Events /\ j.key.on \in There /\ j.stage \notin {"running", "error", "relay", "final", "arrival", "periodic"}
      /\ j.stage \in StagesOf(program) /\ j.to \in There
  BY <1>1 DEF HandlerOK, Placed
<1>3. Len(threads) \in Nat /\ DOMAIN threads = 1 .. Len(threads) /\ MaxThreads \in Nat
  BY WorldConstants DEF ShapeOK, WorldTypes
<1>4. ASSUME Len(threads) < MaxThreads, threads' = Append(threads, [channel |-> j.key.on, parent |-> j.key.seq]),
             UNCHANGED <<channels, messages, requests>>,
             AnsweredOrLost(j, [j EXCEPT !.at = "append", !.to = Len(threads) + 1, !.wait = TRUE, !.req = 0])
      PROVE  ClientStep(j)
  <2>1. [channel |-> j.key.on, parent |-> j.key.seq] \in Opened
    BY <1>2 DEF Opened, Events
  <2>2. Opens
    BY <1>4, <2>1 DEF Opens, ShapeOK, WorldTypes
  <2>3. Len(threads) + 1 \in Threads /\ Len(threads) + 1 \in There'
    BY <1>3, <1>4, <2>1 DEF There, Threads, ShapeOK, WorldTypes
  <2>4. CASE Becomes(j, [j EXCEPT !.at = "append", !.to = Len(threads) + 1, !.wait = TRUE, !.req = 0])
    <3> DEFINE k == [j EXCEPT !.at = "append", !.to = Len(threads) + 1, !.wait = TRUE, !.req = 0]
    <3>1. k \in Handlers /\ k.stage = j.stage /\ k.key = j.key /\ k.run = j.run /\ k.at = "append"
          /\ k.to = Len(threads) + 1 /\ k.back = j.back
      BY <1>1, <2>3, ChannelsAreStreams DEF Handlers
    <3> HIDE DEF k
    <3>2. GoesOn(j, k)
      BY <1>1, <1>2, <3>1 DEF GoesOn, Unanswered, Untold
    <3>3. Placed(k)
      BY <1>1, <1>2, <2>3, <3>1 DEF Placed
    <3> QED BY <1>1, <1>2, <1>4, <2>2, <2>3, <2>4, <3>1, <3>2, <3>3, OnwardStep DEF k
  <2>5. CASE Becomes(j, Ends(j, "thrown"))
    BY <1>1, <1>4, <2>2, <2>5, UnsentStep DEF Outs
  <2> QED BY <1>4, <2>4, <2>5 DEF AnsweredOrLost
<1>5. ASSUME Becomes(j, [j EXCEPT !.at = "ask", !.back = "thread"]), UNCHANGED server  PROVE ClientStep(j)
  <2> DEFINE k == [j EXCEPT !.at = "ask", !.back = "thread"]
  <2>1. k \in Handlers /\ k.stage = j.stage /\ k.key = j.key /\ k.run = j.run /\ k.at = "ask"
        /\ k.to = j.to /\ k.back = "thread" /\ k.out = j.out
    BY <1>1 DEF Handlers
  <2> HIDE DEF k
  <2>2. GoesOn(j, k)
    BY <1>1, <1>2, <2>1 DEF GoesOn, Unanswered, Untold
  <2>3. Placed(k)
    BY <1>1, <1>2, <2>1 DEF Placed
  <2>4. Opens /\ UNCHANGED messages
    BY <1>5 DEF Opens, server, ShapeOK, WorldTypes
  <2> QED BY <1>1, <1>2, <1>5, <2>1, <2>2, <2>3, <2>4, OnwardStep DEF k
<1>6. ASSUME Unsent(j)  PROVE ClientStep(j)
  <2>1. Opens /\ UNCHANGED messages /\ Becomes(j, Ends(j, "thrown"))
    BY <1>6 DEF Opens, server, Unsent, ShapeOK, WorldTypes
  <2> QED BY <1>1, <2>1, UnsentStep DEF Outs
<1> QED BY <1>4, <1>5, <1>6 DEF createThread

\* What a handler that is not done looks like.
LEMMA HandlerFacts ==
  ASSUME ShapeOK, NEW j \in jobs
  PROVE  /\ j \in Handlers /\ HandlerOK(j) /\ Placed(j)
         /\ j.stage \in StagesOf(program) /\ j.to \in There
         /\ j.stage \in {"arrival", "periodic"} \/ (j.key \in Events /\ j.key.on \in There)
BY DEF ShapeOK, PollTypes, HandlersOK, HandlerOK, Placed

LEMMA CreateChannelStep ==
  ASSUME ShapeOK, NEW j \in jobs, createChannel(j), UNCHANGED <<pollVars, chatVars>>
  PROVE  ClientStep(j)
<1>1. j \in Handlers /\ Placed(j) /\ j.at = "channel" /\ UNCHANGED <<program, life>>
      /\ j.stage \in StagesOf(program) /\ j.to \in There
  BY HandlerFacts DEF createChannel, frame
<1>2. j.stage \notin {"running", "error", "relay", "final"}
  BY <1>1 DEF Placed
<1>4. ASSUME channels' = Append(channels, Own), UNCHANGED <<threads, messages, requests>>,
             AnsweredOrLost(j, [j EXCEPT !.at = "append", !.wait = TRUE, !.req = 0])
      PROVE  ClientStep(j)
  <2>2. Opens
    BY <1>4 DEF Opens, ShapeOK, WorldTypes
  <2>4. CASE Becomes(j, [j EXCEPT !.at = "append", !.wait = TRUE, !.req = 0])
    <3> DEFINE k == [j EXCEPT !.at = "append", !.wait = TRUE, !.req = 0]
    <3>1. k \in Handlers /\ k.stage = j.stage /\ k.key = j.key /\ k.run = j.run /\ k.at = "append"
          /\ k.to = j.to /\ k.back = j.back /\ k.out = j.out
      BY <1>1 DEF Handlers
    <3> HIDE DEF k
    <3>2. GoesOn(j, k)
      BY <1>1, <1>2, <3>1 DEF GoesOn, Unanswered, Untold
    <3>3. Placed(k)
      BY <1>1, <1>2, <3>1 DEF Placed
    <3> QED BY <1>1, <1>2, <1>4, <2>2, <2>4, <3>1, <3>2, <3>3, OnwardStep DEF k
  <2>5. CASE Becomes(j, Ends(j, "thrown"))
    BY <1>1, <1>4, <2>2, <2>5, UnsentStep DEF Outs
  <2> QED BY <1>4, <2>4, <2>5 DEF AnsweredOrLost
<1>5. ASSUME Becomes(j, [j EXCEPT !.at = "ask", !.back = "channel"]), UNCHANGED server  PROVE ClientStep(j)
  <2> DEFINE k == [j EXCEPT !.at = "ask", !.back = "channel"]
  <2>1. k \in Handlers /\ k.stage = j.stage /\ k.key = j.key /\ k.run = j.run /\ k.at = "ask"
        /\ k.to = j.to /\ k.back = "channel" /\ k.out = j.out
    BY <1>1 DEF Handlers
  <2> HIDE DEF k
  <2>2. GoesOn(j, k)
    BY <1>1, <1>2, <2>1 DEF GoesOn, Unanswered, Untold
  <2>3. Placed(k)
    BY <1>1, <1>2, <2>1 DEF Placed
  <2>4. Opens /\ UNCHANGED messages
    BY <1>5 DEF Opens, server, ShapeOK, WorldTypes
  <2> QED BY <1>1, <1>2, <1>5, <2>1, <2>2, <2>3, <2>4, OnwardStep DEF k
<1>6. ASSUME Unsent(j)  PROVE ClientStep(j)
  <2>1. Opens /\ UNCHANGED messages /\ Becomes(j, Ends(j, "thrown"))
    BY <1>6 DEF Opens, server, Unsent, ShapeOK, WorldTypes
  <2> QED BY <1>1, <2>1, UnsentStep DEF Outs
<1> QED BY <1>4, <1>5, <1>6 DEF createChannel

\* The request is noted for capability cap on resource on.
LEMMA AskedIsTyped ==
  ASSUME ShapeOK, NEW cap \in {"message:append", "thread:create", "channel:create", "command:register"},
         NEW on \in Streams \cup {None}
  PROVE  Asked(cap, on) \in Seq(Asking) /\ Len(requests) \in Nat
<1>1. [cap |-> cap, on |-> on, status |-> "open"] \in Asking
  BY DEF Asking
<1> QED BY <1>1 DEF Asked, ShapeOK, WorldTypes

LEMMA RequestStep ==
  ASSUME ShapeOK, NEW j \in jobs, openPermissionRequest(j), UNCHANGED <<pollVars, chatVars>>
  PROVE  ClientStep(j)
<1>1. j \in Handlers /\ Placed(j) /\ j.at = "ask" /\ UNCHANGED <<program, life, messages, threads, channels>>
      /\ j.stage \in StagesOf(program) /\ j.to \in There
  BY HandlerFacts DEF openPermissionRequest, frame
<1>2. j.back \in {"thread", "channel"} /\ j.stage \notin {"running", "error", "relay", "final"}
      /\ (j.back = "thread" => j.key.on \in Streams)
  BY <1>1, WorldConstants DEF Placed, Events
<1>3. Len(requests) \in Nat
  BY DEF ShapeOK, WorldTypes
<1>4. ASSUME requests' = IF j.back = "thread" THEN Asked("thread:create", j.key.on) ELSE Asked("channel:create", None)
      PROVE  requests' \in Seq(Asking)
  BY <1>2, <1>4, AskedIsTyped
<1>5. requests' \in Seq(Asking)
  BY <1>4 DEF openPermissionRequest, ShapeOK, WorldTypes
<1>6. Opens
  BY <1>1, <1>5 DEF Opens
<1> DEFINE i == [j EXCEPT !.req = Len(requests) + 1]
           k == [i EXCEPT !.at = "poll"]
<1>11. i \in Handlers /\ i.stage = j.stage /\ i.key = j.key /\ i.run = j.run
       /\ i.to = j.to /\ i.back = j.back /\ i.out = j.out /\ i.wait = j.wait
  BY <1>1, <1>3 DEF Handlers
<1>7. k \in Handlers /\ k.stage = i.stage /\ k.key = i.key /\ k.run = i.run /\ k.at = "poll"
      /\ k.to = i.to /\ k.back = i.back /\ k.out = i.out
  <2> HIDE DEF i
  <2> QED BY <1>11 DEF Handlers
<1>8. CASE Becomes(j, k)
  <2> HIDE DEF k, i
  <2>1. GoesOn(j, k)
    BY <1>1, <1>2, <1>7, <1>11 DEF GoesOn, Unanswered, Untold
  <2>2. Placed(k)
    BY <1>1, <1>2, <1>7, <1>11, WorldConstants DEF Placed
  <2> QED BY <1>1, <1>6, <1>7, <1>11, <1>8, <2>1, <2>2, OnwardStep
<1>9. ASSUME NEW n \in Nat, Becomes(j, Ends([j EXCEPT !.req = n], "refused"))  PROVE ClientStep(j)
  <2> DEFINE e == Ends([j EXCEPT !.req = n], "refused")
  <2>1. e \in Handlers /\ e.stage = j.stage /\ e.key = j.key /\ e.run = j.run /\ e.at = "done"
        /\ e.to = j.to /\ e.back = None /\ e.out = "refused"
    BY <1>1 DEF Handlers, Ends, Outs
  <2> HIDE DEF e
  <2>2. GoesOn(j, e)
    BY <1>1, <1>2, <2>1 DEF GoesOn, Unanswered, Untold
  <2>3. Placed(e)
    BY <1>1, <1>2, <2>1, WorldConstants DEF Placed, Outs
  <2> QED BY <1>1, <1>6, <1>9, <2>1, <2>2, <2>3, OnwardStep DEF e
<1>10. Becomes(j, k) \/ \E n \in Nat : Becomes(j, Ends([j EXCEPT !.req = n], "refused"))
  <2>1. \/ Becomes(j, IF j.wait THEN k ELSE Ends(i, "refused"))
        \/ Becomes(j, Ends([j EXCEPT !.req = 0], "refused"))
    BY DEF openPermissionRequest
  <2>2. Len(requests) + 1 \in Nat /\ 0 \in Nat
    BY <1>3
  <2>3. CASE j.wait
    BY <2>1, <2>2, <2>3
  <2>4. CASE ~j.wait
    <3>1. Becomes(j, Ends([j EXCEPT !.req = Len(requests) + 1], "refused")) \/ Becomes(j, Ends([j EXCEPT !.req = 0], "refused"))
      BY <2>1, <2>4
    <3> QED BY <2>2, <3>1
  <2> QED BY <2>3, <2>4
<1> QED BY <1>8, <1>9, <1>10

LEMMA AppendStep ==
  ASSUME ShapeOK, NEW j \in jobs, append(j), UNCHANGED <<pollVars, chatVars>>
  PROVE  ClientStep(j)
<1>1. j \in Handlers /\ Placed(j) /\ j.at = "append" /\ UNCHANGED <<program, life, threads, channels>>
      /\ j.stage \in StagesOf(program) /\ j.to \in There
  BY HandlerFacts DEF append, frame
<1>2. Len(requests) \in Nat /\ j.to \in Streams
  BY <1>1 DEF ShapeOK, WorldTypes, Handlers
<1>3. ASSUME messages' = [messages EXCEPT ![j.to] = Append(@, [by |-> Me, asks |-> {}, text |-> TRUE, re |-> <<j.stage, j.key>>])],
             AnsweredOrLost(j, Ends(j, "ok")), UNCHANGED requests
      PROVE  ClientStep(j)
  <2>1. PICK out \in {"ok", "thrown"} : Becomes(j, Ends(j, out))
    BY <1>3 DEF AnsweredOrLost
  <2>2. out \in Outs /\ Opens /\ (j.stage \in {"ack", "norepo"} => j.to \in Threads)
    BY <1>1, <1>3 DEF Opens, ShapeOK, WorldTypes, Outs, Placed
  <2>3. GoesOn(j, Ends(j, out)) /\ Ends(j, out).at = "done" /\ Ends(j, out).out = out /\ HandlerOK(Ends(j, out))'
    BY <1>1, <2>2, EndsWell, EndsThere
  <2> DEFINE m == [by |-> Me, asks |-> {}, text |-> TRUE, re |-> <<j.stage, j.key>>]
  <2>4. m \in Written /\ m.re = <<j.stage, j.key>>
    BY <1>1 DEF Written, Handlers
  <2>5. messages' = [messages EXCEPT ![j.to] = Append(@, m)]
    BY <1>3
  <2> HIDE DEF m
  <2>6. Says(j, Ends(j, out))
    BY <1>1, <2>3, <2>4, <2>5 DEF Says
  <2> QED BY <1>1, <2>1, <2>2, <2>3, <2>6 DEF ClientStep
<1>4. ASSUME requests' = Asked("message:append", j.to), UNCHANGED messages,
             LET k == [j EXCEPT !.req = Len(requests) + 1]
             IN AnsweredOrLost(j, IF j.wait THEN [k EXCEPT !.at = "poll", !.back = "append"] ELSE Ends(k, "refused"))
      PROVE  ClientStep(j)
  <2>1. Opens
    BY <1>1, <1>2, <1>4, AskedIsTyped DEF Opens
  <2> DEFINE i == [j EXCEPT !.req = Len(requests) + 1]
             k == [i EXCEPT !.at = "poll", !.back = "append"]
             e == Ends(i, "refused")
  <2>11. i \in Handlers /\ i.stage = j.stage /\ i.key = j.key /\ i.run = j.run
         /\ i.to = j.to /\ i.back = j.back /\ i.out = j.out /\ i.wait = j.wait
    BY <1>1, <1>2 DEF Handlers
  <2>2. k \in Handlers /\ k.stage = j.stage /\ k.key = j.key /\ k.run = j.run /\ k.at = "poll"
        /\ k.to = j.to /\ k.back = "append" /\ k.out = j.out
    <3> HIDE DEF i
    <3> QED BY <2>11 DEF Handlers
  <2>3. e \in Handlers /\ e.stage = j.stage /\ e.key = j.key /\ e.run = j.run /\ e.at = "done"
        /\ e.to = j.to /\ e.back = None /\ e.out = "refused"
    <3> HIDE DEF i
    <3> QED BY <2>11, <1>1 DEF Handlers, Ends, Outs
  <2>4. Becomes(j, k) \/ Becomes(j, e) \/ Becomes(j, Ends(j, "thrown"))
    BY <1>4, <2>11 DEF AnsweredOrLost
  <2> HIDE DEF i, k, e
  <2>5. GoesOn(j, k) /\ GoesOn(j, e)
    BY <1>1, <2>2, <2>3 DEF GoesOn, Unanswered, Untold
  <2>6. Placed(k)
    BY <1>1, <2>2, WorldConstants DEF Placed
  <2>7. Placed(e)
    BY <1>1, <2>3, WorldConstants DEF Placed, Outs
  <2>8. CASE Becomes(j, k)
    BY <1>1, <1>4, <2>1, <2>2, <2>5, <2>6, <2>8, OnwardStep
  <2>9. CASE Becomes(j, e)
    BY <1>1, <1>4, <2>1, <2>3, <2>5, <2>7, <2>9, OnwardStep
  <2>10. CASE Becomes(j, Ends(j, "thrown"))
    BY <1>1, <1>4, <2>1, <2>10, UnsentStep DEF Outs
  <2> QED BY <2>4, <2>8, <2>9, <2>10
<1>5. ASSUME Unsent(j)  PROVE ClientStep(j)
  <2>1. Opens /\ UNCHANGED messages /\ Becomes(j, Ends(j, "thrown"))
    BY <1>5 DEF Opens, server, Unsent, ShapeOK, WorldTypes
  <2> QED BY <1>1, <2>1, UnsentStep DEF Outs
<1> QED BY <1>3, <1>4, <1>5 DEF append

LEMMA WaitStep ==
  ASSUME ShapeOK, NEW j \in jobs, NEW late \in {"pending", "refused"}, waitForPermissionDecision(j, late),
         UNCHANGED <<pollVars, chatVars>>
  PROVE  ClientStep(j)
<1>1. j \in Handlers /\ Placed(j) /\ j.at = "poll" /\ UNCHANGED <<program, life, messages>>
      /\ j.stage \in StagesOf(program) /\ j.to \in There /\ Opens
  BY HandlerFacts DEF waitForPermissionDecision, frame, server, Opens, ShapeOK, WorldTypes
<1>2. Becomes(j, [j EXCEPT !.at = j.back, !.wait = FALSE]) \/ Becomes(j, Ends(j, "denied")) \/ Becomes(j, Ends(j, late))
  BY DEF waitForPermissionDecision
<1>3. CASE Becomes(j, [j EXCEPT !.at = j.back, !.wait = FALSE])
  <2> DEFINE k == [j EXCEPT !.at = j.back, !.wait = FALSE]
  <2>1. k \in Handlers /\ k.stage = j.stage /\ k.key = j.key /\ k.run = j.run /\ k.at = j.back
        /\ k.to = j.to /\ k.back = j.back /\ k.out = j.out /\ j.back \in {"thread", "channel", "append"}
    BY <1>1 DEF Handlers, Placed
  <2> HIDE DEF k
  <2>2. GoesOn(j, k)
    BY <1>1, <2>1 DEF GoesOn, Unanswered, Untold
  <2>3. Placed(k)
    BY <1>1, <2>1, WorldConstants DEF Placed
  <2> QED BY <1>1, <1>3, <2>1, <2>2, <2>3, OnwardStep DEF k
<1>4. ASSUME NEW out \in Outs \ {"ok"}, Becomes(j, Ends(j, out))  PROVE ClientStep(j)
  BY <1>1, <1>4, UnsentStep
<1> QED BY <1>2, <1>3, <1>4 DEF Outs

\* A handler that has read what it was started for goes on to its first call.
LEMMA LoadedStep ==
  ASSUME ShapeOK, NEW j \in jobs, j.at = "load", UNCHANGED <<program, life, server, pollVars, chatVars>>,
         NEW stage, NEW at, Becomes(j, [j EXCEPT !.at = at, !.stage = stage]),
         \/ j.stage = "relay" /\ stage = "relay" /\ at = "followup"
         \/ /\ {j.stage, stage} \subseteq FirstStages /\ stage \in StagesOf(program)
            /\ at = "thread" \/ (at = "append" /\ (stage \in {"ack", "norepo"} => j.to \in Threads))
  PROVE  ClientStep(j)
<1>1. j \in Handlers /\ Placed(j) /\ Opens /\ j.stage \in StagesOf(program) /\ j.to \in There
  BY HandlerFacts DEF server, Opens, ShapeOK, WorldTypes
<1> DEFINE k == [j EXCEPT !.at = at, !.stage = stage]
<1>2. k \in Handlers /\ k.stage = stage /\ k.key = j.key /\ k.run = j.run /\ k.at = at
      /\ k.to = j.to /\ k.back = j.back /\ k.out = j.out
  BY <1>1 DEF Handlers, Stages
<1> HIDE DEF k
<1>3. GoesOn(j, k)
  BY <1>1, <1>2 DEF GoesOn, Unanswered, Untold, FirstStages
<1>4. j.stage \notin {"arrival", "periodic"} /\ stage \notin {"arrival", "periodic"} /\ j.key \in Events
  BY <1>1 DEF Placed, FirstStages
<1>5. CASE stage = "relay"
  <2>1. Placed(k)
    BY <1>1, <1>2, <1>4, <1>5 DEF Placed, FirstStages
  <2> QED BY <1>1, <1>2, <1>3, <1>5, <2>1, OnwardStep DEF k, server, FirstStages
<1>6. CASE stage \in FirstStages
  <2>1. stage \notin {"running", "error", "relay", "final"} /\ at \in {"thread", "append"} /\ j.back # "channel"
    BY <1>1, <1>4, <1>6 DEF FirstStages, Placed
  <2>2. stage \in {"ack", "norepo"} /\ (k.at = "append" \/ k.back = "append" \/ k.out = "ok") => k.to \in Threads
    <3>1. stage \in {"ack", "norepo"} => j.stage \in {"ack", "norepo"}
      BY <1>1, <1>4, <1>6 DEF StagesOf, FirstStages
    <3> QED BY <1>1, <1>2, <3>1 DEF Placed
  <2>3. Placed(k)
    BY <1>1, <1>2, <1>4, <2>1, <2>2 DEF Placed
  <2> QED BY <1>1, <1>2, <1>3, <1>6, <2>3, OnwardStep DEF k, server, FirstStages
<1> QED BY <1>5, <1>6 DEF FirstStages

LEMMA ComposeStep ==
  ASSUME ShapeOK, program \in {"poet", "weather"}, NEW j \in jobs, resolvePrompt(j) \/ resolveWeatherArgs(j),
         UNCHANGED <<pollVars, chatVars>>
  PROVE  ClientStep(j)
<1>1. j \in Handlers /\ Placed(j) /\ j.at = "load" /\ UNCHANGED <<program, life, server>>
      /\ j.stage \in StagesOf(program) /\ j.to \in There
  BY HandlerFacts DEF resolvePrompt, resolveWeatherArgs, Compose, frame
<1>2. j.stage = "reply"
  BY <1>1 DEF StagesOf, Placed
<1>3. \/ Becomes(j, postPoemReply(j)) \/ Becomes(j, Ends(j, "skipped")) \/ Becomes(j, Ends(j, "thrown"))
  BY DEF resolvePrompt, resolveWeatherArgs, Compose, postWeatherReply, Unsent
<1>4. CASE Becomes(j, postPoemReply(j))
  <2>1. PICK at \in {"append", "thread"} : postPoemReply(j) = [j EXCEPT !.at = at]
    BY DEF postPoemReply
  <2>2. [j EXCEPT !.at = at] = [j EXCEPT !.at = at, !.stage = "reply"]
    BY <1>1, <1>2 DEF Handlers
  <2>3. Becomes(j, [j EXCEPT !.at = at, !.stage = "reply"])
    BY <1>4, <2>1, <2>2
  <2> QED BY <1>1, <1>2, <2>3, LoadedStep DEF FirstStages
<1>5. ASSUME NEW out \in {"skipped", "thrown"}, Becomes(j, Ends(j, out))  PROVE ClientStep(j)
  BY <1>1, <1>5, UnsentStep DEF Outs, server, Opens, ShapeOK, WorldTypes
<1> QED BY <1>3, <1>4, <1>5

LEMMA IncomingStep ==
  ASSUME ShapeOK, program = "assistant", NEW j \in jobs, handleIncomingMessage(j), UNCHANGED <<pollVars, chatVars>>
  PROVE  ClientStep(j)
<1>1. j \in Handlers /\ j.at = "load" /\ j.stage = "answer" /\ UNCHANGED <<program, life, server>>
      /\ j.stage \in StagesOf(program) /\ j.to \in There
  BY HandlerFacts DEF handleIncomingMessage, frame
<1>3. \/ Becomes(j, [j EXCEPT !.at = "append"]) \/ Becomes(j, [j EXCEPT !.at = "append", !.stage = "post_message"])
      \/ \E out \in {"skipped", "silent", "thrown"} : Becomes(j, Ends(j, out))
  BY DEF handleIncomingMessage, Unsent
<1>4. CASE Becomes(j, [j EXCEPT !.at = "append"])
  <2>2. [j EXCEPT !.at = "append"] = [j EXCEPT !.at = "append", !.stage = "answer"]
    BY <1>1 DEF Handlers
  <2> QED BY <1>1, <1>4, <2>2, LoadedStep DEF FirstStages
<1>5. CASE Becomes(j, [j EXCEPT !.at = "append", !.stage = "post_message"])
  BY <1>1, <1>5, LoadedStep DEF FirstStages, StagesOf
<1>6. ASSUME NEW out \in {"skipped", "silent", "thrown"}, Becomes(j, Ends(j, out))  PROVE ClientStep(j)
  BY <1>1, <1>6, UnsentStep DEF Outs, server, Opens, ShapeOK, WorldTypes
<1> QED BY <1>3, <1>4, <1>5, <1>6

LEMMA LoadStep ==
  ASSUME ShapeOK, program = "cursor", NEW j \in jobs, loadMessageById(j), UNCHANGED <<pollVars, chatVars>>
  PROVE  ClientStep(j)
<1>1. j \in Handlers /\ j.at = "load" /\ j.stage \in {"ack", "relay"} /\ UNCHANGED <<program, life, server>>
      /\ j.stage \in StagesOf(program) /\ j.to \in There
  BY HandlerFacts DEF loadMessageById, frame
<1>3. \/ j.stage = "relay" /\ Becomes(j, [j EXCEPT !.at = "followup"])
      \/ /\ j.stage = "ack"
         /\ \E stage \in {"ack", "norepo"} :
              Becomes(j, [j EXCEPT !.stage = stage, !.at = IF IsThread(j.to) THEN "append" ELSE "thread"])
      \/ \E out \in {"skipped", "thrown"} : Becomes(j, Ends(j, out))
  BY <1>1 DEF loadMessageById, Unsent
<1>4. CASE j.stage = "relay" /\ Becomes(j, [j EXCEPT !.at = "followup"])
  <2>2. [j EXCEPT !.at = "followup"] = [j EXCEPT !.at = "followup", !.stage = "relay"]
    BY <1>1, <1>4 DEF Handlers
  <2> QED BY <1>1, <1>4, <2>2, LoadedStep
<1>5. ASSUME j.stage = "ack", NEW stage \in {"ack", "norepo"},
             Becomes(j, [j EXCEPT !.stage = stage, !.at = IF IsThread(j.to) THEN "append" ELSE "thread"])
      PROVE  ClientStep(j)
  <2>1. PICK at \in {"append", "thread"} : at = (IF IsThread(j.to) THEN "append" ELSE "thread")
    OBVIOUS
  <2>2. [j EXCEPT !.stage = stage, !.at = at] = [j EXCEPT !.at = at, !.stage = stage]
    BY <1>1 DEF Handlers
  <2>3. Becomes(j, [j EXCEPT !.at = at, !.stage = stage])
    BY <1>5, <2>1, <2>2
  <2>4. at = "append" => j.to \in Threads
    BY <2>1 DEF IsThread
  <2> QED BY <1>1, <1>5, <2>3, <2>4, LoadedStep DEF FirstStages, StagesOf
<1>6. ASSUME NEW out \in {"skipped", "thrown"}, Becomes(j, Ends(j, out))  PROVE ClientStep(j)
  BY <1>1, <1>6, UnsentStep DEF Outs, server, Opens, ShapeOK, WorldTypes
<1> QED BY <1>3, <1>4, <1>5, <1>6

(***************************************************************************)
(* The world grows: what was written, opened and numbered stays.           *)
(***************************************************************************)
(***************************************************************************)
(* The shape is kept.                                                      *)
(***************************************************************************)
LEMMA ThereAreStreams == ASSUME ShapeOK PROVE There \subseteq Streams
<1>1. Len(threads) \in Nat /\ DOMAIN threads = 1 .. Len(threads) /\ Len(threads) <= MaxThreads /\ MaxThreads \in Nat
  BY WorldConstants DEF ShapeOK, WorldTypes
<1> QED BY <1>1, ChannelsAreStreams DEF There, Threads

LEMMA LogGrows ==
  ASSUME ShapeOK, NEW s \in There, NEW m \in Written, messages' = [messages EXCEPT ![s] = Append(@, m)]
  PROVE  /\ messages' \in [Streams -> Seq(Written)]
         /\ \A r \in Streams : /\ Len(messages[r]) \in Nat /\ Len(messages'[r]) \in Nat
                               /\ Len(messages[r]) <= Len(messages'[r])
                               /\ \A i \in 1 .. Len(messages[r]) : messages'[r][i] = messages[r][i]
                               /\ r # s => messages'[r] = messages[r]
         /\ s \in Streams /\ messages'[s] = Append(messages[s], m) /\ Len(messages'[s]) = Len(messages[s]) + 1
<1>1. s \in Streams
  BY ThereAreStreams
<1>2. messages \in [Streams -> Seq(Written)]
  BY DEF ShapeOK, WorldTypes
<1>3. Append(messages[s], m) \in Seq(Written) /\ Len(Append(messages[s], m)) = Len(messages[s]) + 1
      /\ \A i \in 1 .. Len(messages[s]) : Append(messages[s], m)[i] = messages[s][i]
  BY <1>1, <1>2
<1>4. \A r \in Streams : Len(messages[r]) \in Nat
  BY <1>2
<1> QED BY <1>1, <1>2, <1>3, <1>4

\* Whatever is written, what was written stays.
Grown ==
  /\ messages' \in [Streams -> Seq(Written)]
  /\ \A s \in Streams : /\ Len(messages[s]) \in Nat /\ Len(messages'[s]) \in Nat
                        /\ Len(messages[s]) <= Len(messages'[s])
                        /\ \A i \in 1 .. Len(messages[s]) : messages'[s][i] = messages[s][i]
  /\ There \subseteq There' /\ There' \subseteq Streams
  /\ \A t \in DOMAIN threads : t \in DOMAIN threads' /\ threads'[t] = threads[t]
  /\ \A s \in Streams \ There' : messages'[s] = <<>>

LEMMA SameIsGrown ==
  ASSUME ShapeOK, UNCHANGED <<messages, threads>>
  PROVE  Grown
<1>1. There' = There /\ There \subseteq Streams
  BY ThereAreStreams DEF There
<1>2. messages \in [Streams -> Seq(Written)] /\ \A s \in Streams : Len(messages[s]) \in Nat
  BY DEF ShapeOK, WorldTypes
<1> QED BY <1>1, <1>2 DEF Grown, ShapeOK, WorldTypes

LEMMA ClientGrown ==
  ASSUME ShapeOK, NEW j \in jobs, ClientStep(j)
  PROVE  Grown
<1>1. PICK k : messages' = messages \/ Says(j, k)
  BY DEF ClientStep
<1>2. There \subseteq There' /\ There' \subseteq Streams
      /\ \A t \in DOMAIN threads : t \in DOMAIN threads' /\ threads'[t] = threads[t]
  BY OpensMore DEF ClientStep
<1>3. CASE messages' = messages
  BY <1>2, <1>3 DEF Grown, ShapeOK, WorldTypes
<1>4. CASE Says(j, k)
  <2>1. j.to \in There
    BY HandlerFacts
  <2> QED BY <1>2, <1>4, <2>1, LogGrows DEF Grown, Says, ShapeOK, WorldTypes
<1> QED BY <1>1, <1>3, <1>4

LEMMA UserGrown ==
  ASSUME ShapeOK, UserStep
  PROVE  Grown
<1>1. There' = There
  BY DEF UserStep, There
<1>2. CASE messages' = messages
  BY <1>2, SameIsGrown DEF UserStep
<1>3. ASSUME NEW s \in There, NEW m \in Written, messages' = [messages EXCEPT ![s] = Append(@, m)]
      PROVE  Grown
  <2>1. There \subseteq Streams
    BY ThereAreStreams
  <2> QED BY <1>1, <1>3, <2>1, LogGrows DEF Grown, UserStep, ShapeOK, WorldTypes
<1> QED BY <1>2, <1>3 DEF UserStep

\* Handlers stay well placed when the world only grows.
LEMMA HandlersStay ==
  ASSUME ShapeOK, There \subseteq There', UNCHANGED program
  PROVE  \A j \in jobs : HandlerOK(j)'
BY DEF ShapeOK, HandlersOK, HandlerOK

LEMMA PagesStay ==
  ASSUME ShapeOK, Grown
  PROVE  /\ \A e \in scan.page : e.on \in There' /\ e.seq <= Len(messages'[e.on])
         /\ \A s \in Streams : last[s] <= Len(messages'[s])
<1>1. ASSUME NEW s \in Streams  PROVE last[s] <= Len(messages'[s])
  <2>1. last[s] \in Nat /\ last[s] <= Len(messages[s])
    BY DEF ShapeOK, LoopOK, PollTypes
  <2>2. Len(messages[s]) \in Nat /\ Len(messages'[s]) \in Nat /\ Len(messages[s]) <= Len(messages'[s])
    BY DEF Grown
  <2> QED BY <2>1, <2>2
<1>2. ASSUME NEW e \in scan.page  PROVE e.on \in There' /\ e.seq <= Len(messages'[e.on])
  <2>1. e.on \in Streams /\ e.seq \in Nat /\ e.on \in There /\ e.seq <= Len(messages[e.on])
    BY DEF ShapeOK, LoopOK, PollTypes, Scans, Events
  <2>2. Len(messages[e.on]) \in Nat /\ Len(messages'[e.on]) \in Nat /\ Len(messages[e.on]) <= Len(messages'[e.on])
        /\ There \subseteq There'
    BY <2>1 DEF Grown
  <2> QED BY <2>1, <2>2
<1> QED BY <1>1, <1>2

LEMMA UserShape ==
  ASSUME ShapeOK, UserStep
  PROVE  ShapeOK'
<1>1. Grown /\ There' = There
  BY UserGrown DEF UserStep, There
<1>2. WorldTypes'
  BY <1>1 DEF Grown, UserStep, ShapeOK, WorldTypes
<1>3. PollTypes' /\ ChatTypes'
  BY DEF UserStep, ShapeOK, PollTypes, ChatTypes, pollVars, chatVars
<1>4. HandlersOK'
  BY <1>1, HandlersStay DEF UserStep, HandlersOK
<1>5. LoopOK'
  BY <1>1, PagesStay DEF UserStep, ShapeOK, LoopOK, pollVars, chatVars
<1> QED BY <1>2, <1>3, <1>4, <1>5 DEF ShapeOK

LEMMA ClientShape ==
  ASSUME ShapeOK, NEW j \in jobs, ClientStep(j)
  PROVE  ShapeOK'
<1>1. Grown
  BY ClientGrown
<1>2. UNCHANGED <<program, life, pollVars, chatVars>> /\ Opens
  BY DEF ClientStep
<1>3. PICK k : Becomes(j, k) /\ GoesOn(j, k) /\ HandlerOK(k)'
  BY DEF ClientStep
<1>4. WorldTypes'
  BY <1>1, <1>2, OpensMore DEF Grown, ShapeOK, WorldTypes
<1>5. PollTypes' /\ ChatTypes'
  BY <1>2, <1>3 DEF ShapeOK, PollTypes, ChatTypes, pollVars, chatVars, Becomes, GoesOn
<1>6. HandlersOK'
  BY <1>1, <1>2, <1>3, HandlersStay DEF HandlersOK, Becomes, Grown
<1>7. LoopOK'
  <2>1. \A s \in Streams : last[s] <= Len(messages'[s])
    BY <1>1, PagesStay
  <2>2. program = "assistant" => \A i \in jobs' : i.stage = "arrival" => scan.at = "arrive"
    <3>1. k.stage = "arrival" => j.stage = "arrival"
      BY <1>3 DEF GoesOn, FirstStages
    <3> QED BY <1>3, <3>1 DEF Becomes, ShapeOK, LoopOK
  <2>3. program \in {"poet", "weather"} \/ scan.at = "arrive" => \A x, y \in jobs' : x = y
    BY <1>3 DEF Becomes, ShapeOK, LoopOK
  <2>4. life.up /\ scan.at # "boot"
    BY DEF ShapeOK, LoopOK
  <2>5. channels # <<>> => channels' # <<>>
    BY <1>2, OpensMore
  <2>6. \A e \in scan.page : e.on \in There' /\ e.seq <= Len(messages'[e.on])
    BY <1>1, PagesStay
  <2> QED BY <1>2, <2>1, <2>2, <2>3, <2>4, <2>5, <2>6 DEF ShapeOK, LoopOK, pollVars, chatVars
<1> QED BY <1>4, <1>5, <1>6, <1>7 DEF ShapeOK

(***************************************************************************)
(* The steps of the programs, each brought to one of a few kinds.  First   *)
(* those that start and stop a process and move its loop.                  *)
(***************************************************************************)
\* The server is left alone, but that it may note a request.
Still == UNCHANGED <<program, channels, threads, messages>> /\ requests' \in Seq(Asking)

LEMMA StillTypes ==
  ASSUME ShapeOK, Still, life' \in [up : BOOLEAN, n : Nat]
  PROVE  WorldTypes' /\ There' = There
BY DEF Still, ShapeOK, WorldTypes, There

LEMMA ServerStill ==
  ASSUME ShapeOK, UNCHANGED <<program, server>>
  PROVE  Still
BY DEF Still, server, ShapeOK, WorldTypes

LEMMA RegisterStill ==
  ASSUME ShapeOK, registerCommand, UNCHANGED <<program, channels, threads, messages>>
  PROVE  Still
BY AskedIsTyped DEF Still, registerCommand, ShapeOK, WorldTypes

\* The process comes and goes.
LEMMA StartShape ==
  ASSUME ShapeOK, Start, UNCHANGED chatVars
  PROVE  ShapeOK'
<1>1. Still /\ jobs' = jobs /\ ~life.up /\ life' = [up |-> TRUE, n |-> life.n + 1] /\ seen' = {} /\ last' = Zero /\ from' = Zero
  BY DEF Start, Still, ShapeOK, WorldTypes
<1>2. scan' = [Asleep EXCEPT !.at = "boot", !.due = program = "poet"]
  BY DEF Start
<1>3. scan' \in Scans /\ scan'.at = "boot" /\ scan'.page = {} /\ scan'.cut = {}
  <2>1. PICK b \in BOOLEAN : b = (program = "poet")
    OBVIOUS
  <2>2. scan' = [Asleep EXCEPT !.at = "boot", !.due = b]
    BY <1>2, <2>1
  <2>3. scan' = [at |-> "boot", chans |-> <<>>, left |-> <<>>, page |-> {}, max |-> 0, cut |-> {}, due |-> b]
    BY <2>2 DEF Asleep
  <2>4. scan'.at = "boot" /\ scan'.page = {} /\ scan'.cut = {}
    BY <2>3
  <2>5. scan' \in Scans
    BY <2>3 DEF Scans, ScanPoints
  <2> QED BY <2>4, <2>5
<1>4. WorldTypes'
  BY <1>1, StillTypes DEF ShapeOK, WorldTypes
<1>5. Zero \in [Streams -> Nat]
  BY DEF Zero
<1>6. PollTypes' /\ ChatTypes'
  BY <1>1, <1>3, <1>5 DEF ShapeOK, PollTypes, ChatTypes, chatVars
<1>7. HandlersOK'
  BY <1>1 DEF ShapeOK, LoopOK, HandlersOK
<1>8. \A s \in Streams : Zero[s] <= Len(messages[s])
  BY DEF Zero, ShapeOK, WorldTypes
<1>9. LoopOK'
  BY <1>1, <1>3, <1>8 DEF ShapeOK, LoopOK, chatVars, Still
<1> QED BY <1>4, <1>6, <1>7, <1>9 DEF ShapeOK

Stopped ==
  /\ Exit /\ Still /\ UNCHANGED <<seen, last, from, runs>>
  /\ conn' \in {"none", "open", "closed"} \ {"open"} /\ subs' \subseteq Streams /\ DOMAIN sessions' = {}

LEMMA StoppedShape ==
  ASSUME ShapeOK, Stopped
  PROVE  /\ ShapeOK' /\ ~life'.up /\ life'.n = life.n /\ jobs' = {}
         /\ scan' = Asleep /\ UNCHANGED <<program, threads, messages, seen, last, from, runs>> /\ DOMAIN sessions' = {}
<1>1. life' \in [up : BOOLEAN, n : Nat] /\ ~life'.up /\ life'.n = life.n /\ jobs' = {} /\ scan' = Asleep
  BY DEF Stopped, Exit, ShapeOK, WorldTypes
<1>2. Asleep \in Scans /\ Asleep.at = "off" /\ Asleep.page = {} /\ Asleep.cut = {}
  BY DEF Asleep, Scans, ScanPoints
<1>3. WorldTypes'
  BY <1>1, StillTypes DEF Stopped
<1>4. PollTypes' /\ ChatTypes'
  BY <1>1, <1>2 DEF ShapeOK, PollTypes, ChatTypes, Stopped
<1>5. HandlersOK'
  BY <1>1 DEF HandlersOK
<1>6. LoopOK'
  BY <1>1, <1>2, <1>3 DEF ShapeOK, LoopOK, Stopped, Still
<1> QED BY <1>1, <1>3, <1>4, <1>5, <1>6 DEF ShapeOK, Stopped, Still

LEMMA LeaveStops ==
  ASSUME ShapeOK, Leave, UNCHANGED <<program, server, seen, last, from>>
  PROVE  Stopped
<1>1. DOMAIN sessions' = {}
  BY DEF Leave
<1> QED BY <1>1, ServerStill DEF Leave, Stopped

LEMMA ExitStops ==
  ASSUME ShapeOK, Exit, Still, UNCHANGED <<seen, last, from, chatVars>>, conn # "open", DOMAIN sessions = {}
  PROVE  Stopped
BY DEF Stopped, chatVars, ShapeOK, ChatTypes

\* Only the place in the loop and the socket change.
Moved ==
  /\ Still /\ UNCHANGED <<life, jobs, seen, last, from, outcomes, sessions, runs>>
  /\ scan' \in Scans /\ scan'.page = scan.page /\ scan'.cut = scan.cut
  /\ conn' \in {"none", "open", "closed"} /\ subs' \subseteq Streams
  /\ life.up /\ scan.at # "arrive" /\ scan'.at \notin {"page", "boot", "arrive"}
  /\ scan'.at = "off" => program # "assistant"
  /\ scan'.at \in {"off", "connect", "seek"} => conn' # "open"
  /\ scan'.at \in {"connect", "seek"} => scan.at \in {"boot", "connect"}
  /\ conn' = "open" => scan'.at = "stream" /\ program \in {"assistant", "cursor"}
  /\ scan'.at = "stream" => scan.at \in {"connect", "stream"}
  /\ scan'.at \in {"threads", "read"} => scan'.chans # <<>>
  /\ scan'.at = "read" => scan'.left # <<>>
  /\ program = "assistant" => scan'.at \notin {"read", "connect"} /\ scan.at # "boot"

LEMMA MovedShape ==
  ASSUME ShapeOK, Moved
  PROVE  ShapeOK'
<1>1. WorldTypes' /\ There' = There
  BY StillTypes DEF Moved, ShapeOK, WorldTypes
<1>2. PollTypes' /\ ChatTypes'
  BY DEF ShapeOK, PollTypes, ChatTypes, Moved
<1>3. HandlersOK'
  BY <1>1, HandlersStay DEF Moved, Still, HandlersOK
<1>4. scan'.at \in {"boot", "arrive", "connect", "stream", "seek"} => scan.at \in {"boot", "connect", "stream"}
  BY DEF Moved
<1>5. LoopOK'
  <2>1. scan'.at # "boot" /\ (scan'.at \in {"connect", "seek"} => last = Zero)
    BY DEF ShapeOK, LoopOK, Moved
  <2>2. scan'.at \in {"boot", "arrive", "connect", "stream", "seek"} => scan'.page = {} /\ scan'.cut = {}
    BY <1>4 DEF ShapeOK, LoopOK, Moved
  <2>3. program = "assistant" => (scan'.at = "seek" => channels # <<>>) /\ \A j \in jobs : j.stage # "arrival"
    BY DEF ShapeOK, LoopOK, Moved
  <2>4. \A e \in scan'.page : e.on \in There' /\ e.seq <= Len(messages'[e.on])
    BY <1>1 DEF ShapeOK, LoopOK, Moved, Still
  <2> QED BY <2>1, <2>2, <2>3, <2>4 DEF ShapeOK, LoopOK, Moved, Still
<1> QED BY <1>1, <1>2, <1>3, <1>5 DEF ShapeOK

(***************************************************************************)
(* A page is read.                                                         *)
(***************************************************************************)
\* A set of numbers with a bound has a largest one.
LEMMA LargestOne ==
  ASSUME NEW T \in SUBSET Nat, T # {}, NEW m \in Nat, \A x \in T : x <= m
  PROVE  Max(T) \in T /\ \A x \in T : x <= Max(T)
<1> DEFINE R == {xy \in Nat \X Nat : xy[1] < xy[2]}
           U == {m - x : x \in T}
<1>1. IsWellFoundedOn(R, Nat)
  BY NatLessThanWellFounded DEF OpToRel
<1>2. \A x, y \in Nat : x < y => <<x, y>> \in R
  OBVIOUS
<1>8. \A x \in T : m - x \in Nat
  OBVIOUS
<1>3. U \subseteq Nat /\ U # {}
  BY <1>8
<1> HIDE DEF R
<1>4. PICK u \in U : \A v \in U : <<v, u>> \notin R
  <2> HIDE DEF U
  <2> QED BY <1>1, <1>3, WFMin
<1>5. PICK x \in T : u = m - x
  OBVIOUS
<1>6. \A y \in T : y <= x
  <2> SUFFICES ASSUME NEW y \in T, ~(y <= x)  PROVE FALSE
    OBVIOUS
  <2>1. m - y \in U /\ m - y \in Nat /\ m - x \in Nat /\ m - y < m - x
    OBVIOUS
  <2> QED BY <1>2, <1>4, <1>5, <2>1
<1>7. \E z \in T : \A y \in T : z >= y
  BY <1>6
<1> QED BY <1>7 DEF Max

\* The events of a stream after a number.
LEMMA EventsAreThese ==
  ASSUME ShapeOK, NEW s \in Streams, NEW n \in Nat, NEW e \in EventsAfter(s, n)
  PROVE  /\ e \in Events /\ e.on = s /\ e.seq \in n + 1 .. Len(messages[s]) /\ Len(messages[s]) \in Nat
         /\ e.kind \in messages[s][e.seq].asks \cup {"message"} /\ s \in There
<1>1. PICK i \in n + 1 .. Len(messages[s]) : e \in EventsOf(s, i)
  BY DEF EventsAfter
<1>2. messages[s] \in Seq(Written) /\ Len(messages[s]) \in Nat
  BY DEF ShapeOK, WorldTypes
<1>3. i \in 1 .. Len(messages[s]) /\ i \in Nat
  BY <1>1, <1>2
<1>4. messages[s][i] \in Written
  BY <1>2, <1>3
<1>5. PICK k \in messages[s][i].asks \cup {"message"} : e = [kind |-> k, on |-> s, seq |-> i]
  BY <1>1 DEF EventsOf, Event
<1>6. k \in Kinds
  BY <1>4, <1>5 DEF Written, Kinds
<1>7. s \in There
  BY <1>2, <1>3 DEF ShapeOK, WorldTypes
<1> QED BY <1>1, <1>2, <1>3, <1>5, <1>6, <1>7 DEF Events

LEMMA TheseAreEvents ==
  ASSUME ShapeOK, NEW s \in Streams, NEW n \in Nat, NEW e \in Events, e.on = s, e.seq \in n + 1 .. Len(messages[s]),
         e.kind \in messages[s][e.seq].asks \cup {"message"}
  PROVE  e \in EventsAfter(s, n)
<1>1. e = [kind |-> e.kind, on |-> s, seq |-> e.seq]
  BY DEF Events
<1>2. e \in EventsOf(s, e.seq)
  BY <1>1 DEF EventsOf, Event
<1> QED BY <1>2 DEF EventsAfter

\* A page of a stream.
Paged ==
  /\ Still /\ UNCHANGED <<life, jobs, seen, last, from, outcomes, chatVars>>
  /\ life.up /\ scan.at = "read"
  /\ \E s \in Streams : \E P \in SUBSET EventsAfter(s, last[s]), top \in Nat :
       /\ s = Head(scan.left)
       /\ scan' = [scan EXCEPT !.at = "page", !.page = P, !.max = top,
                               !.cut = {e \in EventsAfter(s, last[s]) \ P : e.seq = top}]
       /\ last[s] <= top /\ top <= Len(messages[s])
       /\ \A e \in P : e.seq <= top
       /\ \A f \in EventsAfter(s, last[s]) \ P : top <= f.seq

LEMMA ReadIsPaged ==
  ASSUME ShapeOK, Loop("read"), UNCHANGED <<life, jobs, chatVars>>,
         NEW P \in Pages(Head(scan.left), last[Head(scan.left)]),
         scan' = [scan EXCEPT !.at = "page", !.page = P, !.max = Max({e.seq : e \in P} \cup {last[Head(scan.left)]}),
                    !.cut = {e \in EventsAfter(Head(scan.left), last[Head(scan.left)]) \ P :
                               e.seq = Max({f.seq : f \in P} \cup {last[Head(scan.left)]})}]
  PROVE  Paged
<1> DEFINE s == Head(scan.left)
           n == last[s]
           T == {e.seq : e \in P} \cup {n}
           top == Max(T)
<1>1. Still /\ UNCHANGED <<life, jobs, seen, last, from, outcomes, chatVars>> /\ life.up /\ scan.at = "read"
  BY ServerStill DEF Loop, Quietly
<1>2. s \in Streams
  BY <1>1 DEF ShapeOK, LoopOK, PollTypes, Scans
<1>3. n \in Nat /\ n <= Len(messages[s]) /\ Len(messages[s]) \in Nat
  BY <1>2 DEF ShapeOK, LoopOK, PollTypes, WorldTypes
<1>4. P \subseteq EventsAfter(s, n) /\ \A e \in P, f \in EventsAfter(s, n) \ P : e.seq <= f.seq
  BY DEF Pages
<1> HIDE DEF s, n
<1>5. \A e \in EventsAfter(s, n) : e.seq \in Nat /\ n < e.seq /\ e.seq <= Len(messages[s])
  <2> TAKE e \in EventsAfter(s, n)
  <2>1. e.seq \in n + 1 .. Len(messages[s])
    BY <1>2, <1>3, EventsAreThese
  <2> QED BY <1>3, <2>1
<1>6. T \in SUBSET Nat /\ T # {} /\ \A x \in T : x <= Len(messages[s])
  BY <1>3, <1>4, <1>5
<1>7. top \in T /\ \A x \in T : x <= top
  <2> HIDE DEF T
  <2> QED BY <1>3, <1>6, LargestOne
<1>8. top \in Nat /\ n <= top /\ top <= Len(messages[s]) /\ \A e \in P : e.seq <= top
  BY <1>6, <1>7
<1>9. \A f \in EventsAfter(s, n) \ P : top <= f.seq
  BY <1>3, <1>4, <1>5, <1>7
<1> HIDE DEF T, top
<1>10. scan' = [scan EXCEPT !.at = "page", !.page = P, !.max = top, !.cut = {e \in EventsAfter(s, n) \ P : e.seq = top}]
  BY DEF s, n, T, top
<1> QED BY <1>1, <1>2, <1>4, <1>8, <1>9, <1>10 DEF Paged, n, s

LEMMA PagedShape ==
  ASSUME ShapeOK, Paged
  PROVE  ShapeOK'
<1>1. PICK s \in Streams : \E Q \in SUBSET EventsAfter(s, last[s]), n \in Nat :
        scan' = [scan EXCEPT !.at = "page", !.page = Q, !.max = n,
                             !.cut = {e \in EventsAfter(s, last[s]) \ Q : e.seq = n}]
  BY DEF Paged
<1>10. PICK P \in SUBSET EventsAfter(s, last[s]), top \in Nat :
        scan' = [scan EXCEPT !.at = "page", !.page = P, !.max = top,
                             !.cut = {e \in EventsAfter(s, last[s]) \ P : e.seq = top}]
  BY <1>1
<1>2. last[s] \in Nat
  BY DEF ShapeOK, PollTypes
<1>3. EventsAfter(s, last[s]) \subseteq Events
  BY <1>2, EventsAreThese
<1>4. scan' \in Scans /\ scan'.at = "page" /\ scan'.left = scan.left /\ scan'.chans = scan.chans
  <2>1. scan \in Scans
    BY DEF ShapeOK, PollTypes
  <2>2. P \subseteq Events /\ {e \in EventsAfter(s, last[s]) \ P : e.seq = top} \subseteq Events
    BY <1>3
  <2> QED BY <1>10, <2>1, <2>2 DEF Scans, ScanPoints
<1>5. Still /\ UNCHANGED <<life, jobs, seen, last, from, outcomes, chatVars>> /\ scan.at = "read" /\ life.up
  BY DEF Paged
<1>6. WorldTypes' /\ There' = There
  BY <1>5, StillTypes DEF ShapeOK, WorldTypes
<1>7. PollTypes' /\ ChatTypes'
  BY <1>4, <1>5 DEF ShapeOK, PollTypes, ChatTypes, chatVars
<1>8. HandlersOK'
  BY <1>5, <1>6, HandlersStay DEF Still, HandlersOK
<1>11. \A e \in scan'.page : e.on \in There' /\ e.seq <= Len(messages'[e.on])
  <2>1. scan'.page = P
    BY <1>10 DEF ShapeOK, PollTypes, Scans
  <2>2. ASSUME NEW e \in P  PROVE e.on \in There /\ e.seq <= Len(messages[e.on])
    BY <1>2, EventsAreThese
  <2> QED BY <1>5, <1>6, <2>1, <2>2 DEF Still
<1>9. LoopOK'
  BY <1>4, <1>5, <1>11 DEF ShapeOK, LoopOK, Still, chatVars
<1> QED BY <1>6, <1>7, <1>8, <1>9 DEF ShapeOK

(***************************************************************************)
(* Handlers begin, the loop goes from place to place.                      *)
(***************************************************************************)
\* A handler for an event.
LEMMA NewHandler ==
  ASSUME ShapeOK, NEW e \in Events, e.on \in There, NEW stage \in {"reply", "answer", "ack", "relay"},
         stage \in StagesOf(program), NEW run \in Nat
  PROVE  LET k == [NewJob(e, stage, "load", e.on) EXCEPT !.run = run] IN
         /\ k \in Handlers /\ HandlerOK(k) /\ k.key = e /\ k.stage = stage /\ k.at = "load" /\ k.to = e.on
         /\ k.run = run /\ (run = 0 => k = NewJob(e, stage, "load", e.on))
<1> DEFINE n == NewJob(e, stage, "load", e.on)
           k == [n EXCEPT !.run = run]
<1>1. n = [key |-> e, stage |-> stage, at |-> "load", to |-> e.on, run |-> 0, wait |-> TRUE, back |-> None,
           req |-> 0, out |-> None]
  BY DEF NewJob
<1>3. e.on \in Streams
  BY DEF Events
<1>4. stage \in Stages /\ stage \notin {"arrival", "periodic", "running", "final", "error"}
  BY DEF Stages, FirstStages
<1>5. n \in Handlers /\ n.key = e /\ n.stage = stage /\ n.at = "load" /\ n.to = e.on /\ n.run = 0
      /\ n.back = None /\ n.out = None
  <2> HIDE DEF n
  <2> QED BY <1>1, <1>3, <1>4 DEF Handlers
<1> HIDE DEF n
<1>6. k \in Handlers /\ k.key = e /\ k.stage = stage /\ k.at = "load" /\ k.to = e.on /\ k.run = run
      /\ k.back = None /\ k.out = None
  BY <1>5 DEF Handlers
<1>2. run = 0 => k = n
  BY <1>5 DEF Handlers
<1> HIDE DEF k
<1>7. Placed(k)
  BY <1>4, <1>6, WorldConstants DEF Placed
<1>8. HandlerOK(k)
  BY <1>4, <1>6, <1>7 DEF HandlerOK
<1> QED BY <1>2, <1>6, <1>8 DEF k, n

LEMMA NewJobFacts ==
  ASSUME ShapeOK, NEW e \in Events, e.on \in There, NEW stage \in {"reply", "answer", "ack", "relay"},
         stage \in StagesOf(program)
  PROVE  LET k == NewJob(e, stage, "load", e.on) IN
         k \in Handlers /\ HandlerOK(k) /\ k.key = e /\ k.stage = stage /\ k.at = "load" /\ k.to = e.on
<1> DEFINE k == [NewJob(e, stage, "load", e.on) EXCEPT !.run = 0]
<1>1. 0 \in Nat
  OBVIOUS
<1>2. k \in Handlers /\ HandlerOK(k) /\ k.key = e /\ k.stage = stage /\ k.at = "load" /\ k.to = e.on
      /\ k = NewJob(e, stage, "load", e.on)
  BY <1>1, NewHandler
<1> HIDE DEF k
<1> QED BY <1>2

LEMMA ScanFacts ==
  ASSUME ShapeOK
  PROVE  /\ scan \in Scans /\ scan.page \subseteq Events /\ scan.cut \subseteq Events /\ scan.max \in Nat
         /\ \A at \in ScanPoints : LET x == [scan EXCEPT !.at = at] IN
              /\ x \in Scans /\ x.at = at /\ x.page = scan.page /\ x.cut = scan.cut /\ x.left = scan.left
              /\ x.chans = scan.chans /\ x.max = scan.max
BY DEF ShapeOK, PollTypes, Scans

\* The places of the loop that a step leads to, when only the place changes.
LEMMA ScanMoves ==
  ASSUME ShapeOK, NEW at \in ScanPoints, ScanTo(at)
  PROVE  /\ scan' \in Scans /\ scan'.at = at /\ scan'.page = scan.page /\ scan'.cut = scan.cut
         /\ scan'.left = scan.left /\ scan'.chans = scan.chans /\ scan'.max = scan.max
BY ScanFacts DEF ScanTo

LEMMA QuietIsStill ==
  ASSUME ShapeOK, Quietly
  PROVE  Still /\ UNCHANGED <<program, seen, last, from, outcomes>>
BY ServerStill DEF Quietly

LEMMA ConnStays ==
  ASSUME ShapeOK, UNCHANGED chatVars
  PROVE  conn' = conn /\ conn' \in {"none", "open", "closed"} /\ subs' \subseteq Streams /\ UNCHANGED <<sessions, runs>>
BY DEF chatVars, ShapeOK, ChatTypes

\* The loop is not where a socket can be open, but for one place.
LEMMA NoSocket ==
  ASSUME ShapeOK, scan.at # "stream"
  PROVE  conn # "open"
BY DEF ShapeOK, LoopOK

\* Steps of the loop that only lead to another place of it.
LEMMA RegistersMoves ==
  ASSUME ShapeOK, life.up, UNCHANGED chatVars,
         \/ program \in {"poet", "weather"} /\ Registers(registerCommand, "idle")
         \/ program = "cursor" /\ Registers(registerCommand, "connect")
  PROVE  Moved \/ Stopped
<1>1. PICK next \in {"idle", "connect"} : Registers(registerCommand, next) /\ program # "assistant"
  OBVIOUS
<1>2. scan.at = "boot" /\ conn # "open" /\ DOMAIN sessions = {} /\ UNCHANGED <<program, seen, last, from, outcomes>>
  BY <1>1 DEF Registers, ShapeOK, LoopOK
<1>3. CASE registerCommand /\ ScanTo(next) /\ UNCHANGED <<life, jobs, budget>>
  <2>1. Still
    BY <1>1, <1>3, RegisterStill DEF Registers
  <2>2. next \in ScanPoints
    BY DEF ScanPoints
  <2> QED BY <1>1, <1>2, <1>3, <2>1, <2>2, ScanMoves, ConnStays DEF Moved
<1>4. CASE Exit /\ Fault /\ UNCHANGED <<requests, command>>
  <2>1. Still
    BY <1>1, <1>4 DEF Registers, Still, ShapeOK, WorldTypes
  <2> QED BY <1>2, <1>4, <2>1, ExitStops
<1> QED BY <1>1, <1>3, <1>4 DEF Registers

LEMMA RoundIs ==
  ASSUME NEW chans
  PROVE  Round(chans) \in {"idle", "threads"} /\ (Round(chans) = "threads" => chans # <<>>)
BY DEF Round

LEMMA AbandonMoves ==
  ASSUME ShapeOK, Abandon, Quietly, life.up, scan.at \in {"idle", "read"}, UNCHANGED chatVars, program # "assistant"
  PROVE  Moved
<1>1. "idle" \in ScanPoints /\ scan.at # "stream"
  BY DEF ScanPoints
<1>2. ScanTo("idle") /\ UNCHANGED <<life, jobs>>
  BY DEF Abandon
<1> QED BY <1>1, <1>2, ScanMoves, QuietIsStill, ConnStays, NoSocket DEF Moved

LEMMA GoOnMoves ==
  ASSUME ShapeOK, Quietly, life.up, scan.at \in {"idle", "periodic"}, UNCHANGED <<life, jobs, chatVars>>,
         program # "assistant", NEW at \in {"idle", "threads", "periodic"}, NEW chans \in Seq(Channels),
         at = "threads" => chans # <<>>, scan' = [scan EXCEPT !.at = at, !.chans = chans]
  PROVE  Moved
<1>1. scan' \in Scans /\ scan'.page = scan.page /\ scan'.cut = scan.cut /\ scan'.at = at /\ scan'.chans = chans
  BY DEF ShapeOK, PollTypes, Scans, ScanPoints
<1>2. scan.at # "stream"
  OBVIOUS
<1> QED BY <1>1, <1>2, QuietIsStill, ConnStays, NoSocket DEF Moved

LEMMA TickMoves ==
  ASSUME ShapeOK, program \in {"poet", "weather"}, NEW next \in {"idle", "threads", "periodic"},
         next = "threads" => channels # <<>>, Tick(next), UNCHANGED chatVars
  PROVE  Moved \/ Stopped
<1>1. life.up /\ scan.at = "idle" /\ Quietly
  BY DEF Tick, Loop
<1>2. channels \in Seq(Channels)
  BY DEF ShapeOK, WorldTypes
<1>3. CASE Exit
  BY <1>1, <1>3, ExitStops, QuietIsStill, NoSocket DEF ShapeOK, LoopOK
<1>4. CASE scan' = [scan EXCEPT !.at = next, !.chans = channels] /\ UNCHANGED <<life, jobs, budget>>
  BY <1>1, <1>2, <1>4, GoOnMoves
<1>5. CASE Abandon
  BY <1>1, <1>5, AbandonMoves
<1> QED BY <1>3, <1>4, <1>5 DEF Tick

LEMMA StopPollingMoves ==
  ASSUME ShapeOK, program = "cursor", StopPolling, Quietly, life.up, scan.at \in {"idle", "read"}
  PROVE  Moved
<1>1. "off" \in ScanPoints /\ ScanTo("off") /\ conn' = "closed" /\ UNCHANGED <<life, jobs, subs, sessions, runs>>
  BY DEF ScanPoints, StopPolling
<1>2. subs' \subseteq Streams
  BY <1>1 DEF ShapeOK, ChatTypes
<1> QED BY <1>1, <1>2, ScanMoves, QuietIsStill DEF Moved

LEMMA CursorTickMoves ==
  ASSUME ShapeOK, program = "cursor", CursorTick
  PROVE  Moved
<1>1. life.up /\ scan.at = "idle" /\ Quietly
  BY DEF CursorTick, Loop
<1>2. channels \in Seq(Channels)
  BY DEF ShapeOK, WorldTypes
<1>3. CASE scan' = [scan EXCEPT !.at = Round(channels), !.chans = channels] /\ UNCHANGED <<life, jobs, chatVars, budget>>
  <2>1. Round(channels) \in {"idle", "threads", "periodic"} /\ (Round(channels) = "threads" => channels # <<>>)
    BY RoundIs
  <2> QED BY <1>1, <1>2, <1>3, <2>1, GoOnMoves
<1>4. CASE StopPolling
  BY <1>1, <1>4, StopPollingMoves
<1> QED BY <1>3, <1>4 DEF CursorTick

LEMMA ListedThreads ==
  ASSUME ShapeOK, NEW c, NEW ts \in ThreadsOf(c)
  PROVE  ts \in Seq(Streams)
<1> DEFINE T == {t \in DOMAIN threads : threads[t].channel = c}
<1>1. DOMAIN threads = 1 .. Len(threads) /\ Len(threads) \in Nat /\ Len(threads) <= MaxThreads
  BY DEF ShapeOK, WorldTypes
<1>2. T \subseteq 1 .. Len(threads) /\ T \subseteq Streams
  BY <1>1, WorldConstants DEF Streams, Threads
<1>3. IsFiniteSet(T)
  <2>1. IsFiniteSet(1 .. Len(threads))
    BY <1>1, FS_Interval
  <2> QED BY <1>2, <2>1, FS_Subset
<1>4. Cardinality(T) \in Nat
  BY <1>3, FS_CardinalityType
<1>5. ts \in [1 .. Cardinality(T) -> T]
  BY DEF ThreadsOf
<1>6. ts \in [1 .. Cardinality(T) -> Streams]
  BY <1>2, <1>5
<1> DEFINE n == Cardinality(T)
<1>7. n \in Nat /\ ts \in [1 .. n -> Streams]
  BY <1>4, <1>6
<1> HIDE DEF n
<1> QED BY <1>7

LEMMA ListMoves ==
  ASSUME ShapeOK, program # "assistant", listThreads, UNCHANGED chatVars
  PROVE  Moved
<1>1. life.up /\ scan.at = "threads" /\ Quietly /\ UNCHANGED <<life, jobs>> /\ scan.chans # <<>>
  BY DEF listThreads, Loop, ShapeOK, LoopOK
<1>2. scan \in Scans /\ scan.chans \in Seq(Channels)
  BY DEF ShapeOK, PollTypes, Scans
<1>3. Head(scan.chans) \in Streams
  BY <1>1, <1>2, ChannelsAreStreams
<1>4. PICK ts : ts \in ThreadsOf(Head(scan.chans)) \cup {<<>>}
                /\ scan' = [scan EXCEPT !.at = "read", !.left = <<Head(scan.chans)>> \o ts]
  BY DEF listThreads
<1>5. ts \in Seq(Streams)
  <2>1. CASE ts \in ThreadsOf(Head(scan.chans))
    BY <2>1, ListedThreads
  <2>2. CASE ts = <<>>
    BY <2>2
  <2> QED BY <1>4, <2>1, <2>2
<1>6. <<Head(scan.chans)>> \o ts \in Seq(Streams) /\ <<Head(scan.chans)>> \o ts # <<>>
  BY <1>3, <1>5
<1>7. scan' \in Scans /\ scan'.page = scan.page /\ scan'.cut = scan.cut /\ scan'.at = "read" /\ scan'.left # <<>>
      /\ scan'.chans = scan.chans
  BY <1>2, <1>4, <1>6 DEF Scans, ScanPoints
<1>8. scan.at # "stream"
  BY <1>1
<1> QED BY <1>1, <1>7, <1>8, QuietIsStill, ConnStays, NoSocket DEF Moved

LEMMA ConnectMoves ==
  ASSUME ShapeOK, NEW fallback \in {"seek", "idle"}, Connect(fallback),
         program = IF fallback = "seek" THEN "assistant" ELSE "cursor"
  PROVE  Moved \/ Stopped
<1>1. life.up /\ scan.at = "connect" /\ Quietly /\ conn # "open"
  BY NoSocket DEF Connect
<1>2. CASE /\ conn' = "open" /\ ScanTo("stream")
           /\ subs' = IF program = "assistant" THEN ToSet(channels) ELSE {}
           /\ UNCHANGED <<life, jobs, sessions, runs, budget>>
  <2>1. channels \in Seq(Channels)
    BY DEF ShapeOK, WorldTypes
  <2>2. ToSet(channels) \subseteq Channels
    BY <2>1 DEF ToSet
  <2>3. subs' \subseteq Streams /\ "stream" \in ScanPoints
    BY <1>2, <2>2, ChannelsAreStreams DEF ScanPoints
  <2> QED BY <1>1, <1>2, <2>3, ScanMoves, QuietIsStill DEF Moved
<1>3. CASE ScanTo(fallback) /\ Fault /\ UNCHANGED <<life, jobs, chatVars>>
  <2>1. fallback \in ScanPoints
    BY DEF ScanPoints
  <2> QED BY <1>1, <1>3, <2>1, ScanMoves, QuietIsStill, ConnStays DEF Moved
<1>4. CASE Leave /\ Fault
  BY <1>1, <1>4, LeaveStops DEF Quietly
<1> QED BY <1>2, <1>3, <1>4 DEF Connect

LEMMA CloseMoves ==
  ASSUME ShapeOK, Close
  PROVE  Moved
<1>1. life.up /\ conn = "open" /\ scan.at = "stream" /\ Quietly /\ conn' = "closed"
      /\ UNCHANGED <<life, jobs, scan, subs, sessions, runs>>
  BY DEF Close, InWS, ShapeOK, LoopOK
<1> QED BY <1>1, ScanFacts, QuietIsStill DEF Moved, ShapeOK, ChatTypes

LEMMA DrainedStops ==
  ASSUME ShapeOK, Drained
  PROVE  Stopped
BY LeaveStops DEF Drained, Quietly

LEMMA DiscoveredMoves ==
  ASSUME ShapeOK, syncDiscoveredStreams
  PROVE  Moved
<1>1. life.up /\ conn = "open" /\ scan.at = "stream" /\ Quietly
      /\ UNCHANGED <<life, jobs, scan, conn, sessions, runs>> /\ program \in {"assistant", "cursor"}
  BY DEF syncDiscoveredStreams, InWS, ShapeOK, LoopOK
<1>2. subs' \subseteq Streams
  <2>1. PICK s \in (ToSet(channels) \cup DOMAIN threads) \ subs : subs' = subs \cup {s}
    BY DEF syncDiscoveredStreams
  <2>2. channels \in Seq(Channels) /\ DOMAIN threads \subseteq There
    BY DEF ShapeOK, WorldTypes, There
  <2>3. ToSet(channels) \subseteq Channels
    BY <2>2 DEF ToSet
  <2> QED BY <2>1, <2>2, <2>3, ThereAreStreams, ChannelsAreStreams DEF ShapeOK, ChatTypes
<1> QED BY <1>1, <1>2, ScanFacts, QuietIsStill DEF Moved, ShapeOK, ChatTypes

LEMMA LeaveLoopStops ==
  ASSUME ShapeOK, Loop("read"), Leave
  PROVE  Stopped
BY LeaveStops DEF Loop, Quietly

\* A handler of the program's own begins: the arrival, the poem of the hour.
Begun ==
  /\ Still /\ UNCHANGED <<life, seen, last, from, outcomes, chatVars>> /\ life.up /\ jobs = {}
  /\ \E k \in Handlers :
       /\ jobs' = {k} /\ k.key = None /\ HandlerOK(k) /\ k.at # "done"
       /\ \/ k.stage = "arrival" /\ scan.at = "boot" /\ ScanTo("arrive")
          \/ k.stage = "periodic" /\ scan.at = "periodic" /\ ScanTo("poem")

LEMMA OwnJob ==
  ASSUME ShapeOK, NEW stage \in {"arrival", "periodic"}, stage \in StagesOf(program),
         NEW at \in {"channel", "append"}, NEW wait \in BOOLEAN
  PROVE  LET n == NewJob(None, stage, at, Own)
             k == [n EXCEPT !.wait = wait]
         IN /\ k \in Handlers /\ HandlerOK(k) /\ k.key = None /\ k.stage = stage /\ k.at # "done"
            /\ n \in Handlers /\ HandlerOK(n) /\ n.key = None /\ n.stage = stage /\ n.at # "done"
<1> DEFINE n == NewJob(None, stage, at, Own)
           k == [n EXCEPT !.wait = wait]
<1>1. n = [key |-> None, stage |-> stage, at |-> at, to |-> Own, run |-> 0, wait |-> TRUE, back |-> None,
           req |-> 0, out |-> None]
  BY DEF NewJob
<1>2. Own \in Streams /\ Own \in There /\ stage \in Stages
  BY ChannelsAreStreams DEF There, Stages
<1>3. n \in Handlers /\ n.key = None /\ n.stage = stage /\ n.at = at /\ n.to = Own /\ n.back = None /\ n.out = None
  <2> HIDE DEF n
  <2> QED BY <1>1, <1>2 DEF Handlers
<1> HIDE DEF n
<1>4. k \in Handlers /\ k.key = None /\ k.stage = stage /\ k.at = at /\ k.to = Own /\ k.back = None /\ k.out = None
  BY <1>3 DEF Handlers
<1> HIDE DEF k
<1>5. Placed(k) /\ Placed(n)
  BY <1>3, <1>4, WorldConstants DEF Placed
<1>6. HandlerOK(k) /\ HandlerOK(n)
  BY <1>2, <1>3, <1>4, <1>5 DEF HandlerOK
<1> QED BY <1>3, <1>4, <1>6 DEF k, n

LEMMA PoemBegins ==
  ASSUME ShapeOK, program = "poet", postPeriodicPoem, UNCHANGED chatVars
  PROVE  Begun \/ Moved
<1>1. life.up /\ scan.at = "periodic" /\ Quietly /\ UNCHANGED life /\ Handling = {} /\ scan.at # "stream"
  BY DEF postPeriodicPoem, Loop
<1>2. jobs = {}
  <2> SUFFICES ASSUME NEW j \in jobs  PROVE FALSE
    OBVIOUS
  <2>1. j.stage # "final"
    BY HandlerFacts DEF StagesOf
  <2> QED BY <1>1, <2>1 DEF Handling
<1>3. CASE /\ jobs' = {[NewJob(None, "periodic", IF Own \in ToSet(channels) THEN "append" ELSE "channel", Own)
                         EXCEPT !.wait = Own \in ToSet(channels)]}
           /\ ScanTo("poem")
  <2>1. PICK at \in {"channel", "append"}, wait \in BOOLEAN :
          jobs' = {[NewJob(None, "periodic", at, Own) EXCEPT !.wait = wait]}
    <3>1. PICK wait \in BOOLEAN : wait = (Own \in ToSet(channels))
      <4>1. CASE Own \in ToSet(channels)
        BY <4>1, TRUE = (Own \in ToSet(channels))
      <4>2. CASE Own \notin ToSet(channels)
        BY <4>2, FALSE = (Own \in ToSet(channels))
      <4> QED BY <4>1, <4>2
    <3>2. jobs' = {[NewJob(None, "periodic", IF wait THEN "append" ELSE "channel", Own) EXCEPT !.wait = wait]}
      BY <1>3, <3>1
    <3> QED BY <3>2
  <2> DEFINE k == [NewJob(None, "periodic", at, Own) EXCEPT !.wait = wait]
  <2>2. "periodic" \in StagesOf(program)
    BY DEF StagesOf
  <2>3. k \in Handlers /\ HandlerOK(k) /\ k.key = None /\ k.stage = "periodic" /\ k.at # "done"
    BY <2>2, OwnJob
  <2>4. jobs' = {k}
    BY <2>1
  <2> HIDE DEF k
  <2> QED BY <1>1, <1>2, <1>3, <2>3, <2>4, QuietIsStill DEF Begun
<1>4. ASSUME NEW at \in {"idle", "threads"}, ScanTo(at), UNCHANGED jobs, at = "threads" => scan.chans # <<>>  PROVE Moved
  <2>1. at \in ScanPoints
    BY DEF ScanPoints
  <2> QED BY <1>1, <1>4, <2>1, ScanMoves, QuietIsStill, ConnStays, NoSocket DEF Moved
<1>5. CASE ScanTo("idle") /\ UNCHANGED jobs
  BY <1>4, <1>5
<1>6. CASE ScanTo(Round(scan.chans)) /\ UNCHANGED <<jobs, budget>>
  BY <1>4, <1>6, RoundIs
<1>7. CASE scan' = [scan EXCEPT !.due = TRUE] /\ UNCHANGED jobs
  <2>1. /\ scan' \in Scans /\ scan'.at = scan.at /\ scan'.page = scan.page /\ scan'.cut = scan.cut
    BY <1>7, ScanFacts DEF Scans
  <2> QED BY <1>1, <1>7, <2>1, QuietIsStill, ConnStays, NoSocket DEF Moved
<1> QED BY <1>3, <1>5, <1>6, <1>7 DEF postPeriodicPoem

LEMMA ArrivalBegins ==
  ASSUME ShapeOK, program = "assistant", ensureGeneralChannel
  PROVE  Begun \/ Stopped
<1>1. life.up /\ scan.at = "boot" /\ jobs = {} /\ Quietly
  BY DEF ensureGeneralChannel
<1>2. CASE /\ jobs' = {NewJob(None, "arrival", IF Own \in ToSet(channels) THEN "append" ELSE "channel", Own)}
           /\ ScanTo("arrive") /\ UNCHANGED <<life, chatVars, budget>>
  <2>1. PICK at \in {"channel", "append"} : jobs' = {NewJob(None, "arrival", at, Own)}
    BY <1>2
  <2> DEFINE k == NewJob(None, "arrival", at, Own)
  <2>2. "arrival" \in StagesOf(program) /\ TRUE \in BOOLEAN
    BY DEF StagesOf
  <2>3. k \in Handlers /\ HandlerOK(k) /\ k.key = None /\ k.stage = "arrival" /\ k.at # "done"
    BY <2>2, OwnJob
  <2>4. jobs' = {k}
    BY <2>1
  <2> HIDE DEF k
  <2> QED BY <1>1, <1>2, <2>3, <2>4, QuietIsStill DEF Begun
<1>3. CASE Leave /\ Fault
  BY <1>1, <1>3, LeaveStops DEF Quietly
<1> QED BY <1>2, <1>3 DEF ensureGeneralChannel

LEMMA BegunShape ==
  ASSUME ShapeOK, Begun
  PROVE  ShapeOK'
<1>1. Still /\ UNCHANGED <<life, seen, last, from, outcomes, chatVars>> /\ life.up /\ jobs = {}
  BY DEF Begun
<1>2. PICK k \in Handlers : /\ jobs' = {k} /\ HandlerOK(k)
                            /\ \/ k.stage = "arrival" /\ scan.at = "boot" /\ ScanTo("arrive")
                               \/ k.stage = "periodic" /\ scan.at = "periodic" /\ ScanTo("poem")
  BY DEF Begun
<1>3. PICK at \in {"arrive", "poem"} : ScanTo(at) /\ (at = "arrive" => scan.at = "boot" /\ k.stage = "arrival")
                                       /\ (at = "poem" => scan.at = "periodic" /\ k.stage = "periodic")
  BY <1>2
<1>4. at \in ScanPoints
  BY DEF ScanPoints
<1>5. scan' \in Scans /\ scan'.at = at /\ scan'.page = scan.page /\ scan'.cut = scan.cut
  BY <1>3, <1>4, ScanMoves
<1>6. WorldTypes' /\ There' = There
  BY <1>1, StillTypes DEF ShapeOK, WorldTypes
<1>7. PollTypes' /\ ChatTypes'
  BY <1>1, <1>2, <1>5 DEF ShapeOK, PollTypes, ChatTypes, chatVars
<1>8. HandlersOK'
  BY <1>1, <1>2, <1>6 DEF Still, HandlersOK, HandlerOK
<1>9. LoopOK'
  BY <1>1, <1>2, <1>3, <1>5, <1>6 DEF ShapeOK, LoopOK, Still, chatVars
<1> QED BY <1>6, <1>7, <1>8, <1>9 DEF ShapeOK

(***************************************************************************)
(* A page ends, polling begins, a handler ends.                            *)
(***************************************************************************)
\* The end of a page.
Turned ==
  /\ Still /\ UNCHANGED <<life, jobs, seen, from, chatVars>> /\ life.up
  /\ scan.at = "page" /\ scan.page = {}
  /\ scan' \in Scans /\ scan'.page = {} /\ scan'.cut = {} /\ scan'.at \in {"read", "idle", "threads"}
  /\ scan'.at = "read" => scan'.left # <<>>
  /\ scan'.at \in {"read", "threads"} /\ program # "assistant" => scan'.chans # <<>>
  /\ \/ program = "assistant" /\ scan'.at = "read" /\ UNCHANGED last
     \/ program # "assistant" /\ last' = [last EXCEPT ![Head(scan.left)] = scan.max]
  /\ outcomes \subseteq outcomes' /\ \A e \in scan.cut : WantedBy(e) => Taken(e)'

LEMMA EndTurns ==
  ASSUME ShapeOK, program # "assistant", EndOfPage({e \in scan.cut : WantedBy(e)}), UNCHANGED chatVars
  PROVE  Turned
<1> DEFINE left == Tail(scan.left)
           chans == IF left = <<>> THEN Tail(scan.chans) ELSE scan.chans
           at == IF left # <<>> THEN "read" ELSE Round(chans)
<1>1. /\ life.up /\ scan.at = "page" /\ scan.page = {}
      /\ last' = [last EXCEPT ![Head(scan.left)] = scan.max]
      /\ outcomes' = outcomes \cup {Outcome(e, "cut") : e \in {f \in scan.cut : WantedBy(f)}}
      /\ scan' = [scan EXCEPT !.left = left, !.chans = chans, !.cut = {}, !.max = 0, !.at = at]
      /\ UNCHANGED <<program, life, resolving, server, jobs, budget, seen, from>>
  BY DEF EndOfPage
<1>2. scan \in Scans /\ scan.left \in Seq(Streams) /\ scan.left # <<>> /\ scan.chans \in Seq(Channels)
      /\ scan.chans # <<>>
  BY <1>1 DEF ShapeOK, LoopOK, PollTypes, Scans
<1>3. left \in Seq(Streams)
  BY <1>2
<1>4. Tail(scan.chans) \in Seq(Channels)
  BY <1>2
<1>5. chans \in Seq(Channels)
  BY <1>2, <1>4
<1>6. at \in {"read", "idle", "threads"} /\ (at = "read" => left # <<>>)
      /\ (chans # <<>> \/ at = "idle")
  BY <1>2, RoundIs
<1>7. Still
  BY <1>1, ServerStill
<1>8. \A e \in scan.cut : WantedBy(e) => Taken(e)'
  <2> TAKE e \in scan.cut
  <2> SUFFICES ASSUME WantedBy(e)  PROVE Taken(e)'
    OBVIOUS
  <2>1. Outcome(e, "cut") \in outcomes' /\ Outcome(e, "cut").key = e /\ Outcome(e, "cut").life = life.n
    BY <1>1 DEF Outcome
  <2> QED BY <1>1, <2>1 DEF Taken
<1> HIDE DEF left, chans, at
<1>9. /\ scan' \in Scans /\ scan'.page = {} /\ scan'.cut = {} /\ scan'.at = at /\ scan'.left = left
      /\ scan'.chans = chans
  BY <1>1, <1>2, <1>3, <1>5, <1>6 DEF Scans, ScanPoints
<1> QED BY <1>1, <1>6, <1>7, <1>8, <1>9 DEF Turned

LEMMA AroundTurns ==
  ASSUME ShapeOK, program = "assistant", Around, UNCHANGED chatVars
  PROVE  Turned
<1> DEFINE left == Append(Tail(scan.left), Head(scan.left))
<1>1. /\ life.up /\ scan.at = "page" /\ scan.page = {} /\ UNCHANGED last
      /\ outcomes' = outcomes \cup {Outcome(e, "cut") : e \in {f \in scan.cut : AssistantWanted(f)}}
      /\ scan' = [scan EXCEPT !.at = "read", !.left = left, !.cut = {}, !.max = 0]
      /\ UNCHANGED <<program, life, resolving, server, jobs, budget, seen, from>>
  BY DEF Around
<1>2. scan \in Scans /\ scan.left \in Seq(Streams) /\ scan.left # <<>>
  BY <1>1 DEF ShapeOK, LoopOK, PollTypes, Scans
<1>3. left \in Seq(Streams) /\ left # <<>>
  BY <1>2
<1>4. Still
  BY <1>1, ServerStill
<1>5. \A e \in scan.cut : WantedBy(e) => Taken(e)'
  <2> TAKE e \in scan.cut
  <2> SUFFICES ASSUME AssistantWanted(e)  PROVE Taken(e)'
    BY DEF WantedBy
  <2>1. Outcome(e, "cut") \in outcomes' /\ Outcome(e, "cut").key = e /\ Outcome(e, "cut").life = life.n
    BY <1>1 DEF Outcome
  <2> QED BY <1>1, <2>1 DEF Taken
<1> HIDE DEF left
<1>6. scan' \in Scans /\ scan'.page = {} /\ scan'.cut = {} /\ scan'.at = "read" /\ scan'.left = left
  BY <1>1, <1>2, <1>3 DEF Scans, ScanPoints
<1> QED BY <1>1, <1>3, <1>4, <1>5, <1>6 DEF Turned

LEMMA TurnedShape ==
  ASSUME ShapeOK, PageOK, Turned
  PROVE  ShapeOK'
<1>1. Still /\ UNCHANGED <<life, jobs, seen, from, chatVars>> /\ life.up /\ scan.at = "page"
  BY DEF Turned
<1>2. scan.max <= Len(messages[Head(scan.left)]) /\ scan.max \in Nat /\ last \in [Streams -> Nat]
  BY <1>1 DEF PageOK, ShapeOK, PollTypes, Scans
<1>3. last' \in [Streams -> Nat] /\ \A s \in Streams : last'[s] <= Len(messages[s])
  BY <1>2 DEF Turned, ShapeOK, LoopOK
<1>4. WorldTypes' /\ There' = There
  BY <1>1, StillTypes DEF ShapeOK, WorldTypes
<1>5. PollTypes' /\ ChatTypes'
  BY <1>1, <1>3 DEF ShapeOK, PollTypes, ChatTypes, chatVars, Turned
<1>6. HandlersOK'
  BY <1>1, <1>4, HandlersStay DEF Still, HandlersOK
<1>7. LoopOK'
  BY <1>1, <1>3, <1>4 DEF ShapeOK, LoopOK, Still, chatVars, Turned
<1> QED BY <1>4, <1>5, <1>6, <1>7 DEF ShapeOK

\* Polling begins.
Sought ==
  /\ Still /\ UNCHANGED <<life, jobs, seen, outcomes, chatVars>> /\ life.up
  /\ program = "assistant" /\ scan.at = "seek" /\ scan.page = {} /\ scan.cut = {}
  /\ scan' \in Scans /\ scan'.at = "read" /\ scan'.left # <<>> /\ scan'.page = {} /\ scan'.cut = {}
  /\ last' \in [Streams -> Nat] /\ from' = last'
  /\ \A s \in Streams : last[s] <= last'[s] /\ last'[s] <= Len(messages[s])

LEMMA SeekSeeks ==
  ASSUME ShapeOK, program = "assistant", Seek
  PROVE  Sought \/ Stopped
<1>1. life.up /\ scan.at = "seek" /\ UNCHANGED <<program, resolving, server, jobs, seen, outcomes>>
  BY DEF Seek
<1>2. CASE /\ from' = [s \in Streams |-> IF s \in ToSet(channels) THEN FirstPage(s) ELSE 0]
           /\ last' = from' /\ scan' = [scan EXCEPT !.at = "read", !.left = channels]
           /\ UNCHANGED <<life, chatVars, budget>>
  <2>1. last = Zero /\ scan.page = {} /\ scan.cut = {} /\ channels # <<>> /\ channels \in Seq(Streams)
    BY <1>1, ChannelsAreStreams DEF ShapeOK, LoopOK, WorldTypes
  <2>2. scan' \in Scans /\ scan'.at = "read" /\ scan'.left # <<>> /\ scan'.page = {} /\ scan'.cut = {}
    BY <1>2, <2>1 DEF ShapeOK, PollTypes, Scans, ScanPoints
  <2>3. \A s \in Streams : Len(messages[s]) \in Nat
    BY DEF ShapeOK, WorldTypes
  <2>4. ASSUME NEW s \in Streams  PROVE FirstPage(s) \in Nat /\ FirstPage(s) <= Len(messages[s])
    <3>1. \E x \in {Len(messages[s]), SeekLimit} : \A y \in {Len(messages[s]), SeekLimit} : x <= y
      BY <2>3, SeekAssumption
    <3> QED BY <2>3, <3>1, SeekAssumption DEF FirstPage, Min
  <2>5. \A s \in Streams : last'[s] \in Nat /\ last[s] <= last'[s] /\ last'[s] <= Len(messages[s])
    BY <1>2, <2>1, <2>3, <2>4 DEF Zero
  <2>6. last' \in [Streams -> Nat]
    BY <1>2, <2>4
  <2> QED BY <1>1, <1>2, <2>1, <2>2, <2>5, <2>6, ServerStill DEF Sought
<1>3. CASE Leave /\ Fault /\ UNCHANGED <<last, from>>
  BY <1>1, <1>3, LeaveStops
<1> QED BY <1>2, <1>3 DEF Seek

LEMMA SoughtShape ==
  ASSUME ShapeOK, Sought
  PROVE  ShapeOK'
<1>1. Still /\ UNCHANGED <<life, jobs, seen, outcomes, chatVars>> /\ life.up
  BY DEF Sought
<1>2. WorldTypes' /\ There' = There
  BY <1>1, StillTypes DEF ShapeOK, WorldTypes
<1>3. PollTypes' /\ ChatTypes'
  BY <1>1 DEF ShapeOK, PollTypes, ChatTypes, chatVars, Sought
<1>4. HandlersOK'
  BY <1>1, <1>2, HandlersStay DEF Still, HandlersOK
<1>5. LoopOK'
  BY <1>1, <1>2 DEF ShapeOK, LoopOK, Still, chatVars, Sought
<1> QED BY <1>2, <1>3, <1>4, <1>5 DEF ShapeOK

\* A handler ends for good.
Dropped(j) ==
  /\ Still /\ UNCHANGED <<life, last, from, runs, conn, subs>>
  /\ j.at = "done" /\ jobs' = jobs \ {j}
  /\ \/ UNCHANGED seen
     \/ /\ program \in {"poet", "weather"} /\ j.stage = "reply" /\ j.out \notin {"ok", "thrown"}
        /\ seen' = seen \ {j.key}
  /\ outcomes \subseteq outcomes' /\ (Taken(j.key)' \/ j.stage \in {"arrival", "periodic", "final", "relay"})
  /\ \/ UNCHANGED scan
     \/ /\ scan' \in Scans /\ scan'.page = scan.page /\ scan'.cut = scan.cut
        /\ \/ program \in {"poet", "weather"} /\ scan'.at \in {"idle", "threads"}
              /\ (scan'.at = "threads" => scan'.chans # <<>>)
           \/ /\ program = "assistant" /\ j.stage = "arrival" /\ scan'.at = "connect" /\ channels # <<>>
  /\ \/ UNCHANGED sessions /\ (j.stage = "final" /\ j.to \in DOMAIN sessions => sessions[j.to].run # j.run)
     \/ /\ j.stage = "final" /\ j.to \in DOMAIN sessions /\ sessions[j.to].run = j.run
        /\ sessions' = [t \in DOMAIN sessions \ {j.to} |-> sessions[t]]

LEMMA NotedIsTaken ==
  ASSUME NEW key, NEW out, Note(key, out), UNCHANGED life
  PROVE  outcomes \subseteq outcomes' /\ Taken(key)'
<1>1. Outcome(key, out) \in outcomes' /\ Outcome(key, out).key = key /\ Outcome(key, out).life = life'.n
  BY DEF Note, Outcome
<1> QED BY <1>1 DEF Note, Taken

\* The loop of the poet and the weather agent has one handler, and goes on.
LEMMA OneHandler ==
  ASSUME ShapeOK, program \in {"poet", "weather"}, NEW j \in jobs
  PROVE  jobs = {j} /\ jobs \ {j} = {} /\ conn # "open" /\ life.up
BY DEF ShapeOK, LoopOK

LEMMA FinishedDrops ==
  ASSUME ShapeOK, program \in {"poet", "weather"}, NEW j \in jobs, Finished(j), UNCHANGED chatVars
  PROVE  Dropped(j)
<1>1. /\ j.at = "done" /\ j.stage = "reply" /\ jobs' = {} /\ Note(j.key, j.out)
      /\ seen' = (IF Forgotten(j) THEN seen \ {j.key} ELSE seen)
      /\ UNCHANGED <<frame, server, budget, last, from>>
  BY DEF Finished
<1>2. Still /\ UNCHANGED <<life, runs, conn, subs, sessions>>
  BY <1>1, ServerStill DEF frame, chatVars
<1>3. UNCHANGED seen \/ (j.out \notin {"ok", "thrown"} /\ seen' = seen \ {j.key})
  BY <1>1 DEF Forgotten
<1>4. UNCHANGED scan \/ (scan' \in Scans /\ scan'.page = scan.page /\ scan'.cut = scan.cut /\ scan'.at = "idle")
  <2>1. "idle" \in ScanPoints
    BY DEF ScanPoints
  <2>2. CASE ScanTo("idle")
    BY <2>1, <2>2, ScanMoves
  <2> QED BY <2>2 DEF Finished
<1> QED BY <1>1, <1>2, <1>3, <1>4, NotedIsTaken, OneHandler DEF Dropped

LEMMA PoemDrops ==
  ASSUME ShapeOK, program = "poet", NEW j \in jobs, PostedPoem(j), UNCHANGED chatVars
  PROVE  Dropped(j)
<1>1. /\ j.at = "done" /\ j.stage = "periodic" /\ jobs' = {}
      /\ UNCHANGED <<frame, server, budget, seen, last, from, outcomes>>
  BY DEF PostedPoem
<1>2. Still /\ UNCHANGED <<life, runs, conn, subs, sessions>>
  BY <1>1, ServerStill DEF frame, chatVars
<1>3. PICK at \in {"idle", "threads"}, due \in BOOLEAN :
        scan' = [scan EXCEPT !.at = at, !.due = due] /\ (at = "threads" => scan.chans # <<>>)
  <2>1. scan.due \in BOOLEAN /\ [scan EXCEPT !.at = "idle"] = [scan EXCEPT !.at = "idle", !.due = scan.due]
    BY DEF ShapeOK, PollTypes, Scans
  <2> QED BY <2>1, RoundIs DEF PostedPoem
<1>4. scan' \in Scans /\ scan'.page = scan.page /\ scan'.cut = scan.cut /\ scan'.at = at /\ scan'.chans = scan.chans
  BY <1>3 DEF ShapeOK, PollTypes, Scans, ScanPoints
<1> QED BY <1>1, <1>2, <1>3, <1>4, OneHandler DEF Dropped

LEMMA ArrivalDrops ==
  ASSUME ShapeOK, program = "assistant", NEW j \in jobs, sendArrivalMessage(j)
  PROVE  Dropped(j) \/ Stopped
<1>1. j.stage = "arrival" /\ j.at = "done" /\ Quietly /\ Still
  BY QuietIsStill DEF sendArrivalMessage
<1>2. CASE Leave
  BY <1>1, <1>2, LeaveStops DEF Quietly
<1>3. CASE Drop(j) /\ ScanTo("connect") /\ UNCHANGED <<life, chatVars>> /\ Own \in ToSet(channels)
  <2>1. "connect" \in ScanPoints
    BY DEF ScanPoints
  <2>2. channels # <<>>
    BY <1>3 DEF ToSet
  <2> QED BY <1>1, <1>3, <2>1, <2>2, ScanMoves DEF Dropped, Drop, Quietly, chatVars
<1> QED BY <1>2, <1>3 DEF sendArrivalMessage

LEMMA TraceDrops ==
  ASSUME ShapeOK, program = "assistant", NEW j \in jobs, publishAgentTrace(j)
  PROVE  Dropped(j) \/ Stopped
<1>1. j.at = "done" /\ Note(j.key, j.out) /\ UNCHANGED <<program, resolving, server, budget, seen, last, from>> /\ Still
      /\ j.stage # "final"
  BY ServerStill DEF publishAgentTrace
<1>2. CASE Leave
  BY <1>1, <1>2, LeaveStops
<1>3. CASE Drop(j) /\ UNCHANGED <<life, scan, chatVars>>
  BY <1>1, <1>3, NotedIsTaken DEF Dropped, Drop, chatVars
<1> QED BY <1>2, <1>3 DEF publishAgentTrace

LEMMA CursorIsStill ==
  ASSUME ShapeOK, NEW j, CursorStep(j)
  PROVE  Still /\ UNCHANGED <<program, seen, last, from, conn, subs>>
BY ServerStill DEF CursorStep

LEMMA FailedDrops ==
  ASSUME ShapeOK, program = "cursor", NEW j \in jobs, Failed(j)
  PROVE  Dropped(j)
<1>1. j.at = "done" /\ Note(j.key, j.out) /\ Drop(j) /\ UNCHANGED <<life, scan, sessions, runs, budget>>
      /\ j.stage # "final"
  BY DEF Failed
<1>2. CursorStep(j)
  BY DEF Failed
<1> QED BY <1>1, <1>2, CursorIsStill, NotedIsTaken DEF Dropped, Drop

LEMMA WatchDrops ==
  ASSUME ShapeOK, program = "cursor", NEW j \in jobs, monitorCursorRun(j)
  PROVE  Dropped(j) \/ Stopped
<1>1. j.stage = "final" /\ j.at = "done" /\ UNCHANGED <<program, resolving, server, budget, seen, last, from, outcomes>>
      /\ Still
  BY ServerStill DEF monitorCursorRun
<1>2. CASE Leave
  BY <1>1, <1>2, LeaveStops
<1>3. CASE /\ Drop(j) /\ UNCHANGED <<life, scan, conn, subs, runs>>
           /\ sessions' = IF j.to \in DOMAIN sessions /\ sessions[j.to].run = j.run
                          THEN [t \in DOMAIN sessions \ {j.to} |-> sessions[t]] ELSE sessions
  BY <1>1, <1>3 DEF Dropped, Drop
<1> QED BY <1>2, <1>3 DEF monitorCursorRun

LEMMA RelayDrops ==
  ASSUME ShapeOK, program = "cursor", NEW j \in jobs, CursorStep(j), j.stage = "relay", j.at = "done", Drop(j),
         UNCHANGED <<life, scan, sessions, outcomes, runs, budget>>
  PROVE  Dropped(j)
BY CursorIsStill DEF Dropped, Drop

LEMMA DroppedShape ==
  ASSUME ShapeOK, NEW j \in jobs, Dropped(j)
  PROVE  ShapeOK'
<1>1. Still /\ UNCHANGED <<life, last, from, runs, conn, subs>> /\ jobs' = jobs \ {j} /\ seen' \subseteq seen /\ life.up
  BY DEF Dropped, ShapeOK, LoopOK
<1>2. WorldTypes' /\ There' = There
  BY <1>1, StillTypes DEF ShapeOK, WorldTypes
<1>3. scan' \in Scans /\ scan'.page = scan.page /\ scan'.cut = scan.cut
  BY ScanFacts DEF Dropped
<1>4. PollTypes'
  BY <1>1, <1>3 DEF ShapeOK, PollTypes
<1>5. DOMAIN sessions' \subseteq DOMAIN sessions /\ \A t \in DOMAIN sessions' : sessions'[t] = sessions[t]
  BY DEF Dropped
<1>6. ChatTypes'
  BY <1>1, <1>5 DEF ShapeOK, ChatTypes
<1>7. HandlersOK'
  BY <1>1, <1>2, HandlersStay DEF Still, HandlersOK
<1>8. LoopOK'
  <2>1. CASE UNCHANGED scan
    BY <1>1, <1>2, <1>5, <2>1 DEF ShapeOK, LoopOK, Still
  <2>2. CASE program \in {"poet", "weather"} /\ scan'.at \in {"idle", "threads"}
             /\ (scan'.at = "threads" => scan'.chans # <<>>)
    BY <1>1, <1>2, <1>3, <1>5, <2>2, OneHandler DEF ShapeOK, LoopOK, Still
  <2>3. CASE program = "assistant" /\ j.stage = "arrival" /\ scan'.at = "connect" /\ channels # <<>>
    <3>1. scan.at = "arrive" /\ jobs' = {}
      BY <1>1, <2>3 DEF ShapeOK, LoopOK
    <3> QED BY <1>1, <1>2, <1>3, <1>5, <2>3, <3>1 DEF ShapeOK, LoopOK, Still
  <2> QED BY <2>1, <2>2, <2>3 DEF Dropped
<1> QED BY <1>2, <1>4, <1>6, <1>7, <1>8 DEF ShapeOK

(***************************************************************************)
(* Events are taken up.                                                    *)
(***************************************************************************)
\* Events are taken up: the handlers N begin.
TookUp(N) ==
  /\ Still /\ UNCHANGED <<life, from, conn, subs, runs>> /\ life.up /\ scan.at \in {"page", "stream"}
  /\ N \subseteq Handlers /\ jobs' = jobs \cup N
  /\ \A k \in N : HandlerOK(k) /\ k.at = "load" /\ k.stage \in {"reply", "answer", "ack", "relay"}
  /\ program \in {"poet", "weather"} => jobs = {} /\ \A k, m \in N : k = m
  /\ scan' \in Scans /\ scan'.at = scan.at /\ scan'.left = scan.left /\ scan'.chans = scan.chans
  /\ scan'.cut = scan.cut /\ scan'.max = scan.max /\ scan'.page \subseteq scan.page
  /\ seen \subseteq seen' /\ seen' \subseteq Keys /\ outcomes \subseteq outcomes'
\* Nothing is forgotten, and an event is taken up once.
TookOnce(N) ==
  /\ \A e \in Events : Reopenable(e)' => Reopenable(e)
  /\ \A k \in N : k.stage # "relay" => Reopenable(k.key) /\ ~Reopenable(k.key)'
  /\ \A k, m \in N : k.stage # "relay" /\ m.stage # "relay" /\ Same(k.key, m.key) => k = m
\* Each event that was passed is accounted for.
TookAll ==
  /\ last' \in [Streams -> Nat] /\ \A s \in Streams : last[s] <= last'[s] /\ last'[s] <= Len(messages[s])
  /\ \A e \in scan'.page \cup scan.cut :
       last'[e.on] = last[e.on] \/ (program = "assistant" /\ last'[e.on] <= e.seq)
  /\ scan.at = "page" => last'[Head(scan.left)] <= scan.max
  /\ \A e \in scan.page \ scan'.page : WantedBy(e) => Accounted(e)'
  /\ \A s \in Streams : \A e \in EventsAfter(s, last[s]) :
       WantedBy(e) /\ e.seq <= last'[s] => e \in scan.page \cup scan.cut \/ Accounted(e)'
  /\ program \in {"poet", "weather"} => \A e \in seen' \ seen : Accounted(e)'
\* What is relayed is noted in the session.
TookToRuns(N) ==
  /\ DOMAIN sessions' = DOMAIN sessions
  /\ \A t \in DOMAIN sessions : /\ sessions'[t] \in [run : Nat, done : SUBSET Nat]
                                /\ sessions'[t].run = sessions[t].run /\ sessions[t].done \subseteq sessions'[t].done
  /\ \A k \in N : /\ k.stage = "ack" /\ k.key.kind = "message" => InPrivate(k.key.on)
                  /\ k.stage = "relay" =>
                       /\ k.key.kind = "message" /\ k.key.on \in DOMAIN sessions /\ k.run = sessions[k.key.on].run
                       /\ k.key.seq \notin sessions[k.key.on].done /\ k.key.seq \in sessions'[k.key.on].done
  /\ \A k, m \in N : k.stage = "relay" /\ m.stage = "relay" /\ k.key = m.key => k = m
TakenUp == \E N : TookUp(N) /\ TookOnce(N) /\ TookAll /\ TookToRuns(N)

LEMMA TakenUpShape ==
  ASSUME ShapeOK, TakenUp
  PROVE  ShapeOK'
<1>1. PICK N : TookUp(N) /\ TookOnce(N) /\ TookAll /\ TookToRuns(N)
  BY DEF TakenUp
<1>2. Still /\ UNCHANGED <<life, from, conn, subs, runs>> /\ life.up /\ scan.at \in {"page", "stream"}
  BY <1>1 DEF TookUp
<1>3. WorldTypes' /\ There' = There
  BY <1>2, StillTypes DEF ShapeOK, WorldTypes
<1>4. PollTypes'
  BY <1>1, <1>2 DEF ShapeOK, PollTypes, TookUp, TookAll
<1>5. ChatTypes'
  BY <1>1, <1>2 DEF ShapeOK, ChatTypes, TookToRuns
<1>6. HandlersOK'
  <2>1. \A k \in N : HandlerOK(k)'
    BY <1>1, <1>2, <1>3 DEF TookUp, HandlerOK, Still
  <2>2. \A k \in jobs : HandlerOK(k)'
    BY <1>2, <1>3, HandlersStay DEF Still
  <2> QED BY <1>1, <2>1, <2>2 DEF HandlersOK, TookUp
<1>7. LoopOK'
  <2>1. \A s \in Streams : last'[s] <= Len(messages'[s])
    BY <1>1, <1>2 DEF TookAll, Still
  <2>2. program = "assistant" => \A j \in jobs' : j.stage # "arrival"
    BY <1>1, <1>2 DEF TookUp, ShapeOK, LoopOK
  <2>3. program \in {"poet", "weather"} => \A j, k \in jobs' : j = k
    BY <1>1 DEF TookUp
  <2>4. /\ scan'.at = scan.at /\ scan'.left = scan.left /\ scan'.chans = scan.chans
        /\ scan'.cut = scan.cut /\ scan'.page \subseteq scan.page /\ DOMAIN sessions' = DOMAIN sessions
    BY <1>1 DEF TookUp, TookToRuns
  <2> QED BY <1>2, <1>3, <2>1, <2>2, <2>3, <2>4 DEF ShapeOK, LoopOK, Still
<1> QED BY <1>3, <1>4, <1>5, <1>6, <1>7 DEF ShapeOK

\* The poet and the weather agent.
LEMMA TakeTakes ==
  ASSUME ShapeOK, SettledInv, program \in {"poet", "weather"}, Take, UNCHANGED chatVars
  PROVE  TakenUp
<1>1. Still /\ UNCHANGED <<life, last, from, outcomes>> /\ life.up /\ scan.at = "page" /\ jobs = {}
  BY ServerStill DEF Take
<1>2. PICK e \in NextOf(scan.page) :
        /\ scan' = [scan EXCEPT !.page = @ \ {e}]
        /\ IF Wanted(e) /\ e \notin seen
           THEN seen' = seen \cup {e} /\ jobs' = {NewJob(e, "reply", "load", e.on)}
           ELSE UNCHANGED <<seen, jobs>>
  BY DEF Take
<1>3. e \in scan.page /\ e \in Events /\ e.on \in There
  BY ScanFacts DEF NextOf, ShapeOK, LoopOK
<1>4. scan' \in Scans /\ scan'.at = scan.at /\ scan'.left = scan.left /\ scan'.chans = scan.chans
      /\ scan'.cut = scan.cut /\ scan'.max = scan.max /\ scan'.page = scan.page \ {e}
  BY <1>1, <1>2, ScanFacts DEF Scans
<1> DEFINE n == NewJob(e, "reply", "load", e.on)
           N == IF Wanted(e) /\ e \notin seen THEN {n} ELSE {}
<1>5. n \in Handlers /\ HandlerOK(n) /\ n.key = e /\ n.stage = "reply" /\ n.at = "load"
  BY <1>3, NewJobFacts DEF StagesOf
<1>6. jobs' = jobs \cup N /\ seen' = (IF Wanted(e) /\ e \notin seen THEN seen \cup {e} ELSE seen)
  BY <1>1, <1>2
<1> HIDE DEF n
<1>7. TookUp(N)
  <2>1. seen' \subseteq Keys
    BY <1>3, <1>6 DEF ShapeOK, PollTypes, Events, Keys
  <2>2. UNCHANGED <<conn, subs, runs>>
    BY DEF chatVars
  <2> QED BY <1>1, <1>4, <1>5, <1>6, <2>1, <2>2 DEF TookUp
<1>8. TookOnce(N)
  BY <1>1, <1>5, <1>6 DEF TookOnce, Reopenable, Still
<1>9. TookAll
  <2>1. Wanted(e) => Accounted(e)'
    <3>1. CASE e \in seen
      <4>1. Taken(e)
        BY <1>1, <3>1 DEF SettledInv, SeenOK, Accounted
      <4> QED BY <1>1, <4>1 DEF Accounted, Taken
    <3>2. CASE e \notin seen
      BY <1>5, <1>6, <3>2 DEF Accounted
    <3> QED BY <3>1, <3>2
  <2>2. scan.max \in Nat /\ last[Head(scan.left)] <= scan.max
    BY <1>1, ScanFacts DEF SettledInv, PageOK
  <2>3. \A s \in Streams : last'[s] = last[s] /\ last[s] \in Nat /\ last[s] <= Len(messages[s])
    BY <1>1 DEF ShapeOK, LoopOK, PollTypes
  <2>4. \A f \in scan'.page \cup scan.cut : last'[f.on] = last[f.on]
    BY <1>1
  <2>5. ASSUME NEW s \in Streams, NEW f \in EventsAfter(s, last[s])  PROVE ~(f.seq <= last'[s])
    <3>1. f.seq \in last[s] + 1 .. Len(messages[s]) /\ Len(messages[s]) \in Nat
      BY <2>3, EventsAreThese
    <3> QED BY <2>3, <3>1
  <2>6. \A f \in scan.page \ scan'.page : WantedBy(f) => Accounted(f)'
    BY <1>4, <2>1 DEF WantedBy
  <2>7. \A f \in seen' \ seen : Accounted(f)'
    BY <1>6, <2>1
  <2>8. last' \in [Streams -> Nat] /\ last' = last
    BY <1>1 DEF ShapeOK, PollTypes
  <2> QED BY <2>2, <2>3, <2>4, <2>5, <2>6, <2>7, <2>8 DEF TookAll
<1>10. TookToRuns(N)
  BY <1>5 DEF TookToRuns, chatVars, ShapeOK, ChatTypes
<1> QED BY <1>7, <1>8, <1>9, <1>10 DEF TakenUp

\* The assistant, when it polls.
LEMMA AssistantTakes ==
  ASSUME ShapeOK, SettledInv, program = "assistant", TakeForAssistant, UNCHANGED chatVars
  PROVE  TakenUp
<1>1. Still /\ UNCHANGED <<life, seen, from, outcomes>> /\ life.up /\ scan.at = "page" /\ jobs = {}
  BY ServerStill DEF TakeForAssistant
<1>2. PICK e \in NextOf(scan.page) :
        /\ scan' = [scan EXCEPT !.page = @ \ {e}] /\ last' = [last EXCEPT ![e.on] = e.seq]
        /\ jobs' = IF AssistantWanted(e) THEN {NewJob(e, "answer", "load", e.on)} ELSE {}
  BY DEF TakeForAssistant
<1>3. e \in scan.page /\ e \in Events /\ e.on \in There /\ e.on \in Streams /\ e.seq \in Nat
      /\ e.seq <= Len(messages[e.on]) /\ \A f \in scan.page : e.seq <= f.seq
  BY ScanFacts DEF NextOf, ShapeOK, LoopOK, Events
<1>4. scan' \in Scans /\ scan'.at = scan.at /\ scan'.left = scan.left /\ scan'.chans = scan.chans
      /\ scan'.cut = scan.cut /\ scan'.max = scan.max /\ scan'.page = scan.page \ {e}
  BY <1>1, <1>2, ScanFacts DEF Scans
<1>5. e.on = Head(scan.left) /\ last[e.on] <= e.seq /\ e.seq <= scan.max
      /\ \A f \in scan.page \cup scan.cut : f.on = e.on
  BY <1>1, <1>3 DEF SettledInv, PageOK
<1>6. last \in [Streams -> Nat] /\ last' \in [Streams -> Nat] /\ last'[e.on] = e.seq
      /\ \A s \in Streams : s # e.on => last'[s] = last[s]
  BY <1>2, <1>3 DEF ShapeOK, PollTypes
<1> DEFINE n == NewJob(e, "answer", "load", e.on)
           N == IF AssistantWanted(e) THEN {n} ELSE {}
<1>7. n \in Handlers /\ HandlerOK(n) /\ n.key = e /\ n.stage = "answer" /\ n.at = "load"
  BY <1>3, NewJobFacts DEF StagesOf
<1>8. jobs' = jobs \cup N
  BY <1>1, <1>2
<1> HIDE DEF n
<1>9. TookUp(N)
  <2>1. seen' \subseteq Keys
    BY <1>1 DEF ShapeOK, PollTypes
  <2>2. UNCHANGED <<conn, subs, runs>>
    BY DEF chatVars
  <2> QED BY <1>1, <1>4, <1>7, <1>8, <2>1, <2>2 DEF TookUp
<1>10. TookOnce(N)
  <2>1. \A f \in Events : f.on \in Streams /\ f.seq \in Nat
    BY DEF Events
  <2>2. \A f \in Events : Reopenable(f)' => Reopenable(f)
    BY <1>1, <1>3, <1>4, <1>5, <1>6, <2>1 DEF Reopenable, Still
  <2>3. Reopenable(e) /\ ~Reopenable(e)'
    BY <1>1, <1>3, <1>4, <1>6 DEF Reopenable, Still
  <2> QED BY <1>7, <2>2, <2>3 DEF TookOnce
<1>11. TookAll
  <2>1. AssistantWanted(e) => Accounted(e)'
    BY <1>7, <1>8 DEF Accounted
  <2>2. last'[Head(scan.left)] <= scan.max
    BY <1>5, <1>6
  <2>3. \A s \in Streams : last[s] \in Nat /\ last[s] <= Len(messages[s])
    BY DEF ShapeOK, LoopOK, PollTypes
  <2>4. \A s \in Streams : last[s] <= last'[s] /\ last'[s] <= Len(messages[s])
    BY <1>3, <1>5, <1>6, <2>3
  <2>5. ASSUME NEW f \in scan'.page \cup scan.cut  PROVE last'[f.on] <= f.seq
    <3>1. CASE f \in scan.page
      BY <1>3, <1>5, <1>6, <3>1
    <3>2. CASE f \in scan.cut
      <4>1. f.seq = scan.max
        BY <1>1, <3>2 DEF SettledInv, PageOK
      <4> QED BY <1>5, <1>6, <3>2, <4>1
    <3> QED BY <1>4, <3>1, <3>2
  <2>6. ASSUME NEW s \in Streams, NEW f \in EventsAfter(s, last[s]), WantedBy(f), f.seq <= last'[s]
        PROVE  f \in scan.page \cup scan.cut \/ Accounted(f)'
    <3>1. f.seq \in last[s] + 1 .. Len(messages[s]) /\ Len(messages[s]) \in Nat
      BY <2>3, EventsAreThese
    <3>2. s = e.on
      BY <1>6, <2>3, <2>6, <3>1
    <3>3. f.seq <= scan.max
      BY <1>3, <1>5, <1>6, <2>6, <3>1, <3>2, ScanFacts
    <3>4. f \in scan.page \cup scan.cut \/ Accounted(f)
      BY <1>1, <1>5, <2>6, <3>2, <3>3 DEF SettledInv, PageOK
    <3>5. Accounted(f) => Accounted(f)'
      BY <1>1, <1>8 DEF Accounted, Taken
    <3> QED BY <3>4, <3>5
  <2>7. \A f \in scan.page \ scan'.page : WantedBy(f) => Accounted(f)'
    BY <1>4, <2>1 DEF WantedBy
  <2> QED BY <1>6, <2>2, <2>4, <2>5, <2>6, <2>7 DEF TookAll
<1>12. TookToRuns(N)
  BY <1>7 DEF TookToRuns, chatVars, ShapeOK, ChatTypes
<1> QED BY <1>9, <1>10, <1>11, <1>12 DEF TakenUp

\* The next message of a stream comes over the socket.
LEMMA NextMessage ==
  ASSUME ShapeOK, InWS, NEW s \in Waiting
  PROVE  /\ s \in Streams /\ s \in There /\ last[s] \in Nat /\ last[s] + 1 <= Len(messages[s]) /\ Len(messages[s]) \in Nat
         /\ EventsOf(s, last[s] + 1) \subseteq EventsAfter(s, last[s])
         /\ \A e \in EventsOf(s, last[s] + 1) : e \in Events /\ e.on = s /\ e.seq = last[s] + 1
         /\ \A e \in EventsAfter(s, last[s]) : e.seq <= last[s] + 1 => e \in EventsOf(s, last[s] + 1)
         /\ life.up /\ scan.at = "stream" /\ scan.page = {} /\ scan.cut = {}
<1>1. s \in Streams /\ last[s] < Len(messages[s]) /\ last[s] \in Nat /\ Len(messages[s]) \in Nat
  BY DEF Waiting, ShapeOK, ChatTypes, PollTypes, WorldTypes
<1>2. EventsOf(s, last[s] + 1) \subseteq EventsAfter(s, last[s])
  <2>1. last[s] + 1 \in last[s] + 1 .. Len(messages[s])
    BY <1>1
  <2> QED BY <2>1 DEF EventsAfter
<1>3. \A e \in EventsOf(s, last[s] + 1) : e \in Events /\ e.on = s /\ e.seq = last[s] + 1 /\ s \in There
  BY <1>1, <1>2, EventsAreThese DEF EventsOf, Event
<1>4. \A e \in EventsAfter(s, last[s]) : e.seq <= last[s] + 1 => e \in EventsOf(s, last[s] + 1)
  <2> SUFFICES ASSUME NEW e \in EventsAfter(s, last[s]), e.seq <= last[s] + 1  PROVE e \in EventsOf(s, last[s] + 1)
    OBVIOUS
  <2>1. PICK i \in last[s] + 1 .. Len(messages[s]) : e \in EventsOf(s, i)
    BY DEF EventsAfter
  <2>2. e.seq = i
    BY <2>1 DEF EventsOf, Event
  <2> QED BY <1>1, <2>1, <2>2
<1>5. s \in There
  BY <1>1 DEF ShapeOK, WorldTypes
<1> QED BY <1>1, <1>2, <1>3, <1>4, <1>5 DEF InWS, ShapeOK, LoopOK

\* What the socket brings is read, whoever handles it.
LEMMA ReceiveFacts ==
  ASSUME ShapeOK, NEW s \in Waiting, NEW H, Receive(s, H)
  PROVE  /\ Still /\ UNCHANGED <<life, from, conn, subs, runs, scan>> /\ InWS
         /\ last' = [last EXCEPT ![s] = last[s] + 1] /\ last' \in [Streams -> Nat]
         /\ \A r \in Streams : /\ last[r] <= last'[r] /\ last'[r] <= Len(messages[r])
                               /\ (r # s => last'[r] = last[r]) /\ (r = s => last'[r] = last[r] + 1)
         /\ jobs' = jobs \cup H.jobs /\ seen' = seen \cup H.seen /\ sessions' = H.sessions
         /\ outcomes' = outcomes \cup H.dropped
<1>1. InWS /\ UNCHANGED <<program, life, resolving, server, budget, from, scan, conn, subs, runs>>
  BY DEF Receive
<1>2. last' = [last EXCEPT ![s] = last[s] + 1] /\ last \in [Streams -> Nat]
  BY DEF Receive, ShapeOK, PollTypes
<1>3. s \in Streams /\ last[s] + 1 <= Len(messages[s])
  BY <1>1, NextMessage
<1>4. \A r \in Streams : last[r] \in Nat /\ last[r] <= Len(messages[r])
  BY DEF ShapeOK, LoopOK, PollTypes
<1>5. last' \in [Streams -> Nat]
  BY <1>2, <1>3
<1>6. \A r \in Streams : /\ last[r] <= last'[r] /\ last'[r] <= Len(messages[r])
                         /\ (r # s => last'[r] = last[r]) /\ (r = s => last'[r] = last[r] + 1)
  BY <1>2, <1>3, <1>4
<1> QED BY <1>1, <1>2, <1>5, <1>6, ServerStill DEF Receive

LEMMA ReceivedAll ==
  ASSUME ShapeOK, NEW s \in Waiting, NEW H, Receive(s, H),
         \A e \in EventsOf(s, last[s] + 1) : WantedBy(e) => Accounted(e)', program \in {"assistant", "cursor"}
  PROVE  TookAll
<1>1. /\ UNCHANGED <<life, scan>> /\ InWS
      /\ last' \in [Streams -> Nat]
      /\ \A r \in Streams : /\ last[r] <= last'[r] /\ last'[r] <= Len(messages[r])
                            /\ (r # s => last'[r] = last[r]) /\ (r = s => last'[r] = last[r] + 1)
  BY ReceiveFacts
<1>2. /\ scan.at = "stream" /\ scan.page = {} /\ scan.cut = {}
      /\ \A e \in EventsAfter(s, last[s]) : e.seq <= last[s] + 1 => e \in EventsOf(s, last[s] + 1)
  BY <1>1, NextMessage
<1>3. ASSUME NEW r \in Streams, NEW f \in EventsAfter(r, last[r]), WantedBy(f), f.seq <= last'[r]
      PROVE  Accounted(f)'
  <2>1. last[r] \in Nat /\ Len(messages[r]) \in Nat
    BY DEF ShapeOK, PollTypes, WorldTypes
  <2>2. f.seq \in last[r] + 1 .. Len(messages[r])
    BY <2>1, EventsAreThese
  <2>3. r = s
    BY <1>1, <1>3, <2>1, <2>2
  <2> QED BY <1>1, <1>2, <1>3, <2>3
<1> QED BY <1>1, <1>2, <1>3 DEF TookAll

LEMMA AssistantReceives ==
  ASSUME ShapeOK, program = "assistant", NEW s \in Waiting, NEW H \in AssistantHandlers(s, last[s] + 1), Receive(s, H)
  PROVE  TakenUp
<1> DEFINE E == {f \in EventsOf(s, last[s] + 1) : AssistantWanted(f)}
           N == {NewJob(e, "answer", "load", s) : e \in E}
<1>1. H.jobs = N /\ H.seen = {} /\ H.sessions = sessions /\ H.dropped = {}
  BY DEF AssistantHandlers
<1>2. /\ Still /\ UNCHANGED <<life, from, conn, subs, runs, scan>> /\ InWS
      /\ last' = [last EXCEPT ![s] = last[s] + 1] /\ last' \in [Streams -> Nat]
      /\ \A r \in Streams : /\ last[r] <= last'[r] /\ last'[r] <= Len(messages[r])
                            /\ (r # s => last'[r] = last[r]) /\ (r = s => last'[r] = last[r] + 1)
      /\ jobs' = jobs \cup N /\ seen' = seen /\ sessions' = sessions /\ outcomes' = outcomes
  BY <1>1, ReceiveFacts
<1>3. /\ s \in Streams /\ s \in There /\ last[s] \in Nat
      /\ \A e \in EventsOf(s, last[s] + 1) : e \in Events /\ e.on = s /\ e.seq = last[s] + 1
      /\ life.up /\ scan.at = "stream" /\ scan.page = {} /\ scan.cut = {}
  BY <1>2, NextMessage
<1>4. \A e \in E : LET k == NewJob(e, "answer", "load", s)
                   IN k \in Handlers /\ HandlerOK(k) /\ k.key = e /\ k.stage = "answer" /\ k.at = "load"
  BY <1>3, NewJobFacts DEF StagesOf
<1>5. \A k \in N : k \in Handlers /\ HandlerOK(k) /\ k.key \in E /\ k.stage = "answer" /\ k.at = "load"
                   /\ k = NewJob(k.key, "answer", "load", s)
  BY <1>4
<1>6. \A e \in E : \E k \in N : k.key = e
  BY <1>4
<1>7. \A e \in E : e \in Events /\ e.on = s /\ e.seq = last[s] + 1
  BY <1>3
<1>12. \A e \in EventsOf(s, last[s] + 1) : AssistantWanted(e) => e \in E
  OBVIOUS
<1> HIDE DEF N, E
<1>8. TookUp(N)
  <2>1. seen' \subseteq Keys /\ scan' \in Scans
    BY <1>2 DEF ShapeOK, PollTypes
  <2> QED BY <1>2, <1>3, <1>5, <2>1 DEF TookUp
<1>9. TookOnce(N)
  <2>1. \A f \in Events : f.on \in Streams /\ f.seq \in Nat /\ last[f.on] \in Nat /\ last'[f.on] \in Nat
    BY <1>2 DEF Events, ShapeOK, PollTypes
  <2>2. \A f \in Events : Reopenable(f)' => Reopenable(f)
    BY <1>2, <1>3, <2>1 DEF Reopenable, Still
  <2>3. \A f \in E : Reopenable(f) /\ ~Reopenable(f)'
    BY <1>2, <1>3, <1>7, <2>1 DEF Reopenable, Still
  <2> QED BY <1>5, <2>2, <2>3 DEF TookOnce, Same
<1>10. TookAll
  <2>1. ASSUME NEW e \in EventsOf(s, last[s] + 1), WantedBy(e)  PROVE Accounted(e)'
    <3>1. AssistantWanted(e)
      BY <2>1 DEF WantedBy
    <3> QED BY <1>2, <1>6, <1>12, <3>1 DEF Accounted
  <2> QED BY <2>1, ReceivedAll
<1>11. TookToRuns(N)
  BY <1>2, <1>5 DEF TookToRuns, ShapeOK, ChatTypes
<1> QED BY <1>8, <1>9, <1>10, <1>11 DEF TakenUp

\* The cursor agent.
LEMMA CursorHandles ==
  ASSUME ShapeOK, program = "cursor", NEW events \in SUBSET Events, \A e \in events : e.on \in There,
         NEW H \in handleCursorEvent(events)
  PROVE  /\ H.jobs \subseteq Handlers
         /\ \A k \in H.jobs : /\ HandlerOK(k) /\ k.at = "load" /\ k.stage \in {"ack", "relay"} /\ k.key \in events
                              /\ k.stage = "ack" => /\ CursorWanted(k.key) /\ Remembered(k.key) \notin seen
                                                    /\ Remembered(k.key) \in H.seen
                              /\ k.stage = "relay" => Relayed(k.key) /\ k.run = sessions[k.key.on].run
         /\ \A k, m \in H.jobs : k.stage = "ack" /\ m.stage = "ack" /\ Remembered(k.key) = Remembered(m.key) => k = m
         /\ \A k, m \in H.jobs : k.stage = "relay" /\ m.stage = "relay" /\ k.key = m.key => k = m
         /\ H.seen \subseteq Keys
         /\ \A e \in events : CursorWanted(e) => (\E k \in H.jobs : k.key = e) \/ Outcome(e, "same") \in H.dropped
         /\ DOMAIN H.sessions = DOMAIN sessions
         /\ \A t \in DOMAIN sessions :
              /\ H.sessions[t] \in [run : Nat, done : SUBSET Nat] /\ H.sessions[t].run = sessions[t].run
              /\ sessions[t].done \subseteq H.sessions[t].done
              /\ \A e \in events : Relayed(e) /\ e.on = t => e.seq \in H.sessions[t].done
<1> DEFINE W == {e \in events : CursorWanted(e)}
           R == {e \in events : Relayed(e)}
<1>1. PICK F \in Firsts(W) :
        H = [jobs |-> {NewJob(e, "ack", "load", e.on) : e \in F} \cup {Relay(e) : e \in R},
             seen |-> {Remembered(e) : e \in F},
             sessions |-> [t \in DOMAIN sessions |->
                             [sessions[t] EXCEPT !.done = @ \cup {e.seq : e \in {f \in R : f.on = t}}]],
             dropped |-> {Outcome(e, "same") : e \in W \ F}]
  BY DEF handleCursorEvent
<1>2. /\ H.jobs = {NewJob(e, "ack", "load", e.on) : e \in F} \cup {Relay(e) : e \in R}
      /\ H.seen = {Remembered(e) : e \in F}
      /\ H.dropped = {Outcome(e, "same") : e \in W \ F}
      /\ H.sessions = [t \in DOMAIN sessions |->
                             [sessions[t] EXCEPT !.done = @ \cup {e.seq : e \in {f \in R : f.on = t}}]]
  BY <1>1
<1>3. F \subseteq W /\ \A e \in F : Remembered(e) \notin seen /\ \A f \in F : Remembered(e) = Remembered(f) => e = f
  BY DEF Firsts
<1>4. "ack" \in StagesOf(program) /\ "relay" \in StagesOf(program)
  BY DEF StagesOf
<1>5. \A e \in F : LET k == NewJob(e, "ack", "load", e.on)
                   IN k \in Handlers /\ HandlerOK(k) /\ k.key = e /\ k.stage = "ack" /\ k.at = "load"
  BY <1>3, <1>4, NewJobFacts
<1>6. \A e \in R : sessions[e.on].run \in Nat
  BY DEF Relayed, ShapeOK, ChatTypes
<1>7. \A e \in R : LET k == Relay(e)
                   IN /\ k \in Handlers /\ HandlerOK(k) /\ k.key = e /\ k.stage = "relay" /\ k.at = "load"
                      /\ k.run = sessions[e.on].run
  BY <1>4, <1>6, NewHandler DEF Relay
<1>8. ASSUME NEW k \in H.jobs
      PROVE  \/ \E e \in F : k = NewJob(e, "ack", "load", e.on) /\ k.key = e /\ k.stage = "ack"
             \/ \E e \in R : k = Relay(e) /\ k.key = e /\ k.stage = "relay"
  <2>1. CASE \E e \in F : k = NewJob(e, "ack", "load", e.on)
    BY <1>5, <2>1
  <2>2. CASE \E e \in R : k = Relay(e)
    BY <1>7, <2>2
  <2> QED BY <1>2, <2>1, <2>2
<1>9. ASSUME NEW k \in H.jobs
      PROVE  /\ k \in Handlers /\ HandlerOK(k) /\ k.at = "load" /\ k.stage \in {"ack", "relay"} /\ k.key \in events
             /\ k.stage = "ack" => /\ CursorWanted(k.key) /\ Remembered(k.key) \notin seen
                                   /\ Remembered(k.key) \in H.seen
             /\ k.stage = "relay" => Relayed(k.key) /\ k.run = sessions[k.key.on].run
  <2>1. CASE \E e \in F : k = NewJob(e, "ack", "load", e.on) /\ k.key = e /\ k.stage = "ack"
    BY <1>2, <1>3, <1>5, <2>1
  <2>2. CASE \E e \in R : k = Relay(e) /\ k.key = e /\ k.stage = "relay"
    BY <1>7, <2>2
  <2> QED BY <1>8, <2>1, <2>2
<1>10. ASSUME NEW k \in H.jobs, NEW m \in H.jobs, k.stage = "ack", m.stage = "ack", Remembered(k.key) = Remembered(m.key)
       PROVE  k = m
  <2>1. PICK e \in F : k = NewJob(e, "ack", "load", e.on) /\ k.key = e
    BY <1>8, <1>10
  <2>2. PICK f \in F : m = NewJob(f, "ack", "load", f.on) /\ m.key = f
    BY <1>8, <1>10
  <2> QED BY <1>3, <1>10, <2>1, <2>2
<1>11. ASSUME NEW k \in H.jobs, NEW m \in H.jobs, k.stage = "relay", m.stage = "relay", k.key = m.key
       PROVE  k = m
  BY <1>8, <1>11
<1>12. H.seen \subseteq Keys
  <2>1. \A e \in F : Remembered(e) \in Keys
    BY <1>3 DEF Remembered, Event, Events, Keys
  <2> QED BY <1>2, <2>1
<1>13. \A e \in events : CursorWanted(e) => (\E k \in H.jobs : k.key = e) \/ Outcome(e, "same") \in H.dropped
  <2> TAKE e \in events
  <2>1. CASE e \in F
    BY <1>2, <1>5, <2>1
  <2>2. CASE e \notin F
    BY <1>2, <2>2
  <2> QED BY <2>1, <2>2
<1>14. DOMAIN H.sessions = DOMAIN sessions
  BY <1>2
<1>15. ASSUME NEW t \in DOMAIN sessions
       PROVE  /\ H.sessions[t] \in [run : Nat, done : SUBSET Nat] /\ H.sessions[t].run = sessions[t].run
              /\ sessions[t].done \subseteq H.sessions[t].done
              /\ \A e \in events : Relayed(e) /\ e.on = t => e.seq \in H.sessions[t].done
  <2> DEFINE D == {e.seq : e \in {f \in R : f.on = t}}
  <2>1. H.sessions[t] = [sessions[t] EXCEPT !.done = sessions[t].done \cup D]
    BY <1>2
  <2>2. sessions[t] \in [run : Nat, done : SUBSET Nat]
    BY DEF ShapeOK, ChatTypes
  <2>3. D \subseteq Nat /\ \A e \in events : Relayed(e) /\ e.on = t => e.seq \in D
    BY DEF Events
  <2> HIDE DEF D
  <2>4. H.sessions[t] \in [run : Nat, done : SUBSET Nat] /\ H.sessions[t].run = sessions[t].run
        /\ H.sessions[t].done = sessions[t].done \cup D
    BY <2>1, <2>2, <2>3
  <2> QED BY <2>3, <2>4
<1> QED BY <1>9, <1>10, <1>11, <1>12, <1>13, <1>14, <1>15

\* What a step of the cursor agent does that hands events to its handler.
LEMMA CursorTakesUp ==
  ASSUME ShapeOK, program = "cursor", NEW events \in SUBSET Events, \A e \in events : e.on \in There,
         NEW H \in handleCursorEvent(events), jobs' = jobs \cup H.jobs, seen' = seen \cup H.seen,
         sessions' = H.sessions, outcomes' = outcomes \cup H.dropped, Still, UNCHANGED life
  PROVE  /\ TookOnce(H.jobs) /\ TookToRuns(H.jobs) /\ seen' \subseteq Keys
         /\ H.jobs \subseteq Handlers
         /\ \A k \in H.jobs : HandlerOK(k) /\ k.at = "load" /\ k.stage \in {"reply", "answer", "ack", "relay"}
         /\ \A e \in events : WantedBy(e) => Accounted(e)'
<1>1. program' = program /\ seen \subseteq seen'
  BY DEF Still
<1>2. TookOnce(H.jobs)
  <2>1. \A e \in Events : Reopenable(e)' => Reopenable(e)
    BY <1>1 DEF Reopenable, Remembered
  <2>2. \A k \in H.jobs : k.stage # "relay" => Reopenable(k.key) /\ ~Reopenable(k.key)'
    BY <1>1, CursorHandles DEF Reopenable, Remembered
  <2>3. \A k, m \in H.jobs : k.stage # "relay" /\ m.stage # "relay" /\ Same(k.key, m.key) => k = m
    BY CursorHandles DEF Same
  <2> QED BY <2>1, <2>2, <2>3 DEF TookOnce
<1>3. TookToRuns(H.jobs)
  <2>1. \A k \in H.jobs : k.stage = "ack" /\ k.key.kind = "message" => InPrivate(k.key.on)
    BY CursorHandles DEF CursorWanted
  <2>2. \A k \in H.jobs : k.stage = "relay" => /\ k.key.kind = "message" /\ k.key.on \in DOMAIN sessions
                                               /\ k.run = sessions[k.key.on].run
                                               /\ k.key.seq \notin sessions[k.key.on].done
    BY CursorHandles DEF Relayed
  <2>3. \A k \in H.jobs : k.stage = "relay" => k.key.seq \in sessions'[k.key.on].done
    BY <2>2, CursorHandles
  <2>4. \A k, m \in H.jobs : k.stage = "relay" /\ m.stage = "relay" /\ k.key = m.key => k = m
    BY CursorHandles
  <2>5. /\ DOMAIN sessions' = DOMAIN sessions
        /\ \A t \in DOMAIN sessions : /\ sessions'[t] \in [run : Nat, done : SUBSET Nat]
                                      /\ sessions'[t].run = sessions[t].run
                                      /\ sessions[t].done \subseteq sessions'[t].done
    BY CursorHandles
  <2> QED BY <2>1, <2>2, <2>3, <2>4, <2>5 DEF TookToRuns
<1>4. seen' \subseteq Keys
  BY CursorHandles DEF ShapeOK, PollTypes
<1>5. ASSUME NEW e \in events, WantedBy(e)  PROVE Accounted(e)'
  <2>1. CursorWanted(e)
    BY <1>5 DEF WantedBy
  <2>2. CASE \E k \in H.jobs : k.key = e
    BY <2>2 DEF Accounted
  <2>3. CASE Outcome(e, "same") \in H.dropped
    BY <2>3 DEF Accounted, Taken, Outcome
  <2> QED BY <2>1, <2>2, <2>3, CursorHandles
<1>6. \A k \in H.jobs : HandlerOK(k) /\ k.at = "load" /\ k.stage \in {"reply", "answer", "ack", "relay"}
  BY CursorHandles
<1>7. H.jobs \subseteq Handlers
  BY CursorHandles
<1> QED BY <1>2, <1>3, <1>4, <1>5, <1>6, <1>7

LEMMA CursorTakes ==
  ASSUME ShapeOK, SettledInv, program = "cursor", TakeForCursor
  PROVE  TakenUp
<1>1. /\ Still /\ UNCHANGED <<life, last, from, conn, subs, runs>> /\ life.up /\ scan.at = "page"
  BY ServerStill DEF TakeForCursor
<1>2. PICK e \in NextOf(scan.page) : \E H \in handleCursorEvent({e}) :
       /\ scan' = [scan EXCEPT !.page = @ \ {e}]
       /\ jobs' = jobs \cup H.jobs /\ seen' = seen \cup H.seen
       /\ sessions' = H.sessions /\ outcomes' = outcomes \cup H.dropped
  BY DEF TakeForCursor
<1>3. PICK H \in handleCursorEvent({e}) :
       /\ scan' = [scan EXCEPT !.page = @ \ {e}]
       /\ jobs' = jobs \cup H.jobs /\ seen' = seen \cup H.seen
       /\ sessions' = H.sessions /\ outcomes' = outcomes \cup H.dropped
  BY <1>2
<1>4. e \in scan.page /\ e \in Events /\ e.on \in There
  BY ScanFacts DEF NextOf, ShapeOK, LoopOK
<1>5. scan' \in Scans /\ scan'.at = scan.at /\ scan'.left = scan.left /\ scan'.chans = scan.chans
      /\ scan'.cut = scan.cut /\ scan'.max = scan.max /\ scan'.page = scan.page \ {e}
  BY <1>3, ScanFacts DEF Scans
<1>6. /\ TookOnce(H.jobs) /\ TookToRuns(H.jobs) /\ seen' \subseteq Keys /\ H.jobs \subseteq Handlers
      /\ \A k \in H.jobs : HandlerOK(k) /\ k.at = "load" /\ k.stage \in {"reply", "answer", "ack", "relay"}
      /\ WantedBy(e) => Accounted(e)'
  <2>1. {e} \in SUBSET Events /\ \A f \in {e} : f.on \in There
    BY <1>4
  <2>2. /\ TookOnce(H.jobs) /\ TookToRuns(H.jobs) /\ seen' \subseteq Keys /\ H.jobs \subseteq Handlers
        /\ \A k \in H.jobs : HandlerOK(k) /\ k.at = "load" /\ k.stage \in {"reply", "answer", "ack", "relay"}
        /\ \A f \in {e} : WantedBy(f) => Accounted(f)'
    BY <1>1, <1>3, <2>1, CursorTakesUp
  <2> QED BY <2>2
<1>7. TookUp(H.jobs)
  BY <1>1, <1>3, <1>5, <1>6 DEF TookUp
<1>8. TookAll
  <2>1. last[Head(scan.left)] <= scan.max
    BY <1>1 DEF SettledInv, PageOK
  <2>2. \A s \in Streams : last[s] \in Nat /\ Len(messages[s]) \in Nat /\ last[s] <= Len(messages[s])
    BY DEF ShapeOK, LoopOK, PollTypes, WorldTypes
  <2>3. ASSUME NEW s \in Streams, NEW f \in EventsAfter(s, last[s])  PROVE ~(f.seq <= last[s])
    <3>1. f.seq \in last[s] + 1 .. Len(messages[s])
      BY <2>2, EventsAreThese
    <3> QED BY <2>2, <3>1
  <2>4. last' \in [Streams -> Nat] /\ last' = last
    BY <1>1 DEF ShapeOK, PollTypes
  <2>5. \A f \in scan.page \ scan'.page : WantedBy(f) => Accounted(f)'
    BY <1>5, <1>6
  <2> QED BY <2>1, <2>2, <2>3, <2>4, <2>5 DEF TookAll
<1> QED BY <1>6, <1>7, <1>8 DEF TakenUp

LEMMA CursorReceives ==
  ASSUME ShapeOK, program = "cursor", NEW s \in Waiting, NEW H \in CursorHandlers(s, last[s] + 1), Receive(s, H)
  PROVE  TakenUp
<1>1. /\ Still /\ UNCHANGED <<life, from, conn, subs, runs, scan>> /\ InWS
      /\ jobs' = jobs \cup H.jobs /\ seen' = seen \cup H.seen /\ sessions' = H.sessions
      /\ outcomes' = outcomes \cup H.dropped
  BY ReceiveFacts
<1>2. /\ s \in There /\ scan.at = "stream" /\ life.up
      /\ \A e \in EventsOf(s, last[s] + 1) : e \in Events /\ e.on = s
  BY <1>1, NextMessage
<1>3. H \in handleCursorEvent(EventsOf(s, last[s] + 1))
  BY DEF CursorHandlers
<1>4. EventsOf(s, last[s] + 1) \in SUBSET Events /\ \A e \in EventsOf(s, last[s] + 1) : e.on \in There
  BY <1>2
<1>5. /\ TookOnce(H.jobs) /\ TookToRuns(H.jobs) /\ seen' \subseteq Keys /\ H.jobs \subseteq Handlers
      /\ \A k \in H.jobs : HandlerOK(k) /\ k.at = "load" /\ k.stage \in {"reply", "answer", "ack", "relay"}
      /\ \A e \in EventsOf(s, last[s] + 1) : WantedBy(e) => Accounted(e)'
  BY <1>1, <1>3, <1>4, CursorTakesUp
<1>6. scan' \in Scans
  BY <1>1 DEF ShapeOK, PollTypes
<1>7. TookUp(H.jobs)
  BY <1>1, <1>2, <1>5, <1>6 DEF TookUp
<1>8. TookAll
  BY <1>5, ReceivedAll
<1> QED BY <1>5, <1>7, <1>8 DEF TakenUp

(***************************************************************************)
(* The cursor agent launches, watches and tells its runs.                  *)
(***************************************************************************)
\* The runs are the same, whether one is known to have ended or not.
RunsStay ==
  /\ runs' \in Seq(Launches) /\ Len(runs') = Len(runs)
  /\ \A r \in DOMAIN runs : runs'[r].key = runs[r].key /\ runs'[r].life = runs[r].life /\ runs'[r].heard = runs[r].heard
\* A handler of the cursor agent goes on from one of its steps to the next.
Launch(j, k) ==
  /\ j.stage = "ack" /\ k.stage \in {"running", "error"} /\ UNCHANGED sessions
  /\ k.stage = "error" => k.run = j.run
  /\ \/ /\ runs' = Append(runs, [key |-> j.key, life |-> life.n, heard |-> <<>>, up |-> TRUE])
        /\ k.stage = "running" => k.run = Len(runs) + 1
     \/ k.stage = "error" /\ UNCHANGED runs
Watch(j, k) ==
  /\ j.stage = "running" /\ k.stage = "final" /\ k.run = j.run /\ UNCHANGED runs
  /\ sessions' = [t \in DOMAIN sessions \cup {j.to} |->
                    IF t = j.to THEN [run |-> j.run, done |-> {j.key.seq}] ELSE sessions[t]]
Tell(j, k) ==
  /\ Untold(j) /\ k.stage = "relay" /\ ~Untold(k) /\ k.run = j.run /\ UNCHANGED sessions
  /\ UNCHANGED runs \/ runs' = [runs EXCEPT ![j.run].heard = Append(@, <<j.key.on, j.key.seq>>)]
CursorWork(j, k) ==
  /\ Still /\ UNCHANGED <<life, seen, last, from, scan, conn, subs>> /\ program = "cursor"
  /\ Becomes(j, k) /\ k \in Handlers /\ HandlerOK(k) /\ k.key = j.key /\ k.to = j.to
  /\ k.stage \in {"running", "error", "final", "relay"} /\ j.key \in Events
  /\ outcomes \subseteq outcomes' /\ (k.stage = "final" => j.stage = "final" \/ Taken(j.key)')
  /\ runs' \in Seq(Launches)
  /\ \/ Launch(j, k) \/ Watch(j, k) \/ Tell(j, k)
     \/ j.stage = "final" /\ k.stage = "final" /\ k.run = j.run /\ RunsStay /\ UNCHANGED sessions

LEMMA GoesOnWith ==
  ASSUME ShapeOK, program = "cursor", NEW j \in jobs, j.key \in Events, j.back \in {None, "append"},
         NEW stage \in {"running", "error", "final", "relay"}, stage \in {"running", "final"} => j.to \in Threads,
         NEW run \in Nat
  PROVE  LET n == Again(j, stage)
             k == [n EXCEPT !.run = run]
         IN /\ n \in Handlers /\ HandlerOK(n) /\ n.key = j.key /\ n.to = j.to /\ n.stage = stage /\ n.at = "append"
            /\ n.run = j.run
            /\ k \in Handlers /\ HandlerOK(k) /\ k.key = j.key /\ k.to = j.to /\ k.stage = stage /\ k.at = "append"
            /\ k.run = run
<1> DEFINE n == Again(j, stage)
           k == [n EXCEPT !.run = run]
<1>1. j \in Handlers /\ j.to \in There /\ j.key.on \in There
  BY HandlerFacts DEF StagesOf
<1>2. stage \in Stages /\ stage \notin {"arrival", "periodic"} /\ stage \notin {"ack", "norepo"} /\ stage \in StagesOf(program)
  BY DEF Stages, StagesOf
<1>3. n \in Handlers /\ n.key = j.key /\ n.to = j.to /\ n.stage = stage /\ n.at = "append" /\ n.run = j.run
      /\ n.back = j.back /\ n.out = None
  BY <1>1, <1>2 DEF Again, Handlers
<1> HIDE DEF n
<1>4. k \in Handlers /\ k.key = j.key /\ k.to = j.to /\ k.stage = stage /\ k.at = "append" /\ k.run = run
      /\ k.back = j.back /\ k.out = None
  BY <1>3 DEF Handlers
<1> HIDE DEF k
<1>5. Placed(k) /\ Placed(n)
  BY <1>2, <1>3, <1>4, WorldConstants DEF Placed
<1>6. HandlerOK(k) /\ HandlerOK(n)
  BY <1>1, <1>2, <1>3, <1>4, <1>5 DEF HandlerOK
<1> QED BY <1>3, <1>4, <1>6 DEF k, n

LEMMA InvocationWorks ==
  ASSUME ShapeOK, program = "cursor", NEW j \in jobs, handleInvocation(j)
  PROVE  \E k : CursorWork(j, k)
<1>1. /\ j.stage = "ack" /\ j.at = "done" /\ j.out = "ok" /\ UNCHANGED <<life, scan, sessions, outcomes>>
      /\ Still /\ UNCHANGED <<program, seen, last, from, conn, subs>>
  BY CursorIsStill DEF handleInvocation
<1>2. j.key \in Events /\ j.back = None /\ j.to \in Threads
  BY <1>1, HandlerFacts DEF Placed
<1>3. runs \in Seq(Launches) /\ Len(runs) \in Nat /\ life.n \in Nat
  BY DEF ShapeOK, ChatTypes, WorldTypes
<1> DEFINE new == [key |-> j.key, life |-> life.n, heard |-> <<>>, up |-> TRUE]
<1>4. Append(runs, new) \in Seq(Launches)
  <2>1. new \in Launches
    BY <1>2, <1>3 DEF Launches
  <2> HIDE DEF new
  <2> QED BY <1>3, <2>1
<1>5. CASE runs' = Append(runs, new) /\ Becomes(j, [Again(j, "running") EXCEPT !.run = Len(runs) + 1])
  <2>1. PICK r \in Nat : r = Len(runs) + 1
    BY <1>3
  <2> DEFINE k == [Again(j, "running") EXCEPT !.run = r]
  <2>2. k \in Handlers /\ HandlerOK(k) /\ k.key = j.key /\ k.to = j.to /\ k.stage = "running" /\ k.run = r
    BY <1>2, GoesOnWith
  <2>3. Becomes(j, k) /\ runs' = Append(runs, new)
    BY <1>5, <2>1
  <2> HIDE DEF k
  <2>4. Launch(j, k)
    BY <1>1, <2>1, <2>2, <2>3 DEF Launch
  <2> QED BY <1>1, <1>2, <1>4, <2>2, <2>3, <2>4 DEF CursorWork
<1>6. CASE Becomes(j, Again(j, "error")) /\ (runs' = Append(runs, new) \/ UNCHANGED runs)
  <2> DEFINE k == Again(j, "error")
  <2>1. k \in Handlers /\ HandlerOK(k) /\ k.key = j.key /\ k.to = j.to /\ k.stage = "error" /\ k.run = j.run
    BY <1>2, <1>3, GoesOnWith
  <2>2. Becomes(j, k)
    BY <1>6
  <2> HIDE DEF k
  <2>3. Launch(j, k) /\ runs' \in Seq(Launches)
    BY <1>1, <1>3, <1>4, <1>6, <2>1 DEF Launch
  <2> QED BY <1>1, <1>2, <2>1, <2>2, <2>3 DEF CursorWork
<1> QED BY <1>5, <1>6 DEF handleInvocation

LEMMA LaunchedWorks ==
  ASSUME ShapeOK, program = "cursor", NEW j \in jobs, Launched(j)
  PROVE  \E k : CursorWork(j, k)
<1>1. /\ j.stage = "running" /\ j.at = "done" /\ UNCHANGED <<life, scan, runs, budget>>
      /\ Still /\ UNCHANGED <<program, seen, last, from, conn, subs>>
      /\ Note(j.key, "launched") /\ Becomes(j, [NewJob(j.key, "final", "watch", j.to) EXCEPT !.run = j.run])
      /\ sessions' = [t \in DOMAIN sessions \cup {j.to} |->
                        IF t = j.to THEN [run |-> j.run, done |-> {j.key.seq}] ELSE sessions[t]]
  BY CursorIsStill DEF Launched
<1>2. j.key \in Events /\ j.to \in Threads /\ j \in Handlers /\ j.to \in There /\ j.key.on \in There /\ j.run \in Nat
  BY <1>1, HandlerFacts DEF Placed, Handlers
<1> DEFINE n == NewJob(j.key, "final", "watch", j.to)
           k == [n EXCEPT !.run = j.run]
<1>3. n = [key |-> j.key, stage |-> "final", at |-> "watch", to |-> j.to, run |-> 0, wait |-> TRUE, back |-> None,
           req |-> 0, out |-> None]
  BY DEF NewJob
<1>4. "final" \in Stages /\ j.to \in Streams /\ "final" \in StagesOf(program)
  BY <1>2, ChannelsAreStreams DEF Stages, StagesOf
<1>5. n \in Handlers /\ n.key = j.key /\ n.to = j.to /\ n.stage = "final" /\ n.at = "watch" /\ n.back = None /\ n.out = None
  <2> HIDE DEF n
  <2> QED BY <1>2, <1>3, <1>4 DEF Handlers
<1>6. Becomes(j, k)
  BY <1>1
<1> HIDE DEF n
<1>7. k \in Handlers /\ k.key = j.key /\ k.to = j.to /\ k.stage = "final" /\ k.at = "watch" /\ k.back = None
      /\ k.out = None /\ k.run = j.run
  BY <1>2, <1>5 DEF Handlers
<1> HIDE DEF k
<1>8. Placed(k)
  BY <1>2, <1>7, WorldConstants DEF Placed
<1>9. HandlerOK(k)
  BY <1>2, <1>4, <1>7, <1>8 DEF HandlerOK
<1>10. Watch(j, k) /\ runs' \in Seq(Launches)
  BY <1>1, <1>7 DEF Watch, ShapeOK, ChatTypes
<1> QED BY <1>1, <1>2, <1>6, <1>7, <1>9, <1>10, NotedIsTaken DEF CursorWork

LEMMA RunsAlike ==
  ASSUME ShapeOK, NEW i, NEW up \in BOOLEAN, runs' = [runs EXCEPT ![i].up = up]
  PROVE  RunsStay
<1>1. runs \in Seq(Launches)
  BY DEF ShapeOK, ChatTypes
<1>2. CASE i \in DOMAIN runs
  <2> DEFINE l == runs[i]
             x == [l EXCEPT !.up = up]
  <2>1. l \in Launches
    BY <1>1, <1>2
  <2>2. runs' = [runs EXCEPT ![i] = x]
    OBVIOUS
  <2>3. l = runs[i]
    OBVIOUS
  <2> HIDE DEF l
  <2>4. x \in Launches /\ x.key = l.key /\ x.life = l.life /\ x.heard = l.heard
    BY <2>1 DEF Launches
  <2> HIDE DEF x
  <2> QED BY <1>1, <1>2, <2>2, <2>3, <2>4 DEF RunsStay
<1>3. CASE i \notin DOMAIN runs
  <2>1. runs' = runs
    BY <1>1, <1>3
  <2> QED BY <1>1, <2>1 DEF RunsStay
<1> QED BY <1>2, <1>3

LEMMA WatchWorks ==
  ASSUME ShapeOK, program = "cursor", NEW j \in jobs, waitForTerminal(j)
  PROVE  \E k : CursorWork(j, k)
<1>1. /\ j.at = "watch" /\ UNCHANGED <<life, scan, sessions, outcomes, budget>>
      /\ Still /\ UNCHANGED <<program, seen, last, from, conn, subs>>
  BY CursorIsStill DEF waitForTerminal
<1>2. j.stage = "final" /\ j.key \in Events /\ j.to \in Threads /\ j.back \in {None, "append"} /\ j.run \in Nat
  BY <1>1, HandlerFacts DEF Placed, Handlers
<1> DEFINE k == Again(j, "final")
<1>3. k \in Handlers /\ HandlerOK(k) /\ k.key = j.key /\ k.to = j.to /\ k.stage = "final" /\ k.run = j.run
  BY <1>2, GoesOnWith
<1>4. RunsStay
  BY RunsAlike DEF waitForTerminal
<1>5. Becomes(j, k)
  BY DEF waitForTerminal
<1> HIDE DEF k
<1> QED BY <1>1, <1>2, <1>3, <1>4, <1>5 DEF CursorWork, RunsStay

LEMMA TellWorks ==
  ASSUME ShapeOK, program = "cursor", NEW j \in jobs, relayThreadMessageToCursor(j), j.at = "followup"
  PROVE  \E k : CursorWork(j, k)
<1>1. /\ j.stage = "relay" /\ UNCHANGED <<life, scan, sessions, outcomes>>
      /\ Still /\ UNCHANGED <<program, seen, last, from, conn, subs>>
  BY CursorIsStill DEF relayThreadMessageToCursor
<1>2. j.key \in Events /\ j.back \in {None, "append"} /\ j.run \in Nat /\ Untold(j) /\ j.key.on \in Streams /\ j.key.seq \in Nat
  BY <1>1, HandlerFacts DEF Placed, Handlers, Untold, Events
<1>3. runs' \in Seq(Launches)
      /\ (UNCHANGED runs \/ runs' = [runs EXCEPT ![j.run].heard = Append(@, <<j.key.on, j.key.seq>>)])
  <2>1. runs \in Seq(Launches)
    BY DEF ShapeOK, ChatTypes
  <2>2. CASE runs' = [runs EXCEPT ![j.run].heard = Append(@, <<j.key.on, j.key.seq>>)]
    <3>1. CASE j.run \in DOMAIN runs
      <4> DEFINE h == Append(runs[j.run].heard, <<j.key.on, j.key.seq>>)
                 x == [runs[j.run] EXCEPT !.heard = h]
      <4>1. runs[j.run] \in Launches
        BY <2>1, <3>1
      <4>2. h \in Seq(Streams \X Nat)
        BY <1>2, <4>1 DEF Launches
      <4>3. runs' = [runs EXCEPT ![j.run] = x]
        BY <2>2
      <4> HIDE DEF h
      <4>4. x \in Launches
        BY <4>1, <4>2 DEF Launches
      <4> HIDE DEF x
      <4> QED BY <2>1, <2>2, <3>1, <4>3, <4>4
    <3>2. CASE j.run \notin DOMAIN runs
      <4> DEFINE x == [runs[j.run] EXCEPT !.heard = Append(runs[j.run].heard, <<j.key.on, j.key.seq>>)]
      <4>1. runs' = [runs EXCEPT ![j.run] = x]
        BY <2>2
      <4> HIDE DEF x
      <4>2. runs' = runs
        BY <2>1, <3>2, <4>1
      <4> QED BY <2>1, <4>2
    <3> QED BY <3>1, <3>2
  <2> QED BY <1>1, <2>1, <2>2 DEF relayThreadMessageToCursor
<1>4. ASSUME NEW k, Becomes(j, k), k \in Handlers, HandlerOK(k), k.key = j.key, k.to = j.to, k.stage = "relay",
             k.run = j.run, k.at \in {"append", "done"}
      PROVE  CursorWork(j, k)
  <2>1. Tell(j, k)
    BY <1>1, <1>2, <1>3, <1>4 DEF Tell, Untold
  <2> QED BY <1>1, <1>2, <1>3, <1>4, <2>1 DEF CursorWork
<1>5. CASE Becomes(j, Again(j, "relay"))
  <2> DEFINE k == Again(j, "relay")
  <2>1. k \in Handlers /\ HandlerOK(k) /\ k.key = j.key /\ k.to = j.to /\ k.stage = "relay" /\ k.run = j.run /\ k.at = "append"
    BY <1>2, GoesOnWith
  <2>2. Becomes(j, k)
    BY <1>5
  <2> HIDE DEF k
  <2> QED BY <1>4, <2>1, <2>2
<1>6. CASE Becomes(j, Ends(j, "thrown"))
  <2> DEFINE k == Ends(j, "thrown")
  <2>1. "thrown" \in Outs /\ j.at # "done"
    BY DEF Outs
  <2>2. /\ GoesOn(j, k) /\ Placed(k) /\ k.stage = j.stage /\ k.key = j.key /\ k.to = j.to /\ k.at = "done" /\ HandlerOK(j)
    BY <2>1, EndsWell
  <2>3. Becomes(j, k)
    BY <1>6
  <2> HIDE DEF k
  <2>4. HandlerOK(k)
    BY <2>2 DEF HandlerOK
  <2> QED BY <1>1, <1>4, <2>2, <2>3, <2>4 DEF GoesOn
<1> QED BY <1>1, <1>5, <1>6 DEF relayThreadMessageToCursor, AnsweredOrLost

LEMMA CursorWorkShape ==
  ASSUME ShapeOK, NEW j \in jobs, NEW k, CursorWork(j, k)
  PROVE  ShapeOK'
<1>1. /\ Still /\ UNCHANGED <<life, seen, last, from, scan, conn, subs>> /\ program = "cursor"
      /\ jobs' = (jobs \ {j}) \cup {k} /\ k \in Handlers /\ HandlerOK(k)
  BY DEF CursorWork, Becomes
<1>2. WorldTypes' /\ There' = There
  BY <1>1, StillTypes DEF ShapeOK, WorldTypes
<1>3. PollTypes'
  BY <1>1 DEF ShapeOK, PollTypes
<1>4. DOMAIN sessions' \subseteq Threads /\ \A t \in DOMAIN sessions' : sessions'[t] \in [run : Nat, done : SUBSET Nat]
  <2>1. CASE UNCHANGED sessions
    BY <2>1 DEF ShapeOK, ChatTypes
  <2>2. CASE Watch(j, k)
    <3>1. j.to \in Threads /\ j.run \in Nat /\ j.key \in Events /\ j.key.seq \in Nat
      BY <2>2, HandlerFacts DEF Watch, Placed, Handlers, Events
    <3> QED BY <2>2, <3>1 DEF Watch, ShapeOK, ChatTypes
  <2> QED BY <2>1, <2>2 DEF CursorWork, Launch, Tell
<1>5. ChatTypes'
  BY <1>1, <1>4 DEF ShapeOK, ChatTypes, CursorWork
<1>6. HandlersOK'
  <2>1. HandlerOK(k)'
    BY <1>1, <1>2 DEF HandlerOK, Still
  <2>2. \A i \in jobs : HandlerOK(i)'
    BY <1>1, <1>2, HandlersStay DEF Still
  <2> QED BY <1>1, <2>1, <2>2 DEF HandlersOK
<1>7. LoopOK'
  BY <1>1, <1>2 DEF ShapeOK, LoopOK, Still
<1> QED BY <1>2, <1>3, <1>5, <1>6, <1>7 DEF ShapeOK

(***************************************************************************)
(* Every step is of one of these kinds, and leaves the state well formed.  *)
(***************************************************************************)
LEMMA ReadPages ==
  ASSUME ShapeOK, listStreamEvents(FALSE) \/ listStreamEvents(Abandon), UNCHANGED chatVars
  PROVE  Paged \/ (Loop("read") /\ Abandon)
<1>1. Loop("read")
  BY DEF listStreamEvents
<1>2. CASE \E P \in Pages(Head(scan.left), last[Head(scan.left)]) :
             /\ scan' = [scan EXCEPT !.at = "page", !.page = P, !.max = Max({e.seq : e \in P} \cup {last[Head(scan.left)]}),
                           !.cut = {e \in EventsAfter(Head(scan.left), last[Head(scan.left)]) \ P :
                                      e.seq = Max({f.seq : f \in P} \cup {last[Head(scan.left)]})}]
             /\ UNCHANGED <<life, jobs, budget>>
  BY <1>1, <1>2, ReadIsPaged
<1>3. CASE Abandon
  BY <1>1, <1>3
<1> QED BY <1>2, <1>3 DEF listStreamEvents

\* Every step is one of these.
AgentStep ==
  \/ UserStep \/ (Start /\ UNCHANGED chatVars) \/ Stopped \/ Moved \/ Paged \/ Turned \/ Sought \/ Begun \/ TakenUp
  \/ \E j \in jobs : ClientStep(j) \/ Dropped(j) \/ \E k : CursorWork(j, k)
  \/ UNCHANGED allVars

LEMMA PoetSteps ==
  ASSUME ShapeOK, SettledInv, life.up, program = "poet", Poet, UNCHANGED chatVars
  PROVE  AgentStep
<1>1. CASE Registers(registerCommand, "idle")
  BY <1>1, RegistersMoves DEF AgentStep
<1>2. CASE Tick("periodic")
  BY <1>2, TickMoves DEF AgentStep
<1>3. CASE postPeriodicPoem
  BY <1>3, PoemBegins DEF AgentStep
<1>4. CASE listThreads
  BY <1>4, ListMoves DEF AgentStep
<1>5. CASE listStreamEvents(Abandon)
  BY <1>5, ReadPages, AbandonMoves DEF AgentStep, Loop
<1>6. CASE Take
  BY <1>6, TakeTakes DEF AgentStep
<1>7. CASE EndOfPage({e \in scan.cut : Wanted(e)})
  <2>1. {e \in scan.cut : Wanted(e)} = {e \in scan.cut : WantedBy(e)}
    BY DEF WantedBy
  <2> QED BY <1>7, <2>1, EndTurns DEF AgentStep
<1>8. ASSUME NEW j \in jobs, UNCHANGED pollVars,
             createThread(j) \/ createChannel(j) \/ openPermissionRequest(j) \/ append(j) \/ poetWait(j) \/ resolvePrompt(j)
      PROVE  ClientStep(j)
  <2>1. CASE createThread(j)
    BY <1>8, <2>1, CreateThreadStep
  <2>2. CASE createChannel(j)
    BY <1>8, <2>2, CreateChannelStep
  <2>3. CASE openPermissionRequest(j)
    BY <1>8, <2>3, RequestStep
  <2>4. CASE append(j)
    BY <1>8, <2>4, AppendStep
  <2>5. CASE poetWait(j)
    BY <1>8, <2>5, WaitStep DEF poetWait
  <2>6. CASE resolvePrompt(j)
    BY <1>8, <2>6, ComposeStep
  <2> QED BY <1>8, <2>1, <2>2, <2>3, <2>4, <2>5, <2>6
<1>9. ASSUME NEW j \in jobs, Finished(j) \/ PostedPoem(j)  PROVE Dropped(j)
  BY <1>9, FinishedDrops, PoemDrops
<1> QED BY <1>1, <1>2, <1>3, <1>4, <1>5, <1>6, <1>7, <1>8, <1>9 DEF Poet, AgentStep

LEMMA WeatherSteps ==
  ASSUME ShapeOK, SettledInv, life.up, program = "weather", Weather, UNCHANGED chatVars
  PROVE  AgentStep
<1>1. CASE weatherRegisters
  BY <1>1, RegistersMoves DEF AgentStep, weatherRegisters, weatherRegisterCommand
<1>2. CASE weatherTick
  BY <1>2, TickMoves, RoundIs DEF AgentStep, weatherTick
<1>3. CASE weatherThreads
  BY <1>3, ListMoves DEF AgentStep, weatherThreads
<1>4. CASE weatherListStreamEvents
  BY <1>4, ReadPages, AbandonMoves DEF AgentStep, Loop, weatherListStreamEvents
<1>5. CASE weatherTake
  BY <1>5, TakeTakes DEF AgentStep, weatherTake
<1>6. CASE EndOfPage({e \in scan.cut : Wanted(e)})
  <2>1. {e \in scan.cut : Wanted(e)} = {e \in scan.cut : WantedBy(e)}
    BY DEF WantedBy
  <2> QED BY <1>6, <2>1, EndTurns DEF AgentStep
<1>7. ASSUME NEW j \in jobs, UNCHANGED pollVars,
             weatherCreateThread(j) \/ weatherOpenPermissionRequest(j) \/ weatherAppendParts(j) \/ weatherWait(j)
             \/ resolveWeatherArgs(j)
      PROVE  ClientStep(j)
  <2>1. CASE weatherCreateThread(j)
    BY <1>7, <2>1, CreateThreadStep DEF weatherCreateThread
  <2>2. CASE weatherOpenPermissionRequest(j)
    BY <1>7, <2>2, RequestStep DEF weatherOpenPermissionRequest
  <2>3. CASE weatherAppendParts(j)
    BY <1>7, <2>3, AppendStep DEF weatherAppendParts
  <2>4. CASE weatherWait(j)
    BY <1>7, <2>4, WaitStep DEF weatherWait
  <2>5. CASE resolveWeatherArgs(j)
    BY <1>7, <2>5, ComposeStep
  <2> QED BY <1>7, <2>1, <2>2, <2>3, <2>4, <2>5
<1>8. ASSUME NEW j \in jobs, weatherFinish(j)  PROVE Dropped(j)
  BY <1>8, FinishedDrops DEF weatherFinish
<1> QED BY <1>1, <1>2, <1>3, <1>4, <1>5, <1>6, <1>7, <1>8 DEF Weather, AgentStep

LEMMA AssistantSteps ==
  ASSUME ShapeOK, SettledInv, life.up, program = "assistant", Assistant
  PROVE  AgentStep
<1>1. CASE ensureGeneralChannel
  BY <1>1, ArrivalBegins DEF AgentStep
<1>2. CASE Connect("seek")
  BY <1>2, ConnectMoves DEF AgentStep
<1>3. CASE Close \/ Drained
  BY <1>3, CloseMoves, DrainedStops DEF AgentStep
<1>4. ASSUME NEW s \in Waiting, NEW H \in AssistantHandlers(s, last[s] + 1), Receive(s, H)  PROVE AgentStep
  BY <1>4, AssistantReceives DEF AgentStep
<1>5. CASE Seek
  BY <1>5, SeekSeeks DEF AgentStep
<1>6. CASE assistantListStreamEvents /\ UNCHANGED chatVars
  <2>1. listStreamEvents(FALSE)
    BY <1>6 DEF assistantListStreamEvents
  <2>2. CASE Paged
    BY <2>2 DEF AgentStep
  <2>3. ~(Loop("read") /\ Abandon) \/ Paged
    <3>1. ~Paged => FALSE
      <4>1. \E P \in Pages(Head(scan.left), last[Head(scan.left)]) :
             /\ scan' = [scan EXCEPT !.at = "page", !.page = P, !.max = Max({e.seq : e \in P} \cup {last[Head(scan.left)]}),
                           !.cut = {e \in EventsAfter(Head(scan.left), last[Head(scan.left)]) \ P :
                                      e.seq = Max({f.seq : f \in P} \cup {last[Head(scan.left)]})}]
             /\ UNCHANGED <<life, jobs, budget>>
        BY <2>1 DEF listStreamEvents
      <4> QED BY <1>6, <2>1, <4>1, ReadIsPaged DEF listStreamEvents
    <3> QED BY <3>1
  <2> QED BY <1>6, <2>1, <2>2, <2>3, ReadPages
<1>7. CASE TakeForAssistant /\ UNCHANGED chatVars
  BY <1>7, AssistantTakes DEF AgentStep
<1>8. CASE Around /\ UNCHANGED chatVars
  BY <1>8, AroundTurns DEF AgentStep
<1>9. CASE Loop("read") /\ Leave /\ Fault
  BY <1>9, LeaveLoopStops DEF AgentStep
<1>10. ASSUME NEW j \in jobs, sendArrivalMessage(j) \/ publishAgentTrace(j)  PROVE AgentStep
  BY <1>10, ArrivalDrops, TraceDrops DEF AgentStep
<1>11. ASSUME NEW j \in jobs, UNCHANGED <<pollVars, chatVars>>,
              assistantCreateChannel(j) \/ assistantOpenPermissionRequest(j) \/ assistantAppendMessage(j)
              \/ assistantAppendParts(j) \/ postMessageTool(j) \/ assistantWait(j) \/ handleIncomingMessage(j)
       PROVE  ClientStep(j)
  <2>1. CASE assistantCreateChannel(j)
    BY <1>11, <2>1, CreateChannelStep DEF assistantCreateChannel
  <2>2. CASE assistantOpenPermissionRequest(j)
    BY <1>11, <2>2, RequestStep DEF assistantOpenPermissionRequest
  <2>3. CASE assistantAppendMessage(j) \/ assistantAppendParts(j) \/ postMessageTool(j)
    BY <1>11, <2>3, AppendStep DEF assistantAppendMessage, assistantAppendParts, postMessageTool
  <2>4. CASE assistantWait(j)
    BY <1>11, <2>4, WaitStep DEF assistantWait
  <2>5. CASE handleIncomingMessage(j)
    BY <1>11, <2>5, IncomingStep
  <2> QED BY <1>11, <2>1, <2>2, <2>3, <2>4, <2>5
<1> QED BY <1>1, <1>2, <1>3, <1>4, <1>5, <1>6, <1>7, <1>8, <1>9, <1>10, <1>11 DEF Assistant, AgentStep

LEMMA CursorSteps ==
  ASSUME ShapeOK, SettledInv, life.up, program = "cursor", Cursor
  PROVE  AgentStep
<1>1. CASE cursorRegisters /\ UNCHANGED chatVars
  BY <1>1, RegistersMoves DEF AgentStep, cursorRegisters, cursorRegisterCommand
<1>2. CASE Connect("idle")
  BY <1>2, ConnectMoves DEF AgentStep
<1>3. CASE Close \/ Drained
  BY <1>3, CloseMoves, DrainedStops DEF AgentStep
<1>4. ASSUME NEW s \in Waiting, NEW H \in CursorHandlers(s, last[s] + 1), Receive(s, H)  PROVE AgentStep
  BY <1>4, CursorReceives DEF AgentStep
<1>5. CASE syncDiscoveredStreams
  BY <1>5, DiscoveredMoves DEF AgentStep
<1>6. CASE CursorTick
  BY <1>6, CursorTickMoves DEF AgentStep
<1>7. CASE TakeForCursor
  BY <1>7, CursorTakes DEF AgentStep
<1>8. CASE cursorListThreads /\ UNCHANGED chatVars
  BY <1>8, ListMoves DEF AgentStep, cursorListThreads
<1>9. CASE cursorListStreamEvents /\ UNCHANGED chatVars
  BY <1>9, ReadPages, AbandonMoves DEF AgentStep, Loop, cursorListStreamEvents
<1>10. CASE EndOfPage({e \in scan.cut : CursorWanted(e)}) /\ UNCHANGED chatVars
  <2>1. {e \in scan.cut : CursorWanted(e)} = {e \in scan.cut : WantedBy(e)}
    BY DEF WantedBy
  <2> QED BY <1>10, <2>1, EndTurns DEF AgentStep
<1>11. CASE Loop("read") /\ StopPolling
  BY <1>11, StopPollingMoves DEF AgentStep, Loop
<1>12. ASSUME NEW j \in jobs, UNCHANGED <<pollVars, chatVars>>,
              cursorCreateThread(j) \/ cursorOpenPermissionRequest(j) \/ cursorAppendParts(j)
              \/ cursorWait(j) \/ loadMessageById(j)
       PROVE  ClientStep(j)
  <2>1. CASE cursorCreateThread(j)
    BY <1>12, <2>1, CreateThreadStep DEF cursorCreateThread
  <2>2. CASE cursorOpenPermissionRequest(j)
    BY <1>12, <2>2, RequestStep DEF cursorOpenPermissionRequest
  <2>3. CASE cursorAppendParts(j)
    BY <1>12, <2>3, AppendStep DEF cursorAppendParts
  <2>4. CASE cursorWait(j)
    BY <1>12, <2>4, WaitStep DEF cursorWait
  <2>5. CASE loadMessageById(j)
    BY <1>12, <2>5, LoadStep
  <2> QED BY <1>12, <2>1, <2>2, <2>3, <2>4, <2>5
<1>13. ASSUME NEW j \in jobs,
              handleInvocation(j) \/ Launched(j) \/ Failed(j) \/ waitForTerminal(j)
              \/ monitorCursorRun(j) \/ relayThreadMessageToCursor(j)
       PROVE  AgentStep
  <2>1. CASE handleInvocation(j) \/ Launched(j) \/ waitForTerminal(j)
    BY <2>1, InvocationWorks, LaunchedWorks, WatchWorks DEF AgentStep
  <2>2. CASE Failed(j)
    BY <2>2, FailedDrops DEF AgentStep
  <2>3. CASE monitorCursorRun(j)
    BY <2>3, WatchDrops DEF AgentStep
  <2>4. CASE relayThreadMessageToCursor(j)
    <3>1. CASE j.at = "followup"
      BY <2>4, <3>1, TellWorks DEF AgentStep
    <3>2. CASE j.at = "done" /\ Drop(j) /\ UNCHANGED <<runs, budget>>
      <4>1. CursorStep(j) /\ j.stage = "relay" /\ UNCHANGED <<life, scan, sessions, outcomes>>
        BY <2>4 DEF relayThreadMessageToCursor
      <4> QED BY <3>2, <4>1, RelayDrops DEF AgentStep
    <3> QED BY <2>4, <3>1, <3>2 DEF relayThreadMessageToCursor
  <2> QED BY <1>13, <2>1, <2>2, <2>3, <2>4
<1> QED BY <1>1, <1>2, <1>3, <1>4, <1>5, <1>6, <1>7, <1>8, <1>9, <1>10, <1>11, <1>12, <1>13 DEF Cursor, AgentStep

LEMMA EveryStep ==
  ASSUME ShapeOK, SettledInv, [AgentsNext]_allVars
  PROVE  AgentStep
<1>1. CASE World /\ UNCHANGED <<pollVars, chatVars>>
  BY <1>1, UsersOnlyWrite DEF AgentStep
<1>2. CASE Start /\ UNCHANGED chatVars
  BY <1>2 DEF AgentStep
<1>3. CASE Kill /\ Leave
  BY <1>3, LeaveStops DEF AgentStep, Kill, Quietly
<1>4. CASE Agent
  BY <1>4, PoetSteps, WeatherSteps, AssistantSteps, CursorSteps DEF Agent
<1>5. CASE UNCHANGED allVars
  BY <1>5 DEF AgentStep
<1> QED BY <1>1, <1>2, <1>3, <1>4, <1>5 DEF AgentsNext

LEMMA ShapeStays ==
  ASSUME ShapeOK, PageOK, AgentStep
  PROVE  ShapeOK'
<1>1. CASE UNCHANGED allVars
  <2>1. UNCHANGED <<program, life, channels, threads, messages, requests, jobs, seen, last, scan, from, outcomes,
                    conn, subs, sessions, runs>>
    BY <1>1 DEF allVars, worldVars, pollVars, chatVars
  <2> QED BY <2>1 DEF ShapeOK, WorldTypes, PollTypes, ChatTypes, HandlersOK, LoopOK, HandlerOK, There
<1> QED BY <1>1, UserShape, StartShape, StoppedShape, MovedShape, PagedShape, TurnedShape, SoughtShape, BegunShape,
           TakenUpShape, ClientShape, DroppedShape, CursorWorkShape DEF AgentStep

LEMMA ShapeAtFirst ==
  ASSUME AgentsInit
  PROVE  ShapeOK
<1>1. /\ life = [up |-> FALSE, n |-> 0] /\ channels = Listed /\ threads = <<>> /\ messages = [s \in Streams |-> <<>>]
      /\ requests = <<>> /\ jobs = {} /\ seen = {} /\ last = Zero /\ from = Zero /\ scan = Asleep /\ outcomes = {}
      /\ conn = "none" /\ subs = {} /\ sessions = <<>> /\ runs = <<>>
  BY DEF AgentsInit, WorldInit, PollInit, ChatInit
<1>2. program \in {"poet", "weather", "assistant", "cursor"}
  BY WorldConstants DEF AgentsInit, WorldInit
<1>3. Zero \in [Streams -> Nat] /\ \A s \in Streams : Zero[s] = 0 /\ messages[s] = <<>> /\ Len(messages[s]) = 0
  BY <1>1 DEF Zero
<1>4. Asleep \in Scans /\ Asleep.at = "off" /\ Asleep.page = {} /\ Asleep.cut = {}
  BY DEF Asleep, Scans, ScanPoints
<1>5. WorldTypes
  <2>1. threads \in Seq(Opened) /\ Len(threads) <= MaxThreads /\ requests \in Seq(Asking)
    BY <1>1, WorldConstants
  <2>2. messages \in [Streams -> Seq(Written)]
    BY <1>1
  <2> QED BY <1>1, <1>2, <1>3, <2>1, <2>2, WorldConstants DEF WorldTypes
<1>6. PollTypes
  BY <1>1, <1>3, <1>4 DEF PollTypes
<1>7. ChatTypes
  BY <1>1 DEF ChatTypes
<1>8. HandlersOK
  BY <1>1 DEF HandlersOK
<1>9. LoopOK
  BY <1>1, <1>3, <1>4 DEF LoopOK
<1> QED BY <1>5, <1>6, <1>7, <1>8, <1>9 DEF ShapeOK

(***************************************************************************)
(* An invocation is answered at most once by a run of the process.         *)
(***************************************************************************)
\* What was answered, when messages are written.
LEMMA NothingAnswered ==
  ASSUME UNCHANGED messages, NEW e
  PROVE  FirstAnswers(e)' = FirstAnswers(e)
BY DEF FirstAnswers, Numbered

LEMMA OneMoreAnswer ==
  ASSUME ShapeOK, NEW s \in There, NEW m \in Written, messages' = [messages EXCEPT ![s] = Append(@, m)], NEW e
  PROVE  FirstAnswers(e)' = FirstAnswers(e) \cup
           (IF m.re[1] \in FirstStages /\ m.re[2] = e THEN {<<s, Len(messages[s]) + 1>>} ELSE {})
<1> DEFINE n == Len(messages[s]) + 1
<1>1. /\ messages' \in [Streams -> Seq(Written)] /\ s \in Streams /\ messages[s] \in Seq(Written)
      /\ messages'[s] = Append(messages[s], m) /\ Len(messages[s]) \in Nat
      /\ \A r \in Streams : /\ \A i \in 1 .. Len(messages[r]) : messages'[r][i] = messages[r][i]
                            /\ r # s => messages'[r] = messages[r]
                            /\ DOMAIN messages[r] = 1 .. Len(messages[r])
  <2>1. \A r \in Streams : messages[r] \in Seq(Written)
    BY DEF ShapeOK, WorldTypes
  <2>2. \A r \in Streams : DOMAIN messages[r] = 1 .. Len(messages[r])
    BY <2>1
  <2>3. /\ messages' \in [Streams -> Seq(Written)] /\ s \in Streams /\ messages'[s] = Append(messages[s], m)
        /\ \A r \in Streams : /\ Len(messages[r]) \in Nat
                              /\ \A i \in 1 .. Len(messages[r]) : messages'[r][i] = messages[r][i]
                              /\ r # s => messages'[r] = messages[r]
    BY LogGrows
  <2> QED BY <2>1, <2>2, <2>3
<1>2. messages'[s][n] = m /\ DOMAIN messages'[s] = DOMAIN messages[s] \cup {n} /\ n \notin DOMAIN messages[s]
      /\ n \in Nat
  BY <1>1
<1>3. \A p : p \in Numbered <=> \E r \in Streams : \E i \in DOMAIN messages[r] : p = <<r, i>>
  BY DEF Numbered
<1>4. \A p : p \in Numbered' <=> \E r \in Streams : \E i \in DOMAIN messages'[r] : p = <<r, i>>
  BY DEF Numbered
<1> HIDE DEF n
<1>5. \A r \in Streams : \A i \in DOMAIN messages[r] : i \in DOMAIN messages'[r] /\ messages'[r][i] = messages[r][i]
  BY <1>1, <1>2
<1>6. \A r \in Streams : \A i \in DOMAIN messages'[r] : i \in DOMAIN messages[r] \/ (r = s /\ i = n)
  BY <1>1, <1>2
<1> DEFINE Is(p) == messages[p[1]][p[2]].re[1] \in FirstStages /\ messages[p[1]][p[2]].re[2] = e
           Will(p) == messages'[p[1]][p[2]].re[1] \in FirstStages /\ messages'[p[1]][p[2]].re[2] = e
<1>7. \A p : p \in FirstAnswers(e) <=> p \in Numbered /\ Is(p)
  BY DEF FirstAnswers
<1>8. \A p : p \in FirstAnswers(e)' <=> p \in Numbered' /\ Will(p)
  BY DEF FirstAnswers
<1>9. \A p \in Numbered : p \in Numbered' /\ (Will(p) <=> Is(p))
  BY <1>3, <1>4, <1>5
<1>10. \A p \in Numbered' : p \in Numbered \/ p = <<s, n>>
  BY <1>3, <1>4, <1>6
<1>11. <<s, n>> \in Numbered' /\ (Will(<<s, n>>) <=> m.re[1] \in FirstStages /\ m.re[2] = e)
  BY <1>1, <1>2, <1>4
<1>12. <<s, n>> \notin Numbered
  BY <1>2, <1>3
<1> HIDE DEF Is, Will
<1>13. CASE m.re[1] \in FirstStages /\ m.re[2] = e
  <2>1. FirstAnswers(e)' = FirstAnswers(e) \cup {<<s, n>>}
    BY <1>7, <1>8, <1>9, <1>10, <1>11, <1>13
  <2> QED BY <1>13, <2>1 DEF n
<1>14. CASE ~(m.re[1] \in FirstStages /\ m.re[2] = e)
  <2>1. FirstAnswers(e)' = FirstAnswers(e)
    BY <1>7, <1>8, <1>9, <1>10, <1>11, <1>14
  <2> QED BY <1>14, <2>1
<1> QED BY <1>13, <1>14

LEMMA AnswersStay ==
  ASSUME ShapeOK, AnswersOK, \A e \in Events : FirstAnswers(e)' = FirstAnswers(e), life'.n = life.n,
         \A e \in Events : MayAnswer(e)' => MayAnswer(e)
  PROVE  AnswersOK'
BY DEF AnswersOK

LEMMA Answered ==
  ASSUME ShapeOK, AnswersOK, TakenUpOK, NEW j \in jobs, ClientStep(j)
  PROVE  AnswersOK' /\ TakenUpOK'
<1>1. UNCHANGED <<program, life, pollVars, chatVars>>
  BY DEF ClientStep
<1>2. PICK k : Becomes(j, k) /\ GoesOn(j, k) /\ (messages' = messages \/ Says(j, k))
  BY DEF ClientStep
<1>3. jobs' = (jobs \ {j}) \cup {k} /\ k.key = j.key /\ (k.stage \in FirstStages => j.stage \in FirstStages)
      /\ (Unanswered(k) => Unanswered(j))
  BY <1>2 DEF Becomes, GoesOn
<1>4. \A e : Reopenable(e)' = Reopenable(e)
  BY <1>1 DEF Reopenable, pollVars
<1>5. \A e \in Events : MayAnswer(e)' => MayAnswer(e)
  BY <1>1, <1>3, <1>4 DEF MayAnswer
<1>6. TakenUpOK'
  <2>1. \A i \in jobs' : i.stage \in FirstStages => ~Reopenable(i.key)'
    BY <1>3, <1>4 DEF TakenUpOK
  <2>2. \A e, f : Same(e, f)' = Same(e, f)
    BY <1>1 DEF Same
  <2>3. \A x, y \in jobs' : {x.stage, y.stage} \subseteq FirstStages /\ Same(x.key, y.key) => x = y
    BY <1>3 DEF TakenUpOK
  <2> QED BY <2>1, <2>2, <2>3 DEF TakenUpOK
<1>7. CASE messages' = messages
  BY <1>1, <1>5, <1>6, <1>7, NothingAnswered, AnswersStay
<1>8. CASE Says(j, k)
  <2>1. PICK m \in Written : m.re = <<j.stage, j.key>> /\ messages' = [messages EXCEPT ![j.to] = Append(@, m)]
    BY <1>8 DEF Says
  <2>2. j.to \in There /\ j.at = "append" /\ k.at = "done" /\ k.out \in {"ok", "thrown"} /\ life.up /\ life.n \in Nat
    BY <1>8, HandlerFacts DEF Says, ShapeOK, LoopOK, WorldTypes
  <2>3. m.re[1] = j.stage /\ m.re[2] = j.key
    BY <2>1
  <2> DEFINE p == <<j.to, Len(messages[j.to]) + 1>>
  <2>4. \A e : FirstAnswers(e)' = FirstAnswers(e) \cup (IF j.stage \in FirstStages /\ j.key = e THEN {p} ELSE {})
    BY <2>1, <2>2, <2>3, OneMoreAnswer
  <2> HIDE DEF p
  <2>5. ASSUME NEW e \in Events
        PROVE  /\ IsFiniteSet(FirstAnswers(e))' /\ Cardinality(FirstAnswers(e))' <= life'.n
               /\ MayAnswer(e)' => Cardinality(FirstAnswers(e))' < life'.n
    <3>1. IsFiniteSet(FirstAnswers(e)) /\ Cardinality(FirstAnswers(e)) <= life.n
          /\ (MayAnswer(e) => Cardinality(FirstAnswers(e)) < life.n)
      BY DEF AnswersOK
    <3>2. CASE ~(j.stage \in FirstStages /\ j.key = e)
      <4>1. FirstAnswers(e)' = FirstAnswers(e)
        BY <2>4, <3>2
      <4> QED BY <1>1, <1>5, <3>1, <4>1
    <3>3. CASE j.stage \in FirstStages /\ j.key = e
      <4>1. FirstAnswers(e)' = FirstAnswers(e) \cup {p}
        BY <2>4, <3>3
      <4>2. IsFiniteSet(FirstAnswers(e) \cup {p})
            /\ Cardinality(FirstAnswers(e) \cup {p}) <= Cardinality(FirstAnswers(e)) + 1
            /\ Cardinality(FirstAnswers(e)) \in Nat /\ Cardinality(FirstAnswers(e) \cup {p}) \in Nat
        <5> DEFINE A == FirstAnswers(e)
        <5>1. IsFiniteSet(A)
          BY <3>1
        <5> HIDE DEF A
        <5>2. IsFiniteSet(A \cup {p}) /\ Cardinality(A \cup {p}) = IF p \in A THEN Cardinality(A) ELSE Cardinality(A) + 1
          BY <5>1, FS_AddElement
        <5>3. Cardinality(A) \in Nat
          BY <5>1, FS_CardinalityType
        <5>4. IsFiniteSet(A \cup {p}) /\ Cardinality(A \cup {p}) <= Cardinality(A) + 1
              /\ Cardinality(A) \in Nat /\ Cardinality(A \cup {p}) \in Nat
          BY <5>2, <5>3
        <5> QED BY <5>4 DEF A
      <4>3. MayAnswer(e)
        BY <2>2, <3>3 DEF MayAnswer, Unanswered
      <4>4. ~MayAnswer(e)'
        <5>1. ~Reopenable(e)'
          BY <1>4, <3>3 DEF TakenUpOK
        <5>2. ASSUME NEW i \in jobs', i.key = e  PROVE ~Unanswered(i)
          <6>1. CASE i = k
            BY <2>2, <6>1 DEF Unanswered
          <6>2. CASE i \in jobs /\ i # j
            <7>1. Same(i.key, j.key)
              BY <3>3, <5>2 DEF Same
            <7>2. ~({i.stage, j.stage} \subseteq FirstStages)
              BY <6>2, <7>1 DEF TakenUpOK
            <7> QED BY <3>3, <7>2 DEF Unanswered
          <6> QED BY <1>3, <6>1, <6>2
        <5> QED BY <5>1, <5>2 DEF MayAnswer, Unanswered
      <4> QED BY <1>1, <2>2, <3>1, <4>1, <4>2, <4>3, <4>4
    <3> QED BY <3>2, <3>3
  <2> QED BY <1>6, <2>5 DEF AnswersOK
<1> QED BY <1>2, <1>7, <1>8

\* The other steps leave the answers alone, and nothing else may be answered.
LEMMA NotAnswering ==
  ASSUME ShapeOK, AnswersOK, TakenUpOK, Still, life'.n = life.n,
         \A e \in Events : MayAnswer(e)' => MayAnswer(e),
         \A j \in jobs' : j.stage \in FirstStages => ~Reopenable(j.key)',
         \A j, k \in jobs' : {j.stage, k.stage} \subseteq FirstStages /\ Same(j.key, k.key)' => j = k
  PROVE  AnswersOK' /\ TakenUpOK'
<1>1. \A e : FirstAnswers(e)' = FirstAnswers(e)
  BY NothingAnswered DEF Still
<1>2. AnswersOK'
  BY <1>1, AnswersStay
<1>3. \A e, f : Same(e, f)' = Same(e, f)
  BY DEF Same, Still
<1>4. TakenUpOK'
  BY <1>3 DEF TakenUpOK
<1> QED BY <1>2, <1>4

\* The handlers stay, or some of them end.
LEMMA NoneBegins ==
  ASSUME ShapeOK, AnswersOK, TakenUpOK, Still, UNCHANGED life, jobs' \subseteq jobs,
         \A e \in Events : Reopenable(e)' => Reopenable(e)
  PROVE  AnswersOK' /\ TakenUpOK'
<1>1. \A e \in Events : MayAnswer(e)' => MayAnswer(e)
  BY DEF MayAnswer
<1>2. \A j \in jobs' : j.stage \in FirstStages => ~Reopenable(j.key)'
  <2> SUFFICES ASSUME NEW j \in jobs', j.stage \in FirstStages, Reopenable(j.key)'  PROVE FALSE
    OBVIOUS
  <2>1. j \in jobs /\ j.key \in Events
    BY HandlerFacts DEF FirstStages
  <2> QED BY <2>1 DEF TakenUpOK
<1>3. \A j, k \in jobs' : {j.stage, k.stage} \subseteq FirstStages /\ Same(j.key, k.key)' => j = k
  BY DEF TakenUpOK, Same, Still
<1> QED BY <1>1, <1>2, <1>3, NotAnswering

LEMMA AnswersInStep ==
  ASSUME ShapeOK, AnswersOK, TakenUpOK, AgentStep
  PROVE  AnswersOK' /\ TakenUpOK'
<1>1. CASE UserStep
  <2>1. UNCHANGED <<program, life, jobs, pollVars, chatVars>>
    BY <1>1 DEF UserStep
  <2>2. \A e : Reopenable(e)' = Reopenable(e)
    BY <2>1 DEF Reopenable, pollVars
  <2>3. \A e : MayAnswer(e)' = MayAnswer(e)
    BY <2>1, <2>2 DEF MayAnswer
  <2>4. \A e : FirstAnswers(e)' = FirstAnswers(e)
    <3>1. CASE messages' = messages
      BY <3>1, NothingAnswered
    <3>2. ASSUME NEW s \in There, NEW m \in Written, m.re = <<"said", None>>, messages' = [messages EXCEPT ![s] = Append(@, m)]
          PROVE  \A e : FirstAnswers(e)' = FirstAnswers(e)
      <4>1. m.re[1] \notin FirstStages
        BY <3>2 DEF FirstStages
      <4>2. ASSUME NEW e  PROVE FirstAnswers(e)' = FirstAnswers(e)
        <5>1. FirstAnswers(e)' = FirstAnswers(e) \cup
                (IF m.re[1] \in FirstStages /\ m.re[2] = e THEN {<<s, Len(messages[s]) + 1>>} ELSE {})
          BY <3>2, OneMoreAnswer
        <5>2. (IF m.re[1] \in FirstStages /\ m.re[2] = e THEN {<<s, Len(messages[s]) + 1>>} ELSE {}) = {}
          BY <4>1
        <5> QED BY <5>1, <5>2
      <4> QED BY <4>2
    <3> QED BY <1>1, <3>1, <3>2 DEF UserStep
  <2>5. AnswersOK'
    BY <2>1, <2>3, <2>4, AnswersStay
  <2> QED BY <2>1, <2>2, <2>5 DEF TakenUpOK, Same
<1>2. CASE Start /\ UNCHANGED chatVars
  <2>1. life'.n = life.n + 1 /\ life.n \in Nat /\ jobs' = {} /\ UNCHANGED messages
    BY <1>2 DEF Start, ShapeOK, WorldTypes, LoopOK
  <2>2. ASSUME NEW e \in Events
        PROVE  IsFiniteSet(FirstAnswers(e)') /\ Cardinality(FirstAnswers(e)') <= life'.n
               /\ Cardinality(FirstAnswers(e)') < life'.n
    <3>1. FirstAnswers(e)' = FirstAnswers(e)
      BY <2>1, NothingAnswered
    <3>2. IsFiniteSet(FirstAnswers(e)) /\ Cardinality(FirstAnswers(e)) <= life.n
      BY DEF AnswersOK
    <3>3. Cardinality(FirstAnswers(e)) \in Nat
      BY <3>2, FS_CardinalityType
    <3> QED BY <2>1, <3>1, <3>2, <3>3
  <2> QED BY <2>1, <2>2 DEF AnswersOK, TakenUpOK
<1>3. CASE Stopped
  <2>1. Still /\ ~life'.up /\ life'.n = life.n /\ jobs' = {}
    BY <1>3, StoppedShape DEF Stopped
  <2>2. \A e : ~MayAnswer(e)'
    BY <2>1 DEF MayAnswer
  <2> QED BY <2>1, <2>2, NotAnswering
<1>4. CASE Moved
  BY <1>4, NoneBegins DEF Moved, Reopenable, Still
<1>5. CASE Paged
  <2>1. Still /\ UNCHANGED <<life, jobs, seen, last>>
    BY <1>5 DEF Paged
  <2>2. ASSUME NEW e \in scan'.page  PROVE e.seq > last[e.on]
    <3>1. PICK s \in Streams : \E P \in SUBSET EventsAfter(s, last[s]), top \in Nat :
            scan' = [scan EXCEPT !.at = "page", !.page = P, !.max = top,
                                 !.cut = {f \in EventsAfter(s, last[s]) \ P : f.seq = top}]
      BY <1>5 DEF Paged
    <3>2. scan'.page \subseteq EventsAfter(s, last[s])
      BY <3>1, ScanFacts DEF Scans
    <3>3. last[s] \in Nat /\ Len(messages[s]) \in Nat
      BY DEF ShapeOK, PollTypes, WorldTypes
    <3>4. e.on = s /\ e.seq \in last[s] + 1 .. Len(messages[s])
      BY <3>2, <3>3, EventsAreThese
    <3> QED BY <3>3, <3>4
  <2>3. \A e \in Events : Reopenable(e)' => Reopenable(e)
    BY <2>1, <2>2 DEF Reopenable, Still
  <2> QED BY <2>1, <2>3, NoneBegins
<1>6. CASE Turned
  <2>1. \A e \in Events : Reopenable(e)' => Reopenable(e)
    BY <1>6 DEF Turned, Reopenable, Still
  <2> QED BY <1>6, <2>1, NoneBegins DEF Turned
<1>7. CASE Sought
  <2>1. \A e \in Events : Reopenable(e)' => Reopenable(e)
    <3> SUFFICES ASSUME NEW e \in Events, Reopenable(e)'  PROVE Reopenable(e)
      OBVIOUS
    <3>1. e.on \in Streams /\ e.seq \in Nat
      BY DEF Events
    <3>2. last[e.on] <= last'[e.on] /\ last[e.on] \in Nat /\ last'[e.on] \in Nat
      BY <1>7, <3>1 DEF Sought, ShapeOK, PollTypes
    <3> QED BY <1>7, <3>1, <3>2 DEF Sought, Reopenable, Still
  <2> QED BY <1>7, <2>1, NoneBegins DEF Sought
<1>8. CASE Begun
  <2>1. Still /\ UNCHANGED <<life, seen, last>> /\ jobs = {}
    BY <1>8 DEF Begun
  <2>2. PICK k \in Handlers : jobs' = {k} /\ k.stage \in {"arrival", "periodic"}
    BY <1>8 DEF Begun
  <2>3. k.stage \notin FirstStages
    BY <2>2 DEF FirstStages
  <2>4. scan'.page = scan.page
    BY <1>8, ScanMoves DEF Begun, ScanPoints
  <2>5. \A e : Reopenable(e)' = Reopenable(e)
    BY <2>1, <2>4 DEF Reopenable, Still
  <2>6. \A e \in Events : MayAnswer(e)' => MayAnswer(e)
    BY <2>1, <2>2, <2>3, <2>5 DEF MayAnswer, Unanswered
  <2> QED BY <2>1, <2>2, <2>3, <2>6, NotAnswering
<1>9. ASSUME NEW N, TookUp(N), TookOnce(N)  PROVE AnswersOK' /\ TakenUpOK'
  <2>1. Still /\ UNCHANGED life /\ jobs' = jobs \cup N /\ life.up
    BY <1>9 DEF TookUp
  <2>2. \A k \in N : k.stage \in {"reply", "answer", "ack", "relay"} /\ (k.stage = "relay" => k.stage \notin FirstStages)
    BY <1>9 DEF TookUp, FirstStages
  <2>3. \A e \in Events : MayAnswer(e)' => MayAnswer(e)
    BY <1>9, <2>1, <2>2 DEF MayAnswer, TookOnce, Unanswered
  <2>4. ASSUME NEW j \in jobs', j.stage \in FirstStages  PROVE ~Reopenable(j.key)'
    <3>1. CASE j \in N
      BY <1>9, <2>2, <2>4, <3>1 DEF TookOnce
    <3>2. CASE j \in jobs
      <4>1. j.key \in Events
        BY <2>4, <3>2, HandlerFacts DEF FirstStages
      <4> QED BY <1>9, <2>4, <3>2, <4>1 DEF TookOnce, TakenUpOK
    <3> QED BY <2>1, <3>1, <3>2
  <2>5. \A j \in jobs, k \in N : {j.stage, k.stage} \subseteq FirstStages => ~Same(j.key, k.key) /\ ~Same(k.key, j.key)
    <3> SUFFICES ASSUME NEW j \in jobs, NEW k \in N, {j.stage, k.stage} \subseteq FirstStages,
                        Same(j.key, k.key) \/ Same(k.key, j.key)
                 PROVE  FALSE
      OBVIOUS
    <3>1. ~Reopenable(j.key) /\ Reopenable(k.key)
      BY <1>9, <2>2 DEF TookOnce, TakenUpOK
    <3>2. CASE program = "cursor"
      BY <3>1, <3>2 DEF Same, Reopenable
    <3>3. CASE program # "cursor"
      BY <3>1, <3>3 DEF Same
    <3> QED BY <3>2, <3>3
  <2>6. \A e, f : Same(e, f)' = Same(e, f)
    BY <2>1 DEF Same, Still
  <2>7. \A j, k \in jobs' : {j.stage, k.stage} \subseteq FirstStages /\ Same(j.key, k.key)' => j = k
    BY <1>9, <2>1, <2>2, <2>5, <2>6 DEF TookOnce, TakenUpOK
  <2> QED BY <2>1, <2>3, <2>4, <2>7, NotAnswering
<1>10. ASSUME NEW j \in jobs, Dropped(j)  PROVE AnswersOK' /\ TakenUpOK'
  <2>1. Still /\ UNCHANGED <<life, last>> /\ jobs' = jobs \ {j} /\ j.at = "done"
    BY <1>10 DEF Dropped
  <2>2. scan'.page = scan.page
    BY <1>10 DEF Dropped
  <2>3. CASE UNCHANGED seen
    <3>1. \A e \in Events : Reopenable(e)' => Reopenable(e)
      BY <2>1, <2>2, <2>3 DEF Reopenable, Still
    <3> QED BY <2>1, <3>1, NoneBegins
  <2>4. CASE /\ program \in {"poet", "weather"} /\ j.stage = "reply" /\ j.out \notin {"ok", "thrown"}
             /\ seen' = seen \ {j.key}
    <3>1. jobs' = {} /\ life.up
      BY <2>1, <2>4, OneHandler
    <3>2. Unanswered(j)
      BY <2>4 DEF Unanswered, FirstStages
    <3>3. \A e \in Events : MayAnswer(e)' => MayAnswer(e)
      BY <2>1, <2>4, <3>1, <3>2 DEF MayAnswer, Reopenable, Still
    <3> QED BY <2>1, <3>1, <3>3, NotAnswering
  <2> QED BY <1>10, <2>3, <2>4 DEF Dropped
<1>11. ASSUME NEW j \in jobs, NEW k, CursorWork(j, k)  PROVE AnswersOK' /\ TakenUpOK'
  <2>1. Still /\ UNCHANGED <<life, seen, last, scan>> /\ jobs' = (jobs \ {j}) \cup {k}
        /\ k.stage \in {"running", "error", "final", "relay"}
    BY <1>11 DEF CursorWork, Becomes
  <2>2. k.stage \notin FirstStages
    BY <2>1 DEF FirstStages
  <2>3. \A e : Reopenable(e)' = Reopenable(e)
    BY <2>1 DEF Reopenable, Still
  <2>4. \A e \in Events : MayAnswer(e)' => MayAnswer(e)
    BY <2>1, <2>2, <2>3 DEF MayAnswer, Unanswered
  <2>5. \A i \in jobs' : i.stage \in FirstStages => ~Reopenable(i.key)'
    BY <2>1, <2>2, <2>3 DEF TakenUpOK
  <2>6. \A x, y \in jobs' : {x.stage, y.stage} \subseteq FirstStages /\ Same(x.key, y.key)' => x = y
    BY <2>1, <2>2 DEF TakenUpOK, Same, Still
  <2> QED BY <2>1, <2>4, <2>5, <2>6, NotAnswering
<1>12. CASE UNCHANGED allVars
  <2>1. UNCHANGED <<program, life, messages, jobs, seen, last, scan>>
    BY <1>12 DEF allVars, worldVars, pollVars
  <2>2. \A e : Reopenable(e)' = Reopenable(e)
    BY <2>1 DEF Reopenable
  <2>3. \A e : MayAnswer(e)' = MayAnswer(e)
    BY <2>1, <2>2 DEF MayAnswer
  <2>4. \A e : FirstAnswers(e)' = FirstAnswers(e)
    BY <2>1, NothingAnswered
  <2> QED BY <2>1, <2>2, <2>3, <2>4 DEF AnswersOK, TakenUpOK, Same
<1> QED BY <1>1, <1>2, <1>3, <1>4, <1>5, <1>6, <1>7, <1>8, <1>9, <1>10, <1>11, <1>12, Answered DEF AgentStep, TakenUp

(***************************************************************************)
(* What was passed is settled.                                             *)
(***************************************************************************)
\* What is wanted stays wanted, whatever is written.
LEMMA WantedAlike ==
  ASSUME ShapeOK, Grown, UNCHANGED program, NEW e \in Events, e.on \in There, e.seq \in 1 .. Len(messages[e.on])
  PROVE  WantedBy(e)' = WantedBy(e) /\ MessageOf(e)' = MessageOf(e) /\ InPrivate(e.on)' = InPrivate(e.on)
<1>1. MessageOf(e)' = MessageOf(e)
  BY ThereAreStreams DEF MessageOf, Grown
<1>2. InPrivate(e.on)' = InPrivate(e.on)
  <2>1. CASE e.on \in Threads
    <3>1. e.on \in DOMAIN threads
      BY <2>1, WorldConstants DEF There, Streams
    <3> QED BY <3>1 DEF Grown, InPrivate, ChannelOf
  <2>2. CASE e.on \notin Threads
    BY <2>2 DEF InPrivate, ChannelOf
  <2> QED BY <2>1, <2>2
<1>3. IsThread(e.on)' = IsThread(e.on)
  BY DEF IsThread
<1> QED BY <1>1, <1>2, <1>3 DEF WantedBy, CursorWanted, AssistantWanted, Wanted

\* The events after a number: those there were, and new ones with greater numbers.
LEMMA EventsAlike ==
  ASSUME ShapeOK, Grown, NEW s \in Streams, NEW n \in Nat, NEW e \in EventsAfter(s, n)', NEW m \in Nat,
         m <= Len(messages[s]), e.seq <= m
  PROVE  e \in EventsAfter(s, n) /\ e \in Events /\ e.on = s /\ e.on \in There /\ e.seq \in n + 1 .. Len(messages[s])
<1>1. PICK i \in n + 1 .. Len(messages'[s]) : e \in EventsOf(s, i)'
  BY DEF EventsAfter
<1>2. PICK k \in messages'[s][i].asks \cup {"message"} : e = Event(k, s, i)
  BY <1>1 DEF EventsOf
<1>3. Len(messages[s]) \in Nat /\ Len(messages'[s]) \in Nat
  BY DEF Grown
<1>4. e.seq = i /\ i \in n + 1 .. Len(messages[s])
  BY <1>1, <1>2, <1>3 DEF Event
<1>5. messages'[s][i] = messages[s][i]
  BY <1>3, <1>4 DEF Grown
<1>6. e \in EventsOf(s, i)
  BY <1>2, <1>5 DEF EventsOf
<1>7. e \in EventsAfter(s, n)
  BY <1>4, <1>6 DEF EventsAfter
<1> QED BY <1>7, EventsAreThese

\* The page stays, or is left for good: what was accounted for still is.
LEMMA SettledStays ==
  ASSUME ShapeOK, PassedIsSettled, PageOK, Grown, UNCHANGED <<program, life, last, from>>,
         scan'.page = scan.page, scan'.cut = scan.cut,
         scan'.at = "page" => scan.at = "page" /\ scan'.left = scan.left /\ scan'.max = scan.max,
         \A e \in Events : e.on \in There /\ WantedBy(e) /\ Accounted(e) => Accounted(e)'
  PROVE  PassedIsSettled' /\ PageOK'
<1> USE DEF ShapeOK
<1>1. \A s \in Streams : /\ last[s] \in Nat /\ from[s] \in Nat /\ last[s] <= Len(messages[s])
                         /\ Len(messages[s]) \in Nat /\ Len(messages'[s]) \in Nat /\ Len(messages[s]) <= Len(messages'[s])
  BY DEF Grown, PollTypes, LoopOK
<1>2. PassedIsSettled'
  <2> SUFFICES ASSUME life.up, NEW s \in Streams, NEW e \in EventsAfter(s, from[s])', WantedBy(e)', e.seq <= last[s]
               PROVE  (Taken(e) \/ e \in scan.page \cup scan.cut \/ \E j \in jobs : j.key = e)'
    BY DEF PassedIsSettled
  <2>1. e \in EventsAfter(s, from[s]) /\ e \in Events /\ e.on = s /\ e.on \in There /\ e.seq \in from[s] + 1 .. Len(messages[s])
    BY <1>1, EventsAlike
  <2>2. WantedBy(e)
    <3>1. e.seq \in 1 .. Len(messages[e.on])
      BY <1>1, <2>1
    <3> QED BY <2>1, <3>1, WantedAlike
  <2>3. Accounted(e) \/ e \in scan.page \cup scan.cut
    BY <2>1, <2>2 DEF PassedIsSettled, Accounted
  <2> QED BY <2>1, <2>2, <2>3 DEF Accounted
<1>3. ASSUME scan'.at = "page"
      PROVE  (/\ \A e \in scan.page \cup scan.cut :
                   e.on = Head(scan.left) /\ e.on \in There /\ last[e.on] <= e.seq /\ e.seq <= scan.max
              /\ \A e \in scan.cut : e.seq = scan.max
              /\ last[Head(scan.left)] <= scan.max /\ scan.max <= Len(messages[Head(scan.left)])
              /\ \A e \in EventsAfter(Head(scan.left), last[Head(scan.left)]) :
                   WantedBy(e) /\ e.seq <= scan.max => e \in scan.page \cup scan.cut \/ Accounted(e))'
  <2> DEFINE s == Head(scan.left)
  <2>1. s \in Streams /\ scan.max \in Nat /\ s' = s
    BY <1>3 DEF PollTypes, Scans, LoopOK
  <2>2. scan.max <= Len(messages[s]) /\ last[s] <= scan.max
    BY <1>3 DEF PageOK
  <2>3. ASSUME NEW e \in EventsAfter(s, last[s])', WantedBy(e)', e.seq <= scan.max
        PROVE  e \in scan.page \cup scan.cut \/ Accounted(e)'
    <3>4. \A f \in EventsAfter(s, last[s]) : WantedBy(f) /\ f.seq <= scan.max => f \in scan.page \cup scan.cut \/ Accounted(f)
      BY <1>3 DEF PageOK
    <3> HIDE DEF s
    <3>0. last[s] \in Nat /\ last'[s] = last[s]
      BY <1>1, <2>1
    <3>1. e \in EventsAfter(s, last[s]) /\ e \in Events /\ e.on = s /\ e.on \in There /\ e.seq \in last[s] + 1 .. Len(messages[s])
      BY <2>1, <2>2, <2>3, <3>0, EventsAlike
    <3>2. WantedBy(e)
      <4>1. e.seq \in 1 .. Len(messages[e.on])
        BY <1>1, <2>1, <3>1
      <4> QED BY <2>3, <3>1, <4>1, WantedAlike
    <3>3. e \in scan.page \cup scan.cut \/ Accounted(e)
      BY <2>3, <3>1, <3>2, <3>4
    <3> QED BY <3>1, <3>2, <3>3
  <2>4. scan.max <= Len(messages'[s])
    BY <1>1, <2>1, <2>2
  <2>5. There \subseteq There'
    BY DEF Grown
  <2>6. \A e \in scan.page \cup scan.cut : e.on = s /\ e.on \in There /\ last[e.on] <= e.seq /\ e.seq <= scan.max
    BY <1>3 DEF PageOK
  <2>7. \A e \in scan.cut : e.seq = scan.max
    BY <1>3 DEF PageOK
  <2>8. s' = s /\ scan'.left = scan.left /\ scan'.max = scan.max /\ last' = last
    BY <1>3, <2>1
  <2> QED BY <2>2, <2>3, <2>4, <2>5, <2>6, <2>7, <2>8
<1>4. (program # "assistant" => \A e \in scan.page \cup scan.cut : last[e.on] < e.seq)'
  BY DEF PageOK
<1>5. PageOK'
  BY <1>3, <1>4 DEF PageOK
<1> QED BY <1>2, <1>5

\* Nothing is on a page.
LEMMA NoPage ==
  ASSUME scan'.page = {}, scan'.cut = {}, scan'.at # "page"
  PROVE  PageOK'
  BY DEF PageOK

\* While nothing is written, the same events are wanted.
LEMMA StillWanted ==
  ASSUME ShapeOK, Still
  PROVE  /\ Grown /\ There' = There
         /\ \A s \in Streams : \A n \in Nat : EventsAfter(s, n)' = EventsAfter(s, n)
         /\ \A e : WantedBy(e)' = WantedBy(e)
<1>1. Grown
  BY SameIsGrown DEF Still
<1>2. \A s \in Streams : \A n \in Nat : EventsAfter(s, n)' = EventsAfter(s, n)
  BY DEF Still, EventsAfter, EventsOf
<1>3. \A e : WantedBy(e)' = WantedBy(e)
  BY DEF Still, WantedBy, CursorWanted, AssistantWanted, Wanted, InPrivate, ChannelOf, IsThread, MessageOf
<1> QED BY <1>1, <1>2, <1>3 DEF Still, There

\* The page and the number read to stay, and so does what is accounted for.
LEMMA SettledKept ==
  ASSUME ShapeOK, SettledInv, Still, UNCHANGED <<life, last, from>>,
         scan'.page = scan.page, scan'.cut = scan.cut,
         scan'.at = "page" => scan.at = "page" /\ scan'.left = scan.left /\ scan'.max = scan.max,
         seen' \subseteq seen,
         \A e : Accounted(e) => Accounted(e)', WatchOK'
  PROVE  SettledInv'
<1>1. Grown /\ UNCHANGED program
  BY StillWanted DEF Still
<1>2. PassedIsSettled' /\ PageOK'
  BY <1>1, SettledStays DEF SettledInv
<1>3. SeenOK'
  BY <1>1 DEF SettledInv, SeenOK
<1> QED BY <1>2, <1>3 DEF SettledInv

LEMMA SettledByPaging ==
  ASSUME ShapeOK, SettledInv, Paged
  PROVE  SettledInv'
<1> USE DEF ShapeOK
<1>1. Still /\ UNCHANGED <<program, life, jobs, seen, last, from, outcomes>>
  BY DEF Paged, Still
<1>2. PICK s \in Streams : \E P \in SUBSET EventsAfter(s, last[s]), top \in Nat :
         /\ s = Head(scan.left)
         /\ scan' = [scan EXCEPT !.at = "page", !.page = P, !.max = top,
                                 !.cut = {e \in EventsAfter(s, last[s]) \ P : e.seq = top}]
         /\ last[s] <= top /\ top <= Len(messages[s])
         /\ \A e \in P : e.seq <= top
         /\ \A f \in EventsAfter(s, last[s]) \ P : top <= f.seq
  BY DEF Paged
<1>3. PICK P \in SUBSET EventsAfter(s, last[s]), top \in Nat :
         /\ s = Head(scan.left)
         /\ scan' = [scan EXCEPT !.at = "page", !.page = P, !.max = top,
                                 !.cut = {e \in EventsAfter(s, last[s]) \ P : e.seq = top}]
         /\ last[s] <= top /\ top <= Len(messages[s])
         /\ \A e \in P : e.seq <= top
         /\ \A f \in EventsAfter(s, last[s]) \ P : top <= f.seq
  BY <1>2
<1> DEFINE C == {e \in EventsAfter(s, last[s]) \ P : e.seq = top}
<1>4. scan'.at = "page" /\ scan'.page = P /\ scan'.cut = C /\ scan'.max = top /\ scan'.left = scan.left /\ Head(scan'.left) = s
  BY <1>3 DEF PollTypes, Scans
<1>5. /\ last[s] \in Nat /\ from[s] \in Nat /\ Len(messages[s]) \in Nat
      /\ \A e \in EventsAfter(s, last[s]) : /\ e \in Events /\ e.on = s /\ e.on \in There
                                            /\ e.seq \in last[s] + 1 .. Len(messages[s])
  <2>1. last[s] \in Nat /\ from[s] \in Nat
    BY DEF PollTypes
  <2> QED BY <2>1, EventsAreThese DEF WorldTypes
<1>6. \A e \in EventsAfter(s, last[s]) : e.seq <= top => e \in P \cup C
  BY <1>3, <1>5
<1> HIDE DEF C
<1>7. C \subseteq EventsAfter(s, last[s]) /\ \A e \in C : e.seq = top
  BY DEF C
<1>8. Accounted(s)' = Accounted(s) /\ \A e : Accounted(e)' = Accounted(e)
  BY <1>1 DEF Accounted, Taken
<1>9. There' = There /\ Len(messages'[s]) = Len(messages[s]) /\ (\A e : WantedBy(e)' = WantedBy(e))
      /\ EventsAfter(s, last[s])' = EventsAfter(s, last[s])
  BY <1>1, <1>5, StillWanted DEF Still
<1>10. PageOK'
  <2>1. \A e \in P \cup C : e.on = s /\ e.on \in There /\ last[e.on] < e.seq /\ last[e.on] <= e.seq /\ e.seq <= top
    BY <1>3, <1>5, <1>7
  <2> QED BY <1>1, <1>3, <1>4, <1>6, <1>7, <1>9, <2>1 DEF PageOK
<1>11. PassedIsSettled'
  <2>0. (scan.page = {} /\ scan.cut = {}) \/ program # "assistant"
    BY DEF Paged, LoopOK
  <2> SUFFICES ASSUME life.up, NEW r \in Streams, NEW e \in EventsAfter(r, from[r])', WantedBy(e)', e.seq <= last[r]
               PROVE  Accounted(e)' \/ e \in scan'.page \cup scan'.cut
    BY <1>1 DEF PassedIsSettled, Accounted
  <2>1. last[r] \in Nat /\ from[r] \in Nat
    BY DEF PollTypes
  <2>2. EventsAfter(r, from[r])' = EventsAfter(r, from[r]) /\ WantedBy(e)
    BY <1>1, <2>1, StillWanted
  <2>3. e.on = r
    BY <2>1, <2>2, EventsAreThese
  <2>4. Accounted(e) \/ e \in scan.page \cup scan.cut
    BY <2>2 DEF SettledInv, PassedIsSettled, Accounted
  <2>5. CASE Accounted(e)
    BY <1>8, <2>5
  <2>6. CASE e \in scan.page \cup scan.cut
    <3>1. last[e.on] < e.seq
      BY <2>0, <2>6 DEF SettledInv, PageOK
    <3>2. e.seq \in Nat
      BY <2>6, ScanFacts DEF Events
    <3> QED BY <2>1, <2>3, <3>1, <3>2
  <2> QED BY <2>4, <2>5, <2>6
<1>12. SeenOK' /\ WatchOK'
  BY <1>1, <1>8 DEF SettledInv, SeenOK, WatchOK, Taken, IsThread
<1> QED BY <1>10, <1>11, <1>12 DEF SettledInv

LEMMA SettledByTurning ==
  ASSUME ShapeOK, SettledInv, Turned
  PROVE  SettledInv'
<1> USE DEF ShapeOK
<1>1. Still /\ UNCHANGED <<program, life, jobs, seen, from>> /\ outcomes \subseteq outcomes'
  BY DEF Turned, Still
<1>2. \A e : Accounted(e) => Accounted(e)'
  BY <1>1 DEF Accounted, Taken
<1>3. scan'.page = {} /\ scan'.cut = {} /\ scan'.at # "page" /\ scan.page = {}
  BY DEF Turned
<1>4. \A e \in scan.cut : WantedBy(e) => Accounted(e)'
  BY DEF Turned, Accounted
<1> DEFINE s == Head(scan.left)
<1>5. s \in Streams /\ scan.max \in Nat
  BY DEF Turned, PollTypes, Scans, LoopOK
<1>6. \A e \in EventsAfter(s, last[s]) : WantedBy(e) /\ e.seq <= scan.max => e \in scan.cut \/ Accounted(e)
  BY <1>3 DEF Turned, SettledInv, PageOK
<1>7. \A r \in Streams : last'[r] = last[r] \/ (r = s /\ last'[r] = scan.max)
  BY <1>5 DEF Turned, PollTypes
<1> HIDE DEF s
<1>8. PassedIsSettled'
  <2> SUFFICES ASSUME life.up, NEW r \in Streams, NEW e \in EventsAfter(r, from[r])', WantedBy(e)', e.seq <= last'[r]
               PROVE  Accounted(e)'
    BY <1>1 DEF PassedIsSettled, Accounted
  <2>1. last[r] \in Nat /\ from[r] \in Nat
    BY DEF PollTypes
  <2>2. e \in EventsAfter(r, from[r]) /\ WantedBy(e)
    BY <1>1, <2>1, StillWanted
  <2>3. /\ e.on = r /\ e \in Events /\ Len(messages[r]) \in Nat
        /\ e.seq \in from[r] + 1 .. Len(messages[r]) /\ e.kind \in messages[r][e.seq].asks \cup {"message"}
    BY <2>1, <2>2, EventsAreThese
  <2>4. CASE e.seq <= last[r]
    <3>1. Accounted(e) \/ e \in scan.cut
      BY <1>3, <2>2, <2>4 DEF SettledInv, PassedIsSettled, Accounted
    <3> QED BY <1>2, <1>4, <2>2, <3>1
  <2>5. CASE ~(e.seq <= last[r])
    <3>1. r = s /\ e.seq <= scan.max
      BY <1>7, <2>5
    <3>2. e.seq \in last[r] + 1 .. Len(messages[r])
      BY <2>1, <2>3, <2>5
    <3>3. e \in EventsAfter(s, last[s])
      BY <2>1, <2>3, <3>1, <3>2, TheseAreEvents
    <3> QED BY <1>2, <1>4, <1>6, <2>2, <3>1, <3>3
  <2> QED BY <2>4, <2>5
<1>9. PageOK'
  BY <1>3, NoPage
<1>10. SeenOK' /\ WatchOK'
  BY <1>1, <1>2 DEF SettledInv, SeenOK, WatchOK, Taken, IsThread
<1> QED BY <1>8, <1>9, <1>10 DEF SettledInv

LEMMA SettledBySeeking ==
  ASSUME ShapeOK, SettledInv, Sought
  PROVE  SettledInv'
<1>1. Still /\ UNCHANGED <<program, life, jobs, seen, outcomes>> /\ program = "assistant"
  BY DEF Sought, Still
<1>2. PassedIsSettled'
  <2> SUFFICES ASSUME NEW r \in Streams, NEW e \in EventsAfter(r, from[r])', e.seq <= last'[r]
               PROVE  FALSE
    BY DEF PassedIsSettled
  <2>1. from'[r] \in Nat /\ from'[r] = last'[r]
    BY DEF Sought
  <2>2. e \in EventsAfter(r, from'[r])
    BY <1>1 DEF Still, EventsAfter, EventsOf
  <2>3. e.seq \in from'[r] + 1 .. Len(messages[r]) /\ Len(messages[r]) \in Nat
    BY <2>1, <2>2, EventsAreThese
  <2> QED BY <2>1, <2>3
<1>3. PageOK'
  BY NoPage DEF Sought
<1>4. SeenOK' /\ WatchOK'
  BY <1>1 DEF SettledInv, SeenOK, WatchOK, Taken, IsThread
<1> QED BY <1>2, <1>3, <1>4 DEF SettledInv

\* The process comes with nothing read, and goes with nothing in hand.
LEMMA SettledByComing ==
  ASSUME ShapeOK, SettledInv, (Start /\ UNCHANGED chatVars) \/ Stopped
  PROVE  SettledInv'
<1> USE DEF ShapeOK
<1>1. CASE Start /\ UNCHANGED chatVars
  <2>1. jobs' = {} /\ seen' = {} /\ last' = Zero /\ from' = Zero /\ UNCHANGED messages
        /\ scan' = [Asleep EXCEPT !.at = "boot", !.due = program = "poet"]
    BY <1>1 DEF Start, LoopOK
  <2>2. scan'.page = {} /\ scan'.cut = {} /\ scan'.at # "page"
    BY <2>1 DEF Asleep
  <2>3. PassedIsSettled'
    <3> SUFFICES ASSUME NEW r \in Streams, NEW e \in EventsAfter(r, from[r])', e.seq <= last'[r]
                 PROVE  FALSE
      BY DEF PassedIsSettled
    <3>1. from'[r] = 0 /\ last'[r] = 0
      BY <2>1 DEF Zero
    <3>2. e \in EventsAfter(r, 0)
      BY <2>1, <3>1 DEF EventsAfter, EventsOf
    <3>3. e.seq \in 1 .. Len(messages[r]) /\ Len(messages[r]) \in Nat
      BY <3>2, EventsAreThese
    <3> QED BY <3>1, <3>3
  <2> QED BY <2>1, <2>2, <2>3, NoPage DEF SettledInv, SeenOK, WatchOK
<1>2. CASE Stopped
  <2>1. ~life'.up /\ jobs' = {} /\ scan' = Asleep
    BY <1>2, StoppedShape
  <2>2. scan'.page = {} /\ scan'.cut = {} /\ scan'.at # "page"
    BY <2>1 DEF Asleep
  <2> QED BY <2>1, <2>2, NoPage DEF SettledInv, PassedIsSettled, SeenOK, WatchOK
<1> QED BY <1>1, <1>2

LEMMA SettledByTaking ==
  ASSUME ShapeOK, SettledInv, TakenUp
  PROVE  SettledInv'
<1> USE DEF ShapeOK
<1>1. PICK N : TookUp(N) /\ TookOnce(N) /\ TookAll /\ TookToRuns(N)
  BY DEF TakenUp
<1>2. Still /\ UNCHANGED <<program, life, from>> /\ outcomes \subseteq outcomes' /\ jobs' = jobs \cup N
  BY <1>1 DEF TookUp, Still
<1>3. \A e : Accounted(e) => Accounted(e)'
  BY <1>2 DEF Accounted, Taken
<1>4. /\ scan'.at = scan.at /\ scan'.left = scan.left /\ scan'.cut = scan.cut /\ scan'.max = scan.max
      /\ scan'.page \subseteq scan.page /\ scan.page \subseteq Events /\ scan.cut \subseteq Events
  BY <1>1, ScanFacts DEF TookUp
<1>5. \A s \in Streams : /\ last[s] \in Nat /\ last'[s] \in Nat /\ from[s] \in Nat
                         /\ last[s] <= last'[s] /\ last'[s] <= Len(messages[s]) /\ Len(messages[s]) \in Nat
  BY <1>1 DEF TookAll, PollTypes, WorldTypes
<1>6. \A e \in scan.page \cup scan.cut : WantedBy(e) => e \in scan'.page \cup scan'.cut \/ Accounted(e)'
  BY <1>1, <1>4 DEF TookAll
<1>7. PassedIsSettled'
  <2> SUFFICES ASSUME life.up, NEW r \in Streams, NEW e \in EventsAfter(r, from[r])', WantedBy(e)', e.seq <= last'[r]
               PROVE  Accounted(e)' \/ e \in scan'.page \cup scan'.cut
    BY <1>2 DEF PassedIsSettled, Accounted
  <2>2. e \in EventsAfter(r, from[r]) /\ WantedBy(e)
    BY <1>2, <1>5, StillWanted
  <2>3. /\ e.on = r /\ e \in Events /\ Len(messages[r]) \in Nat
        /\ e.seq \in from[r] + 1 .. Len(messages[r]) /\ e.kind \in messages[r][e.seq].asks \cup {"message"}
    BY <1>5, <2>2, EventsAreThese
  <2>4. Accounted(e) \/ e \in scan.page \cup scan.cut \/ Accounted(e)'
    <3>1. CASE e.seq <= last[r]
      BY <1>2, <2>2, <3>1 DEF SettledInv, PassedIsSettled, Accounted
    <3>2. CASE ~(e.seq <= last[r])
      <4>1. e.seq \in last[r] + 1 .. Len(messages[r])
        BY <1>5, <2>3, <3>2
      <4>2. e \in EventsAfter(r, last[r])
        BY <1>5, <2>3, <4>1, TheseAreEvents
      <4> QED BY <1>1, <2>2, <4>2 DEF TookAll
    <3> QED BY <3>1, <3>2
  <2> QED BY <1>3, <1>6, <2>2, <2>4
<1>8. ASSUME scan.at = "page"
      PROVE  (/\ \A e \in scan.page \cup scan.cut :
                   e.on = Head(scan.left) /\ e.on \in There /\ last[e.on] <= e.seq /\ e.seq <= scan.max
              /\ \A e \in scan.cut : e.seq = scan.max
              /\ last[Head(scan.left)] <= scan.max /\ scan.max <= Len(messages[Head(scan.left)])
              /\ \A e \in EventsAfter(Head(scan.left), last[Head(scan.left)]) :
                   WantedBy(e) /\ e.seq <= scan.max => e \in scan.page \cup scan.cut \/ Accounted(e))'
  <2> DEFINE s == Head(scan.left)
  <2>1. s \in Streams /\ scan.max \in Nat /\ s' = s
    BY <1>4, <1>8 DEF PollTypes, Scans, LoopOK
  <2>2. scan.max <= Len(messages[s]) /\ last'[s] <= scan.max
    BY <1>1, <1>8 DEF PageOK, SettledInv, TookAll
  <2>3. \A e \in EventsAfter(s, last[s]) : WantedBy(e) /\ e.seq <= scan.max => e \in scan.page \cup scan.cut \/ Accounted(e)
    BY <1>8 DEF PageOK, SettledInv
  <2>4. \A e \in scan.page \cup scan.cut : e.on = s /\ e.on \in There /\ last[e.on] <= e.seq /\ e.seq <= scan.max
    BY <1>8 DEF PageOK, SettledInv
  <2>5. \A e \in scan.cut : e.seq = scan.max
    BY <1>8 DEF PageOK, SettledInv
  <2>6. s' = s /\ There' = There /\ messages' = messages
    BY <1>2, <2>1 DEF Still, There
  <2> HIDE DEF s
  <2>7. ASSUME NEW e \in EventsAfter(s, last'[s]), WantedBy(e)', e.seq <= scan.max
        PROVE  e \in scan'.page \cup scan'.cut \/ Accounted(e)'
    <3>1. /\ e.on = s /\ e \in Events /\ e.seq \in last'[s] + 1 .. Len(messages[s])
          /\ e.kind \in messages[s][e.seq].asks \cup {"message"}
      BY <1>5, <2>1, EventsAreThese
    <3>2. e.seq \in last[s] + 1 .. Len(messages[s])
      BY <1>5, <2>1, <3>1
    <3>3. e \in EventsAfter(s, last[s])
      BY <1>5, <2>1, <3>1, <3>2, TheseAreEvents
    <3>4. WantedBy(e)
      BY <1>2, <2>7, StillWanted
    <3> QED BY <1>3, <1>6, <2>3, <2>7, <3>3, <3>4
  <2>8. EventsAfter(s, last[s])' = EventsAfter(s, last'[s])
    BY <2>6 DEF EventsAfter, EventsOf
  <2>9. ASSUME NEW e \in scan'.page \cup scan'.cut  PROVE last'[e.on] <= e.seq
    <3>1. e \in scan'.page \cup scan.cut /\ e \in scan.page \cup scan.cut
      BY <1>4, <2>9
    <3>2. last'[e.on] = last[e.on] \/ last'[e.on] <= e.seq
      BY <1>1, <3>1 DEF TookAll
    <3> QED BY <2>4, <3>1, <3>2
  <2>10. (\A e \in scan.page \cup scan.cut : e.on = s /\ e.on \in There /\ last[e.on] <= e.seq /\ e.seq <= scan.max)'
    BY <1>4, <2>4, <2>6, <2>9
  <2>11. (last[s] <= scan.max /\ scan.max <= Len(messages[s]))'
    BY <1>4, <2>2, <2>6
  <2> QED BY <1>4, <2>5, <2>6, <2>7, <2>8, <2>10, <2>11 DEF s
<1>9. (program # "assistant" => \A e \in scan.page \cup scan.cut : last[e.on] < e.seq)'
  BY <1>1, <1>2, <1>4 DEF SettledInv, PageOK, TookAll
<1>10. PageOK'
  BY <1>4, <1>8, <1>9 DEF PageOK
<1>11. SeenOK'
  <2> SUFFICES ASSUME life.up, program \in {"poet", "weather"}, NEW e \in seen'  PROVE Accounted(e)'
    BY <1>2 DEF SeenOK
  <2> QED BY <1>1, <1>3 DEF SettledInv, SeenOK, TookAll
<1>12. WatchOK'
  <2>1. \A k \in N : k.stage # "final" /\ (k.stage = "relay" => k.key.kind = "message" /\ k.key.on \in DOMAIN sessions)
    BY <1>1 DEF TookUp, TookToRuns
  <2>2. DOMAIN sessions \subseteq Threads
    BY DEF ChatTypes
  <2> QED BY <1>2, <2>1, <2>2 DEF SettledInv, WatchOK, Taken, IsThread
<1> QED BY <1>7, <1>10, <1>11, <1>12 DEF SettledInv

LEMMA SettledInStep ==
  ASSUME ShapeOK, SettledInv, AgentStep
  PROVE  SettledInv'
<1> USE DEF ShapeOK
<1>1. CASE UserStep
  <2>1. Grown /\ UNCHANGED <<program, life, jobs, seen, last, from, scan, outcomes>>
    BY <1>1, UserGrown DEF UserStep, pollVars
  <2>2. \A e : Accounted(e)' = Accounted(e)
    BY <2>1 DEF Accounted, Taken
  <2>3. PassedIsSettled' /\ PageOK'
    BY <2>1, <2>2, SettledStays DEF SettledInv
  <2> QED BY <2>1, <2>2, <2>3 DEF SettledInv, SeenOK, WatchOK, Taken, IsThread
<1>2. ASSUME NEW j \in jobs, ClientStep(j)  PROVE SettledInv'
  <2>1. Grown /\ UNCHANGED <<program, life, seen, last, from, scan, outcomes>>
    BY <1>2, ClientGrown DEF ClientStep, pollVars
  <2>2. PICK k : Becomes(j, k) /\ GoesOn(j, k)
    BY <1>2 DEF ClientStep
  <2>3. jobs' = (jobs \ {j}) \cup {k} /\ k.key = j.key /\ (k.stage = j.stage \/ {j.stage, k.stage} \subseteq FirstStages)
    BY <2>2 DEF Becomes, GoesOn
  <2>4. \A e : Accounted(e) => Accounted(e)'
    BY <2>1, <2>3 DEF Accounted, Taken
  <2>5. PassedIsSettled' /\ PageOK'
    BY <2>1, <2>4, SettledStays DEF SettledInv
  <2>6. WatchOK'
    BY <2>1, <2>3 DEF SettledInv, WatchOK, Taken, IsThread, FirstStages
  <2> QED BY <2>1, <2>4, <2>5, <2>6 DEF SettledInv, SeenOK
<1>3. CASE Moved
  <2>1. Still /\ UNCHANGED <<program, life, jobs, seen, last, from, outcomes>> /\ scan'.at # "page"
        /\ scan'.page = scan.page /\ scan'.cut = scan.cut
    BY <1>3 DEF Moved, Still
  <2>2. \A e : Accounted(e)' = Accounted(e)
    BY <2>1 DEF Accounted, Taken
  <2>3. WatchOK'
    BY <2>1 DEF SettledInv, WatchOK, Taken, IsThread
  <2> QED BY <2>1, <2>2, <2>3, SettledKept
<1>4. CASE Begun
  <2>1. Still /\ UNCHANGED <<program, life, seen, last, from, outcomes>> /\ jobs = {}
    BY <1>4 DEF Begun, Still
  <2>2. PICK k \in Handlers : jobs' = {k} /\ k.stage \in {"arrival", "periodic"}
    BY <1>4 DEF Begun
  <2>3. scan'.page = scan.page /\ scan'.cut = scan.cut /\ scan'.at # "page"
    BY <1>4, ScanMoves DEF Begun, ScanPoints
  <2>4. \A e : Accounted(e) => Accounted(e)'
    BY <2>1 DEF Accounted, Taken
  <2>5. WatchOK'
    BY <2>2 DEF WatchOK
  <2> QED BY <2>1, <2>3, <2>4, <2>5, SettledKept
<1>5. ASSUME NEW j \in jobs, Dropped(j)  PROVE SettledInv'
  <2>1. Still /\ UNCHANGED <<program, life, last, from>> /\ jobs' = jobs \ {j} /\ outcomes \subseteq outcomes'
        /\ seen' \subseteq seen /\ (Taken(j.key)' \/ j.stage \in {"arrival", "periodic", "final", "relay"})
    BY <1>5 DEF Dropped, Still
  <2>2. /\ scan'.page = scan.page /\ scan'.cut = scan.cut
        /\ scan'.at = "page" => scan.at = "page" /\ scan'.left = scan.left /\ scan'.max = scan.max
    BY <1>5 DEF Dropped
  <2>3. \A e : Taken(e) => Taken(e)'
    BY <2>1 DEF Taken
  <2>4. \A e : Accounted(e) => Accounted(e)' \/ (e = j.key /\ j.stage \in {"arrival", "periodic", "relay"})
    BY <2>1, <2>3 DEF Accounted, SettledInv, WatchOK
  <2>5. j.stage \in {"arrival", "periodic"} => j.key = None
    BY HandlerFacts DEF Placed
  <2>6. None \notin Events /\ None \notin Keys
    <3>1. None \notin [kind : {"message", "command", "mention", "run"}, on : Streams, seq : Nat]
      BY WorldConstants
    <3>2. Keys = [kind : {"message", "command", "mention", "run"}, on : Streams, seq : Nat]
      <4>1. Kinds \cup {"run"} = {"message", "command", "mention", "run"}
        BY DEF Kinds
      <4> QED BY <4>1 DEF Keys
    <3>3. Events \subseteq Keys
      BY DEF Events, Keys
    <3> QED BY <3>1, <3>2, <3>3
  <2>7. j.stage = "relay" => j.key \in Events /\ program = "cursor" /\ ~WantedBy(j.key)
    <3> SUFFICES ASSUME j.stage = "relay"  PROVE j.key \in Events /\ program = "cursor" /\ ~WantedBy(j.key)
      OBVIOUS
    <3>1. j.key \in Events
      BY HandlerFacts
    <3>2. program = "cursor"
      BY HandlerFacts DEF StagesOf, WorldTypes
    <3>3. j.key.kind = "message" /\ IsThread(j.key.on)
      BY DEF SettledInv, WatchOK
    <3> QED BY <3>1, <3>2, <3>3 DEF WantedBy, CursorWanted
  <2>8. j.stage \in {"arrival", "periodic"} => program # "cursor"
    BY HandlerFacts DEF StagesOf
  <2>9. \A e \in Events : e.on \in There /\ WantedBy(e) /\ Accounted(e) => Accounted(e)'
    BY <2>4, <2>5, <2>6, <2>7
  <2>10. program \in {"poet", "weather"} => \A e \in seen' : Accounted(e) => Accounted(e)'
    BY <2>1, <2>4, <2>5, <2>6, <2>7 DEF PollTypes
  <2>11. Grown
    BY <2>1, StillWanted
  <2>12. PassedIsSettled' /\ PageOK'
    BY <2>1, <2>2, <2>9, <2>11, SettledStays DEF SettledInv
  <2>13. WatchOK'
    BY <2>1, <2>3 DEF SettledInv, WatchOK, IsThread
  <2> QED BY <2>1, <2>10, <2>12, <2>13 DEF SettledInv, SeenOK
<1>6. ASSUME NEW j \in jobs, NEW k, CursorWork(j, k)  PROVE SettledInv'
  <2>1. Still /\ UNCHANGED <<program, life, seen, last, from, scan>> /\ jobs' = (jobs \ {j}) \cup {k}
        /\ k.key = j.key /\ outcomes \subseteq outcomes' /\ (k.stage = "final" => j.stage = "final" \/ Taken(j.key)')
        /\ (k.stage = "relay" => j.stage = "relay")
    BY <1>6 DEF CursorWork, Becomes, Still, Launch, Watch, Tell, Untold
  <2>2. \A e : Taken(e) => Taken(e)'
    BY <2>1 DEF Taken
  <2>3. \A e : Accounted(e) => Accounted(e)'
    BY <2>1, <2>2 DEF Accounted
  <2>4. WatchOK'
    BY <2>1, <2>2 DEF SettledInv, WatchOK, IsThread
  <2> QED BY <2>1, <2>3, <2>4, SettledKept
<1>7. CASE UNCHANGED allVars
  <2>1. UNCHANGED <<program, life, threads, messages, jobs, seen, last, from, scan, outcomes>> /\ There' = There
    BY <1>7 DEF allVars, worldVars, pollVars, chatVars, There
  <2>2. Grown
    BY <2>1, SameIsGrown
  <2>3. \A e : Accounted(e)' = Accounted(e)
    BY <2>1 DEF Accounted, Taken
  <2>4. PassedIsSettled' /\ PageOK'
    BY <2>1, <2>2, <2>3, SettledStays DEF SettledInv
  <2> QED BY <2>1, <2>3, <2>4 DEF SettledInv, SeenOK, WatchOK, Taken, IsThread
<1> QED BY <1>1, <1>2, <1>3, <1>4, <1>5, <1>6, <1>7, SettledByPaging, SettledByTurning, SettledBySeeking,
           SettledByComing, SettledByTaking DEF AgentStep

LEMMA SettledAtFirst ==
  ASSUME AgentsInit
  PROVE  SettledInv
<1>1. ~life.up /\ jobs = {} /\ scan = Asleep
  BY DEF AgentsInit, WorldInit, PollInit
<1> QED BY <1>1 DEF SettledInv, PassedIsSettled, PageOK, SeenOK, WatchOK, Asleep

(***************************************************************************)
(* A message launches one run for its command and its mention.             *)
(***************************************************************************)
\* The runs stay, and so do the handlers of invocations, or new ones begin for what was not remembered.
LEMMA RunsKept ==
  ASSUME ShapeOK, RunsOK, Grown, life'.n = life.n, life'.up => life.up, Len(runs') = Len(runs), runs' \in Seq(Launches),
         \A r \in DOMAIN runs : runs'[r].key = runs[r].key /\ runs'[r].life = runs[r].life,
         \A r \in DOMAIN runs : life'.up /\ Remembered(runs[r].key) \in seen => Remembered(runs[r].key) \in seen',
         \A j \in jobs' : j.stage \in FirstStages =>
           (\E i \in jobs : i.stage \in FirstStages /\ i.key = j.key) \/ \A r \in DOMAIN runs : Remembered(j.key) # Remembered(runs[r].key)
                                                                            \/ Remembered(runs[r].key) \notin seen,
         (\A j \in jobs : j.stage \in {"ack", "norepo"} /\ j.key.kind = "message" => InPrivate(j.key.on))'
  PROVE  RunsOK'
<1>1. DOMAIN runs' = DOMAIN runs /\ \A e : Remembered(e)' = Remembered(e)
  BY DEF ShapeOK, ChatTypes, Remembered
<1>2. \A s \in There : InPrivate(s)' = InPrivate(s) /\ s \in There'
  <2> SUFFICES ASSUME NEW s \in There  PROVE InPrivate(s)' = InPrivate(s)
    BY DEF Grown
  <2>1. CASE s \in Threads
    <3>1. s \in DOMAIN threads
      BY <2>1, WorldConstants DEF There, Streams
    <3> QED BY <3>1 DEF Grown, InPrivate, ChannelOf
  <2>2. CASE s \notin Threads
    BY <2>2 DEF InPrivate, ChannelOf
  <2> QED BY <2>1, <2>2
<1>3. ASSUME NEW r \in DOMAIN runs
      PROVE  /\ runs'[r].life <= life'.n /\ runs'[r].key.on \in There'
             /\ runs'[r].key.kind = "message" => InPrivate(runs[r].key.on)'
             /\ life'.up /\ runs'[r].life = life'.n =>
                  /\ Remembered(runs'[r].key) \in seen'
                  /\ \A j \in jobs' : j.stage \in FirstStages => Remembered(j.key) # Remembered(runs'[r].key)
  <2>0. runs'[r].key = runs[r].key /\ runs'[r].life = runs[r].life
    OBVIOUS
  <2>1. runs[r].life <= life.n /\ runs[r].key.on \in There /\ (runs[r].key.kind = "message" => InPrivate(runs[r].key.on))
    BY DEF RunsOK
  <2>2. runs[r].key.on \in There' /\ (InPrivate(runs[r].key.on) => InPrivate(runs[r].key.on)')
    <3>1. PICK s \in There : s = runs[r].key.on
      BY <2>1
    <3>2. InPrivate(s)' = InPrivate(s) /\ s \in There'
      BY <1>2
    <3>3. runs'[r].key.on = s
      BY <2>0, <3>1
    <3> QED BY <3>1, <3>2, <3>3 DEF InPrivate, ChannelOf
  <2>3. ASSUME life'.up, runs[r].life = life.n
        PROVE  /\ Remembered(runs[r].key) \in seen'
               /\ \A j \in jobs' : j.stage \in FirstStages => Remembered(j.key) # Remembered(runs[r].key)
    <3>1. Remembered(runs[r].key) \in seen /\ \A j \in jobs : j.stage \in FirstStages => Remembered(j.key) # Remembered(runs[r].key)
      BY <2>3 DEF RunsOK
    <3>2. Remembered(runs[r].key) \in seen'
      BY <2>3, <3>1
    <3>3. ASSUME NEW j \in jobs', j.stage \in FirstStages  PROVE Remembered(j.key) # Remembered(runs[r].key)
      <4>1. (\E i \in jobs : i.stage \in FirstStages /\ i.key = j.key) \/ Remembered(j.key) # Remembered(runs[r].key)
        BY <3>1, <3>3
      <4> QED BY <3>1, <4>1
    <3> QED BY <3>2, <3>3
  <2> QED BY <2>0, <2>1, <2>2, <2>3
<1>4. \A q, r \in DOMAIN runs :
        q # r /\ runs'[q].life = runs'[r].life => Remembered(runs'[q].key) # Remembered(runs'[r].key)
  BY DEF RunsOK
<1> QED BY <1>1, <1>3, <1>4 DEF RunsOK

\* A message launches one run: the run is launched by the one handler of its invocation.
LEMMA RunLaunched ==
  ASSUME ShapeOK, RunsOK, TakenUpOK, NEW j \in jobs, NEW k, CursorWork(j, k), Launch(j, k),
         runs' = Append(runs, [key |-> j.key, life |-> life.n, heard |-> <<>>, up |-> TRUE])
  PROVE  RunsOK'
<1> USE DEF ShapeOK
<1> DEFINE new == [key |-> j.key, life |-> life.n, heard |-> <<>>, up |-> TRUE]
<1>1. /\ Still /\ UNCHANGED <<program, life, seen, threads>> /\ program = "cursor" /\ jobs' = (jobs \ {j}) \cup {k}
      /\ k.stage \in {"running", "error"} /\ j.stage = "ack" /\ k.key = j.key /\ j.key \in Events
  BY DEF CursorWork, Becomes, Still, Launch
<1>2. life.up /\ j.key.on \in There /\ There' = There /\ life.n \in Nat
  BY <1>1, HandlerFacts DEF LoopOK, Still, There, WorldTypes
<1>3. j.stage \in FirstStages /\ k.stage \notin FirstStages
  BY <1>1 DEF FirstStages
<1>4. Remembered(j.key) \in seen
  BY <1>1, <1>3 DEF TakenUpOK, Reopenable
<1>5. \A i \in jobs' : i.stage \in FirstStages => Remembered(i.key) # Remembered(j.key)
  BY <1>1, <1>3 DEF TakenUpOK, Same
<1>6. \A r \in DOMAIN runs : runs[r].life = life.n => Remembered(j.key) # Remembered(runs[r].key)
  BY <1>2, <1>3 DEF RunsOK
<1>7. j.key.kind = "message" => InPrivate(j.key.on)
  BY <1>1 DEF RunsOK
<1>8. /\ Len(runs) \in Nat /\ DOMAIN runs = 1 .. Len(runs) /\ DOMAIN runs' = 1 .. Len(runs) + 1
      /\ \A r \in DOMAIN runs : runs'[r] = runs[r]
      /\ runs'[Len(runs) + 1] = new
  BY DEF ChatTypes, Launches
<1>9. \A r \in DOMAIN runs' : r \in DOMAIN runs \/ r = Len(runs) + 1
  BY <1>8
<1>10. new.key = j.key /\ new.life = life.n
  OBVIOUS
<1> HIDE DEF new
<1>11. \A e : Remembered(e)' = Remembered(e)
  BY DEF Remembered
<1>12. ASSUME NEW r \in DOMAIN runs'
       PROVE  (/\ runs[r].life <= life.n /\ runs[r].key.on \in There
               /\ runs[r].key.kind = "message" => InPrivate(runs[r].key.on)
               /\ life.up /\ runs[r].life = life.n =>
                    /\ Remembered(runs[r].key) \in seen
                    /\ \A i \in jobs : i.stage \in FirstStages => Remembered(i.key) # Remembered(runs[r].key))'
  <2>1. CASE r \in DOMAIN runs
    <3>1. /\ runs[r].life <= life.n /\ runs[r].key.on \in There
          /\ runs[r].key.kind = "message" => InPrivate(runs[r].key.on)
          /\ runs[r].life = life.n =>
               /\ Remembered(runs[r].key) \in seen
               /\ \A i \in jobs : i.stage \in FirstStages => Remembered(i.key) # Remembered(runs[r].key)
      BY <1>2, <2>1 DEF RunsOK
    <3>2. runs'[r] = runs[r]
      BY <1>8, <2>1
    <3>3. \A i \in jobs' : i.stage \in FirstStages => i \in jobs
      BY <1>1, <1>3
    <3>4. InPrivate(runs[r].key.on)' = InPrivate(runs[r].key.on)
      BY <1>1, <3>2 DEF InPrivate, ChannelOf
    <3> QED BY <1>1, <1>2, <3>1, <3>2, <3>3, <3>4
  <2>2. CASE r = Len(runs) + 1
    <3>1. runs'[r].key = j.key /\ runs'[r].life = life.n
      BY <1>8, <1>10, <2>2
    <3>2. InPrivate(runs[r].key.on)' = InPrivate(j.key.on)
      BY <1>1, <3>1 DEF InPrivate, ChannelOf
    <3> QED BY <1>1, <1>2, <1>4, <1>5, <1>7, <3>1, <3>2
  <2> QED BY <1>9, <2>1, <2>2
<1>13. ASSUME NEW q \in DOMAIN runs', NEW r \in DOMAIN runs', q # r, runs'[q].life = runs'[r].life
       PROVE  Remembered(runs'[q].key) # Remembered(runs'[r].key)
  <2>1. CASE q \in DOMAIN runs /\ r \in DOMAIN runs
    BY <1>8, <1>13, <2>1 DEF RunsOK
  <2>2. CASE q \in DOMAIN runs /\ r = Len(runs) + 1
    BY <1>6, <1>8, <1>10, <1>13, <2>2
  <2>3. CASE r \in DOMAIN runs /\ q = Len(runs) + 1
    BY <1>6, <1>8, <1>10, <1>13, <2>3
  <2> QED BY <1>9, <1>13, <2>1, <2>2, <2>3
<1>14. (\A i \in jobs : i.stage \in {"ack", "norepo"} /\ i.key.kind = "message" => InPrivate(i.key.on))'
  BY <1>1 DEF RunsOK, InPrivate, ChannelOf
<1> QED BY <1>12, <1>13, <1>14 DEF RunsOK

LEMMA RunsInStep ==
  ASSUME ShapeOK, RunsOK, TakenUpOK, AgentStep
  PROVE  RunsOK'
<1> USE DEF ShapeOK
<1> DEFINE MessagesArePrivate == \A j \in jobs : j.stage \in {"ack", "norepo"} /\ j.key.kind = "message" => InPrivate(j.key.on)
<1>0. runs \in Seq(Launches) /\ (program # "cursor" => runs = <<>> /\ DOMAIN runs = {})
      /\ life.n \in Nat /\ MessagesArePrivate
  BY DEF ChatTypes, LoopOK, WorldTypes, RunsOK
<1>1. CASE UserStep
  <2>1. Grown /\ UNCHANGED <<life, jobs, seen, runs, threads>>
    BY <1>1, UserGrown DEF UserStep, pollVars, chatVars
  <2>2. MessagesArePrivate'
    BY <1>0, <2>1 DEF InPrivate, ChannelOf
  <2> QED BY <1>0, <2>1, <2>2, RunsKept
<1>2. ASSUME NEW j \in jobs, ClientStep(j)  PROVE RunsOK'
  <2>1. Grown /\ UNCHANGED <<program, life, seen, runs>>
    BY <1>2, ClientGrown DEF ClientStep, pollVars, chatVars
  <2>2. PICK k : Becomes(j, k) /\ GoesOn(j, k) /\ HandlerOK(k)'
    BY <1>2 DEF ClientStep
  <2>3. jobs' = (jobs \ {j}) \cup {k} /\ k.key = j.key /\ (k.stage = j.stage \/ {j.stage, k.stage} \subseteq FirstStages)
    BY <2>2 DEF Becomes, GoesOn
  <2>4. ASSUME NEW i \in jobs', i.stage \in {"ack", "norepo"}, i.key.kind = "message"  PROVE InPrivate(i.key.on)'
    <3>1. PICK m \in jobs : m.key = i.key /\ m.stage \in FirstStages
      BY <2>3, <2>4 DEF FirstStages
    <3>2. PICK s \in Streams : s = i.key.on /\ s \in There
      BY <3>1, HandlerFacts, ThereAreStreams DEF FirstStages
    <3>3. m.stage \in {"ack", "norepo"}
      <4>1. i.stage \in StagesOf(program)
        BY <2>1, <2>2, <2>3, HandlerFacts DEF HandlerOK, StagesOf
      <4>2. program = "cursor"
        BY <2>4, <4>1 DEF StagesOf, WorldTypes
      <4> QED BY <3>1, <4>2, HandlerFacts DEF StagesOf, FirstStages
    <3>4. InPrivate(s)
      BY <1>0, <2>4, <3>1, <3>2, <3>3
    <3>5. InPrivate(s)'
      <4>1. CASE s \in Threads
        <5>1. s \in DOMAIN threads
          BY <3>2, <4>1, WorldConstants DEF There, Streams
        <5> QED BY <2>1, <3>4, <5>1 DEF Grown, InPrivate, ChannelOf
      <4>2. CASE s \notin Threads
        BY <3>4, <4>2 DEF InPrivate, ChannelOf
      <4> QED BY <4>1, <4>2
    <3> QED BY <3>2, <3>5
  <2>5. MessagesArePrivate'
    BY <2>4
  <2>6. \A i \in jobs' : i.stage \in FirstStages => \E m \in jobs : m.stage \in FirstStages /\ m.key = i.key
    BY <2>3
  <2> QED BY <1>0, <2>1, <2>5, <2>6, RunsKept
<1>3. CASE Start /\ UNCHANGED chatVars
  <2>1. UNCHANGED <<runs, threads>> /\ jobs' = {} /\ life'.n = life.n + 1 /\ There' = There
    BY <1>3 DEF Start, LoopOK, chatVars, There
  <2>2. \A r \in DOMAIN runs : runs[r].life <= life.n /\ runs[r].life \in Nat
    <3>1. \A r \in DOMAIN runs : runs[r] \in Launches
      BY <1>0
    <3> QED BY <3>1 DEF RunsOK, Launches
  <2>3. \A r \in DOMAIN runs : runs[r].life <= life'.n /\ runs[r].life # life'.n
    BY <1>0, <2>1, <2>2
  <2>4. \A e : Remembered(e)' = Remembered(e)
    BY DEF Remembered
  <2> QED BY <2>1, <2>3, <2>4 DEF RunsOK, InPrivate, ChannelOf
<1>4. CASE Stopped
  <2>1. UNCHANGED <<runs, threads, seen>> /\ jobs' = {} /\ life'.n = life.n /\ ~life'.up /\ Grown
    BY <1>4, StoppedShape, SameIsGrown
  <2>2. MessagesArePrivate'
    BY <2>1
  <2> QED BY <1>0, <2>1, <2>2, RunsKept
<1>5. ASSUME Still, UNCHANGED <<life, runs>>, jobs' \subseteq jobs, seen' = seen \/ runs = <<>>  PROVE RunsOK'
  <2>1. Grown /\ UNCHANGED threads
    BY <1>5, StillWanted DEF Still
  <2>2. MessagesArePrivate'
    BY <1>0, <1>5, <2>1 DEF InPrivate, ChannelOf
  <2>3. \A r \in DOMAIN runs : Remembered(runs[r].key) \in seen => Remembered(runs[r].key) \in seen'
    BY <1>5
  <2>4. \A i \in jobs' : i.stage \in FirstStages => \E m \in jobs : m.stage \in FirstStages /\ m.key = i.key
    BY <1>5
  <2> QED BY <1>0, <1>5, <2>1, <2>2, <2>3, <2>4, RunsKept
<1>6. CASE Moved \/ Paged \/ Turned \/ Sought
  BY <1>5, <1>6 DEF Moved, Paged, Turned, Sought, chatVars
<1>7. CASE Begun
  <2>1. Still /\ UNCHANGED <<life, seen, runs, threads>> /\ Grown
    BY <1>7, StillWanted DEF Begun, chatVars, Still
  <2>2. PICK k \in Handlers : jobs' = {k} /\ k.stage \in {"arrival", "periodic"}
    BY <1>7 DEF Begun
  <2>3. MessagesArePrivate' /\ \A i \in jobs' : i.stage \notin FirstStages
    BY <2>2 DEF FirstStages
  <2> QED BY <1>0, <2>1, <2>3, RunsKept
<1>8. CASE TakenUp
  <2>1. PICK N : TookUp(N) /\ TookOnce(N) /\ TookToRuns(N)
    BY <1>8 DEF TakenUp
  <2>2. Still /\ UNCHANGED <<program, life, runs, threads>> /\ Grown /\ jobs' = jobs \cup N /\ seen \subseteq seen'
    BY <2>1, StillWanted DEF TookUp, Still
  <2>3. ASSUME NEW i \in jobs', i.stage \in {"ack", "norepo"}, i.key.kind = "message"  PROVE InPrivate(i.key.on)
    BY <1>0, <2>1, <2>2, <2>3 DEF TookUp, TookToRuns
  <2>4. MessagesArePrivate'
    BY <2>2, <2>3 DEF InPrivate, ChannelOf
  <2>5. ASSUME NEW i \in N, i.stage \in FirstStages, NEW r \in DOMAIN runs
        PROVE  Remembered(i.key) # Remembered(runs[r].key) \/ Remembered(runs[r].key) \notin seen
    <3>1. program = "cursor" /\ i.stage # "relay"
      BY <1>0, <2>5 DEF FirstStages
    <3> QED BY <2>1, <2>5, <3>1 DEF TookOnce, Reopenable
  <2> QED BY <1>0, <2>2, <2>4, <2>5, RunsKept
<1>9. ASSUME NEW j \in jobs, Dropped(j)  PROVE RunsOK'
  BY <1>0, <1>5, <1>9 DEF Dropped
<1>10. ASSUME NEW j \in jobs, NEW k, CursorWork(j, k)  PROVE RunsOK'
  <2>1. Still /\ UNCHANGED <<life, seen, threads>> /\ Grown /\ jobs' = (jobs \ {j}) \cup {k}
        /\ k.stage \in {"running", "error", "final", "relay"} /\ runs' \in Seq(Launches)
    BY <1>10, StillWanted DEF CursorWork, Becomes, Still
  <2>2. CASE Launch(j, k) /\ runs' # runs
    BY <1>10, <2>2, RunLaunched DEF Launch
  <2>3. CASE /\ Len(runs') = Len(runs)
             /\ \A r \in DOMAIN runs : runs'[r].key = runs[r].key /\ runs'[r].life = runs[r].life
    <3>1. MessagesArePrivate'
      BY <1>0, <2>1 DEF InPrivate, ChannelOf
    <3>2. \A i \in jobs' : i.stage \in FirstStages => i \in jobs
      BY <2>1 DEF FirstStages
    <3> QED BY <2>1, <2>3, <3>1, <3>2, RunsKept
  <2>4. CASE UNCHANGED runs
    BY <2>3, <2>4
  <2>5. CASE RunsStay
    BY <2>3, <2>5 DEF RunsStay
  <2>6. CASE runs' = [runs EXCEPT ![j.run].heard = Append(@, <<j.key.on, j.key.seq>>)]
    BY <1>0, <2>3, <2>6 DEF Launches
  <2> QED BY <1>10, <2>2, <2>4, <2>5, <2>6 DEF CursorWork, Watch, Tell
<1>11. CASE UNCHANGED allVars
  <2>1. UNCHANGED <<channels, threads, messages, life, jobs, seen, runs>> /\ Grown
    BY <1>11, SameIsGrown DEF allVars, worldVars, pollVars, chatVars
  <2>2. MessagesArePrivate'
    BY <1>0, <2>1 DEF InPrivate, ChannelOf
  <2> QED BY <1>0, <2>1, <2>2, RunsKept
<1> QED BY <1>1, <1>2, <1>3, <1>4, <1>6, <1>7, <1>8, <1>9, <1>10, <1>11 DEF AgentStep

(***************************************************************************)
(* A session has its watch, and a run is told a message once.              *)
(***************************************************************************)
\* Only what the runs have heard matters, not whether they are up; a new run has heard nothing.
HeardAlike ==
  /\ DOMAIN runs \subseteq DOMAIN runs' /\ \A r \in DOMAIN runs : runs'[r].heard = runs[r].heard
  /\ \A r \in DOMAIN runs' \ DOMAIN runs : runs'[r].heard = <<>>

LEMMA HeardTheSame ==
  ASSUME HeardAlike, NEW r \in DOMAIN runs
  PROVE  \A t, n : Heard(r, t, n)' = Heard(r, t, n)
BY DEF HeardAlike, Heard

LEMMA HeardOnce ==
  ASSUME HeardAlike, TellsOK, NEW r \in DOMAIN runs'
  PROVE  IsInjective(runs[r].heard)'
<1>1. CASE r \in DOMAIN runs
  BY <1>1 DEF HeardAlike, TellsOK, IsInjective
<1>2. CASE r \notin DOMAIN runs
  BY <1>2 DEF HeardAlike, IsInjective
<1> QED BY <1>1, <1>2

\* What a handler that is told of a run has to do with it.
RunJobOK(j) ==
  /\ j.stage \in {"running", "final", "relay"} => j.run \in DOMAIN runs
  /\ j.stage = "running" =>
       /\ runs[j.run].heard = <<>>
       /\ \A t \in DOMAIN sessions : sessions[t].run # j.run
       /\ \A k \in jobs : Untold(k) => k.run # j.run
       /\ \A k \in jobs : k.stage = "running" /\ k.run = j.run => k = j
  /\ Untold(j) =>
       /\ ~Heard(j.run, j.key.on, j.key.seq)
       /\ \A k \in jobs : Untold(k) /\ k.run = j.run /\ k.key.on = j.key.on /\ k.key.seq = j.key.seq => k = j
LEMMA TellsAre ==
  TellsOK <=> /\ \A t \in DOMAIN sessions : SessionOK(t)
              /\ \A j \in jobs : RunJobOK(j)
              /\ \A r \in DOMAIN runs : IsInjective(runs[r].heard)
BY DEF TellsOK, RunJobOK

\* Handlers end, and the sessions that are left have their watches.
LEMMA TellsFewer ==
  ASSUME TellsOK, HeardAlike, jobs' \subseteq jobs,
         DOMAIN sessions' \subseteq DOMAIN sessions, \A t \in DOMAIN sessions' : sessions'[t] = sessions[t],
         \A t \in DOMAIN sessions' : \E j \in jobs' : j.stage = "final" /\ j.run = sessions[t].run /\ j.to = t
  PROVE  TellsOK'
<1>0. DOMAIN runs \subseteq DOMAIN runs'
  BY DEF HeardAlike
<1>1. ASSUME NEW t \in DOMAIN sessions'  PROVE SessionOK(t)'
  <2>1. SessionOK(t) /\ sessions[t].run \in DOMAIN runs /\ sessions'[t] = sessions[t]
    BY <1>1 DEF TellsOK, SessionOK
  <2>2. \A n : Heard(sessions[t].run, t, n)' = Heard(sessions[t].run, t, n)
    BY <2>1 DEF HeardAlike, Heard
  <2>3. \A j : Untold(j)' = Untold(j)
    BY DEF Untold
  <2> QED BY <1>0, <1>1, <2>1, <2>2, <2>3 DEF SessionOK
<1>2. ASSUME NEW j \in jobs'  PROVE RunJobOK(j)'
  <2>1. RunJobOK(j)
    BY <1>2, TellsAre
  <2>2. \A k : Untold(k)' = Untold(k)
    BY DEF Untold
  <2>3. Untold(j) => j.run \in DOMAIN runs
    BY <2>1 DEF RunJobOK, Untold
  <2>4. j.stage = "running" => j.run \in DOMAIN runs
    BY <2>1 DEF RunJobOK
  <2>5. Untold(j) => ~Heard(j.run, j.key.on, j.key.seq)'
    BY <2>1, <2>3, HeardTheSame DEF RunJobOK
  <2>6. j.stage = "running" => runs'[j.run].heard = <<>>
    BY <2>1, <2>4 DEF RunJobOK, HeardAlike
  <2> QED BY <1>0, <2>1, <2>2, <2>5, <2>6 DEF RunJobOK
<1>3. \A r \in DOMAIN runs' : IsInjective(runs[r].heard)'
  BY HeardOnce
<1>4. TellsOK' <=> /\ \A t \in DOMAIN sessions' : SessionOK(t)'
                   /\ \A j \in jobs' : RunJobOK(j)'
                   /\ \A r \in DOMAIN runs' : IsInjective(runs[r].heard)'
  BY DEF TellsOK, RunJobOK
<1> QED BY <1>1, <1>2, <1>3, <1>4

\* One handler goes on, with the same run if it has one.
LEMMA TellsOn ==
  ASSUME TellsOK, HeardAlike, UNCHANGED sessions, NEW j \in jobs, NEW k, jobs' = (jobs \ {j}) \cup {k},
         k.stage = j.stage \/ (k.stage \notin {"running", "final", "relay"} /\ j.stage # "final"),
         k.key = j.key, k.run = j.run, k.stage = "final" => k.to = j.to, Untold(k) => Untold(j)
  PROVE  TellsOK'
<1>0. DOMAIN runs \subseteq DOMAIN runs'
  BY DEF HeardAlike
<1>1. \A i : Untold(i)' = Untold(i)
  BY DEF Untold
<1>2. \A i \in jobs' : \E m \in jobs : /\ (i \in jobs /\ i # k => m = i) /\ (i = k => m = j)
                                       /\ m.key = i.key /\ m.run = i.run /\ (Untold(i) => Untold(m))
                                       /\ (i.stage \in {"running", "final", "relay"} => m.stage = i.stage)
  OBVIOUS
<1>3. ASSUME NEW t \in DOMAIN sessions  PROVE SessionOK(t)'
  <2>1. SessionOK(t) /\ sessions[t].run \in DOMAIN runs
    BY TellsAre DEF SessionOK
  <2>2. \A n : Heard(sessions[t].run, t, n)' = Heard(sessions[t].run, t, n)
    BY <2>1 DEF HeardAlike, Heard
  <2>3. \E i \in jobs' : i.stage = "final" /\ i.run = sessions[t].run /\ i.to = t
    <3>1. PICK i \in jobs : i.stage = "final" /\ i.run = sessions[t].run /\ i.to = t
      BY <2>1 DEF SessionOK
    <3>2. CASE i = j
      BY <3>1, <3>2
    <3>3. CASE i # j
      BY <3>1, <3>3
    <3> QED BY <3>2, <3>3
  <2>4. \A i \in jobs' : Untold(i) /\ i.run = sessions[t].run /\ i.key.on = t => i.key.seq \in sessions[t].done
    BY <1>2, <2>1 DEF SessionOK
  <2> QED BY <1>0, <1>1, <2>1, <2>2, <2>3, <2>4 DEF SessionOK
<1>4. ASSUME NEW i \in jobs'  PROVE RunJobOK(i)'
  <2>1. PICK m \in jobs : /\ (i \in jobs /\ i # k => m = i) /\ (i = k => m = j)
                          /\ m.key = i.key /\ m.run = i.run /\ (Untold(i) => Untold(m))
                          /\ (i.stage \in {"running", "final", "relay"} => m.stage = i.stage)
    BY <1>2
  <2>2. RunJobOK(m)
    BY TellsAre
  <2>3. i.stage \in {"running", "final", "relay"} => i.run \in DOMAIN runs'
    BY <1>0, <2>1, <2>2 DEF RunJobOK
  <2>4. ASSUME i.stage = "running"
        PROVE  /\ runs'[i.run].heard = <<>>
               /\ \A t \in DOMAIN sessions' : sessions'[t].run # i.run
               /\ \A l \in jobs' : Untold(l) => l.run # i.run
               /\ \A l \in jobs' : l.stage = "running" /\ l.run = i.run => l = i
    <3>1. /\ i.run \in DOMAIN runs /\ runs[i.run].heard = <<>>
          /\ \A t \in DOMAIN sessions : sessions[t].run # i.run
          /\ \A l \in jobs : Untold(l) => l.run # i.run
          /\ \A l \in jobs : l.stage = "running" /\ l.run = i.run => l = m
      BY <2>1, <2>2, <2>4 DEF RunJobOK
    <3>2. ASSUME NEW l \in jobs', l.stage = "running", l.run = i.run  PROVE l = i
      <4>1. PICK n \in jobs : (l \in jobs /\ l # k => n = l) /\ (l = k => n = j) /\ n.run = l.run /\ n.stage = "running"
        BY <1>2, <3>2
      <4>2. n = m
        BY <3>1, <3>2, <4>1
      <4> QED BY <2>1, <4>1, <4>2
    <3>3. \A l \in jobs' : Untold(l) => l.run # i.run
      BY <1>2, <3>1
    <3> QED BY <3>1, <3>2, <3>3 DEF HeardAlike
  <2>5. ASSUME Untold(i)
        PROVE  /\ ~Heard(i.run, i.key.on, i.key.seq)'
               /\ \A l \in jobs' : Untold(l) /\ l.run = i.run /\ l.key.on = i.key.on /\ l.key.seq = i.key.seq => l = i
    <3>1. /\ ~Heard(i.run, i.key.on, i.key.seq) /\ i.run \in DOMAIN runs
          /\ \A l \in jobs : Untold(l) /\ l.run = i.run /\ l.key.on = i.key.on /\ l.key.seq = i.key.seq => l = m
      BY <2>1, <2>2, <2>5 DEF RunJobOK, Untold
    <3>2. ~Heard(i.run, i.key.on, i.key.seq)'
      BY <3>1, HeardTheSame
    <3>3. ASSUME NEW l \in jobs', Untold(l), l.run = i.run, l.key.on = i.key.on, l.key.seq = i.key.seq  PROVE l = i
      <4>1. PICK n \in jobs : /\ (l \in jobs /\ l # k => n = l) /\ (l = k => n = j) /\ n.run = l.run /\ n.key = l.key
                              /\ Untold(n)
        BY <1>2, <3>3
      <4>2. n = m
        BY <3>1, <3>3, <4>1
      <4> QED BY <2>1, <4>1, <4>2
    <3> QED BY <3>2, <3>3
  <2> QED BY <1>1, <2>3, <2>4, <2>5 DEF RunJobOK
<1>5. \A r \in DOMAIN runs' : IsInjective(runs[r].heard)'
  BY HeardOnce
<1>6. TellsOK' <=> /\ \A t \in DOMAIN sessions' : SessionOK(t)'
                   /\ \A i \in jobs' : RunJobOK(i)'
                   /\ \A r \in DOMAIN runs' : IsInjective(runs[r].heard)'
  BY DEF TellsOK, RunJobOK
<1> QED BY <1>3, <1>4, <1>5, <1>6

\* A run is launched, and its handler says so.
LEMMA TellsLaunch ==
  ASSUME TellsOK, HeardAlike, UNCHANGED sessions, NEW j \in jobs, NEW k, jobs' = (jobs \ {j}) \cup {k},
         j.stage = "ack", k.stage = "running", k.run \in DOMAIN runs' \ DOMAIN runs
  PROVE  TellsOK'
<1>0. DOMAIN runs \subseteq DOMAIN runs' /\ k.run \in DOMAIN runs' /\ k.run \notin DOMAIN runs /\ runs'[k.run].heard = <<>>
  BY DEF HeardAlike
<1>1. \A i : Untold(i)' = Untold(i)
  BY DEF Untold
<1>2. ~Untold(k) /\ \A i \in jobs' : i \in jobs \/ i = k
  BY DEF Untold
<1>3. ASSUME NEW t \in DOMAIN sessions  PROVE SessionOK(t)' /\ sessions[t].run # k.run
  <2>1. SessionOK(t) /\ sessions[t].run \in DOMAIN runs
    BY TellsAre DEF SessionOK
  <2>2. \A n : Heard(sessions[t].run, t, n)' = Heard(sessions[t].run, t, n)
    BY <2>1 DEF HeardAlike, Heard
  <2>3. \E i \in jobs' : i.stage = "final" /\ i.run = sessions[t].run /\ i.to = t
    <3>1. PICK i \in jobs : i.stage = "final" /\ i.run = sessions[t].run /\ i.to = t
      BY <2>1 DEF SessionOK
    <3> QED BY <3>1
  <2>4. \A i \in jobs' : Untold(i) /\ i.run = sessions[t].run /\ i.key.on = t => i.key.seq \in sessions[t].done
    BY <1>2, <2>1 DEF SessionOK
  <2> QED BY <1>0, <1>1, <2>1, <2>2, <2>3, <2>4 DEF SessionOK
<1>4. ASSUME NEW i \in jobs', i \in jobs  PROVE RunJobOK(i)' /\ (Untold(i) \/ i.stage = "running" => i.run # k.run)
  <2>1. RunJobOK(i)
    BY <1>4, TellsAre
  <2>2. Untold(i) \/ i.stage = "running" => i.run \in DOMAIN runs
    BY <2>1 DEF RunJobOK, Untold
  <2>3. Untold(i) => ~Heard(i.run, i.key.on, i.key.seq)'
    BY <2>1, <2>2, HeardTheSame DEF RunJobOK
  <2>4. i.stage = "running" => runs'[i.run].heard = <<>>
    BY <2>1, <2>2 DEF RunJobOK, HeardAlike
  <2>5. \A l \in jobs' : Untold(l) => l \in jobs
    BY <1>2
  <2>6. \A l \in jobs' : i.stage = "running" /\ l.stage = "running" /\ l.run = i.run => l \in jobs
    BY <1>0, <1>2, <2>2
  <2>7. i.stage \in {"running", "final", "relay"} => i.run \in DOMAIN runs'
    BY <1>0, <2>1 DEF RunJobOK
  <2> QED BY <1>0, <1>1, <2>1, <2>2, <2>3, <2>4, <2>5, <2>6, <2>7 DEF RunJobOK
<1>5. RunJobOK(k)'
  <2>1. \A i \in jobs' : Untold(i) => i.run # k.run
    BY <1>2, <1>4
  <2>2. \A i \in jobs' : i.stage = "running" /\ i.run = k.run => i = k
    BY <1>2, <1>4
  <2> QED BY <1>0, <1>1, <1>2, <1>3, <2>1, <2>2 DEF RunJobOK
<1>6. \A r \in DOMAIN runs' : IsInjective(runs[r].heard)'
  BY HeardOnce
<1>7. TellsOK' <=> /\ \A t \in DOMAIN sessions' : SessionOK(t)'
                   /\ \A i \in jobs' : RunJobOK(i)'
                   /\ \A r \in DOMAIN runs' : IsInjective(runs[r].heard)'
  BY DEF TellsOK, RunJobOK
<1> QED BY <1>2, <1>3, <1>4, <1>5, <1>6, <1>7

\* The thread says that the run goes on: the session begins, and its watch.
LEMMA TellsWatched ==
  ASSUME TellsOK, UNCHANGED runs, NEW j \in jobs, NEW k, jobs' = (jobs \ {j}) \cup {k}, k.to = j.to, Watch(j, k)
  PROVE  TellsOK'
<1>0. /\ j.stage = "running" /\ k.stage = "final" /\ k.run = j.run /\ k \in jobs'
      /\ DOMAIN sessions' = DOMAIN sessions \cup {j.to}
      /\ sessions'[j.to] = [run |-> j.run, done |-> {j.key.seq}]
      /\ \A t \in DOMAIN sessions \ {j.to} : sessions'[t] = sessions[t]
  BY DEF Watch
<1>1. /\ \A i : Untold(i)' = Untold(i)
      /\ \A r, t, n : Heard(r, t, n)' = Heard(r, t, n)
  BY DEF Untold, Heard
<1>2. ~Untold(k) /\ \A i \in jobs' : Untold(i) => i \in jobs
  BY <1>0 DEF Untold
<1>3. /\ j.run \in DOMAIN runs /\ runs[j.run].heard = <<>>
      /\ \A i \in jobs : Untold(i) => i.run # j.run
      /\ \A i \in jobs : i.stage = "running" /\ i.run = j.run => i = j
  BY <1>0, TellsAre DEF RunJobOK
<1>4. SessionOK(j.to)'
  <2>1. \A n : ~Heard(j.run, j.to, n)
    BY <1>3 DEF Heard
  <2>2. \A i \in jobs' : Untold(i) => i.run # j.run
    BY <1>2, <1>3
  <2>3. sessions'[j.to].run = j.run
    BY <1>0
  <2>4. \E i \in jobs' : i.stage = "final" /\ i.run = j.run /\ i.to = j.to
    BY <1>0
  <2> QED BY <1>1, <1>3, <2>1, <2>2, <2>3, <2>4 DEF SessionOK
<1>5. ASSUME NEW t \in DOMAIN sessions \ {j.to}  PROVE SessionOK(t)'
  <2>1. SessionOK(t) /\ sessions'[t] = sessions[t]
    BY <1>0, TellsAre
  <2>2. \E i \in jobs' : i.stage = "final" /\ i.run = sessions[t].run /\ i.to = t
    <3>1. PICK i \in jobs : i.stage = "final" /\ i.run = sessions[t].run /\ i.to = t
      BY <2>1 DEF SessionOK
    <3> QED BY <1>0, <3>1
  <2> QED BY <1>1, <1>2, <2>1, <2>2 DEF SessionOK
<1>6. ASSUME NEW i \in jobs'  PROVE RunJobOK(i)'
  <2>1. CASE i = k
    BY <1>0, <1>1, <1>2, <1>3, <2>1 DEF RunJobOK
  <2>2. CASE i \in jobs \ {j}
    <3>1. RunJobOK(i)
      BY <2>2, TellsAre
    <3>2. i.stage = "running" => i.run # j.run
      BY <1>3, <2>2
    <3>3. i.stage = "running" => \A t \in DOMAIN sessions' : sessions'[t].run # i.run
      BY <1>0, <3>1, <3>2 DEF RunJobOK
    <3>4. \A l \in jobs' : l.stage = "running" => l \in jobs
      BY <1>0
    <3> QED BY <1>1, <1>2, <3>1, <3>3, <3>4 DEF RunJobOK
  <2> QED BY <2>1, <2>2
<1>7. \A r \in DOMAIN runs' : IsInjective(runs[r].heard)'
  BY TellsAre DEF IsInjective
<1>8. TellsOK' <=> /\ \A t \in DOMAIN sessions' : SessionOK(t)'
                   /\ \A i \in jobs' : RunJobOK(i)'
                   /\ \A r \in DOMAIN runs' : IsInjective(runs[r].heard)'
  BY DEF TellsOK, RunJobOK
<1> QED BY <1>0, <1>4, <1>5, <1>6, <1>7, <1>8

\* A run is told a message it was not told before.
LEMMA TellsTold ==
  ASSUME ShapeOK, TellsOK, NEW j \in jobs, NEW k, jobs' = (jobs \ {j}) \cup {k},
         Untold(j), k.stage = "relay", ~Untold(k), k.run = j.run, UNCHANGED sessions,
         runs' = [runs EXCEPT ![j.run].heard = Append(@, <<j.key.on, j.key.seq>>)]
  PROVE  TellsOK'
<1>1. \A i : Untold(i)' = Untold(i)
  BY DEF Untold
<1>2. \A i \in jobs' : Untold(i) => i \in jobs \ {j}
  OBVIOUS
<1>3. RunJobOK(j) /\ j.stage = "relay" /\ j.run \in DOMAIN runs /\ ~Heard(j.run, j.key.on, j.key.seq)
  BY TellsAre DEF RunJobOK, Untold
<1> DEFINE old == runs[j.run].heard
           what == <<j.key.on, j.key.seq>>
<1>4. /\ DOMAIN runs' = DOMAIN runs /\ runs'[j.run].heard = Append(old, what)
      /\ \A r \in DOMAIN runs : r # j.run => runs'[r].heard = runs[r].heard
      /\ old \in Seq(Streams \X Nat)
  <2>1. runs \in Seq(Launches) /\ runs[j.run] \in Launches
    BY <1>3 DEF ShapeOK, ChatTypes
  <2>2. runs'[j.run] = [runs[j.run] EXCEPT !.heard = Append(@, what)]
    BY <1>3, <2>1
  <2> QED BY <1>3, <2>1, <2>2 DEF Launches
<1>5. /\ Len(old) \in Nat /\ DOMAIN old = 1 .. Len(old)
      /\ DOMAIN Append(old, what) = 1 .. Len(old) + 1
      /\ \A i \in 1 .. Len(old) : Append(old, what)[i] = old[i]
      /\ Append(old, what)[Len(old) + 1] = what
  <2>1. what \in Streams \X Nat
    BY HandlerFacts, <1>3, ThereAreStreams DEF Events
  <2> HIDE DEF old, what
  <2> QED BY <1>4, <2>1
<1>6. \A r \in DOMAIN runs : \A t, n : Heard(r, t, n)' => Heard(r, t, n) \/ (r = j.run /\ <<t, n>> = what)
  <2> SUFFICES ASSUME NEW r \in DOMAIN runs, NEW t, NEW n, Heard(r, t, n)'
               PROVE  Heard(r, t, n) \/ (r = j.run /\ <<t, n>> = what)
    OBVIOUS
  <2>1. CASE r # j.run
    BY <1>4, <2>1 DEF Heard
  <2>2. CASE r = j.run
    <3>1. PICK i \in DOMAIN runs'[j.run].heard : runs'[j.run].heard[i] = <<t, n>>
      BY <2>2 DEF Heard
    <3>2. i \in 1 .. Len(old) + 1 /\ Append(old, what)[i] = <<t, n>>
      BY <1>4, <1>5, <3>1
    <3>3. i \in 1 .. Len(old) \/ i = Len(old) + 1
      BY <1>5, <3>2
    <3> QED BY <1>5, <2>2, <3>2, <3>3 DEF Heard
  <2> QED BY <2>1, <2>2
<1>7. \A r \in DOMAIN runs' : IsInjective(runs[r].heard)'
  <2> SUFFICES ASSUME NEW r \in DOMAIN runs  PROVE IsInjective(runs[r].heard)'
    BY <1>4
  <2>1. IsInjective(runs[r].heard)
    BY TellsAre
  <2>2. CASE r # j.run
    BY <1>4, <2>1, <2>2 DEF IsInjective
  <2>3. CASE r = j.run
    <3>1. \A a, b \in 1 .. Len(old) : old[a] = old[b] => a = b
      BY <1>5, <2>1, <2>3 DEF IsInjective
    <3>2. \A a \in 1 .. Len(old) : old[a] # what
      BY <1>3, <1>5 DEF Heard
    <3> HIDE DEF old, what
    <3>3. ASSUME NEW a \in 1 .. Len(old) + 1, NEW b \in 1 .. Len(old) + 1,
                 Append(old, what)[a] = Append(old, what)[b]
          PROVE  a = b
      <4>1. (a \in 1 .. Len(old) \/ a = Len(old) + 1) /\ (b \in 1 .. Len(old) \/ b = Len(old) + 1)
        BY <1>5
      <4> QED BY <1>5, <3>1, <3>2, <3>3, <4>1
    <3>4. runs'[r].heard = Append(old, what) /\ DOMAIN runs'[r].heard = 1 .. Len(old) + 1
      BY <1>4, <1>5, <2>3
    <3>5. ASSUME NEW a \in DOMAIN runs'[r].heard, NEW b \in DOMAIN runs'[r].heard, runs'[r].heard[a] = runs'[r].heard[b]
          PROVE  a = b
      <4>1. a \in 1 .. Len(old) + 1 /\ b \in 1 .. Len(old) + 1
        BY <3>4
      <4>2. Append(old, what)[a] = Append(old, what)[b]
        BY <3>4, <3>5
      <4> QED BY <3>3, <4>1, <4>2
    <3> QED BY <3>5 DEF IsInjective
  <2> QED BY <2>2, <2>3
<1>8. ASSUME NEW t \in DOMAIN sessions  PROVE SessionOK(t)'
  <2>1. SessionOK(t) /\ sessions[t].run \in DOMAIN runs
    BY TellsAre DEF SessionOK
  <2>2. ASSUME NEW n \in Nat, Heard(sessions[t].run, t, n)'  PROVE n \in sessions[t].done
    <3>1. Heard(sessions[t].run, t, n) \/ (sessions[t].run = j.run /\ <<t, n>> = what)
      BY <1>6, <2>1, <2>2
    <3>2. CASE sessions[t].run = j.run /\ <<t, n>> = what
      <4>1. j.key.on = t /\ j.key.seq = n
        BY <3>2
      <4> QED BY <2>1, <3>2, <4>1 DEF SessionOK
    <3> QED BY <2>1, <3>1, <3>2 DEF SessionOK
  <2>3. \E i \in jobs' : i.stage = "final" /\ i.run = sessions[t].run /\ i.to = t
    <3>1. PICK i \in jobs : i.stage = "final" /\ i.run = sessions[t].run /\ i.to = t
      BY <2>1 DEF SessionOK
    <3> QED BY <1>3, <3>1
  <2>4. \A i \in jobs' : Untold(i) /\ i.run = sessions[t].run /\ i.key.on = t => i.key.seq \in sessions[t].done
    BY <1>2, <2>1 DEF SessionOK
  <2> QED BY <1>1, <1>4, <2>1, <2>2, <2>3, <2>4 DEF SessionOK
<1>9. ASSUME NEW i \in jobs'  PROVE RunJobOK(i)'
  <2>1. CASE i = k
    BY <1>1, <1>3, <1>4, <2>1 DEF RunJobOK
  <2>2. CASE i \in jobs \ {j}
    <3>1. RunJobOK(i)
      BY <2>2, TellsAre
    <3>2. i.stage = "running" => i.run \in DOMAIN runs /\ i.run # j.run /\ runs[i.run].heard = <<>>
      BY <3>1 DEF RunJobOK
    <3>3. ASSUME Untold(i)  PROVE ~Heard(i.run, i.key.on, i.key.seq)'
      <4>1. i.run \in DOMAIN runs /\ ~Heard(i.run, i.key.on, i.key.seq)
        BY <3>1, <3>3 DEF RunJobOK, Untold
      <4>2. ~(i.run = j.run /\ i.key.on = j.key.on /\ i.key.seq = j.key.seq)
        BY <2>2, <3>3, <1>3 DEF RunJobOK
      <4> QED BY <1>6, <4>1, <4>2
    <3>4. i.stage = "running" => runs'[i.run].heard = <<>>
      BY <1>4, <3>2
    <3>5. i.stage = "running" => \A l \in jobs' : l.stage = "running" => l \in jobs
      BY <1>3
    <3> QED BY <1>1, <1>2, <1>4, <3>1, <3>3, <3>4, <3>5 DEF RunJobOK
  <2> QED BY <2>1, <2>2
<1>10. TellsOK' <=> /\ \A t \in DOMAIN sessions' : SessionOK(t)'
                    /\ \A i \in jobs' : RunJobOK(i)'
                    /\ \A r \in DOMAIN runs' : IsInjective(runs[r].heard)'
  BY DEF TellsOK, RunJobOK
<1> QED BY <1>7, <1>8, <1>9, <1>10

\* New events are taken up: what is relayed was not told before, and is noted.
LEMMA TellsTaken ==
  ASSUME ShapeOK, TellsOK, NEW N, TookUp(N), TookToRuns(N)
  PROVE  TellsOK'
<1>1. /\ jobs' = jobs \cup N /\ UNCHANGED runs
      /\ \A k \in N : k.stage \in {"reply", "answer", "ack", "relay"}
  BY DEF TookUp
<1>2. /\ \A i : Untold(i)' = Untold(i)
      /\ \A r, t, n : Heard(r, t, n)' = Heard(r, t, n)
  BY <1>1 DEF Untold, Heard
<1>3. /\ DOMAIN sessions' = DOMAIN sessions
      /\ \A t \in DOMAIN sessions : sessions'[t].run = sessions[t].run /\ sessions[t].done \subseteq sessions'[t].done
      /\ \A k \in N : k.stage = "relay" =>
           /\ k.key.kind = "message" /\ k.key.on \in DOMAIN sessions /\ k.run = sessions[k.key.on].run
           /\ k.key.seq \notin sessions[k.key.on].done /\ k.key.seq \in sessions'[k.key.on].done
      /\ \A k, m \in N : k.stage = "relay" /\ m.stage = "relay" /\ k.key = m.key => k = m
  BY DEF TookToRuns
<1>4. \A k \in N : k.stage = "relay" => k.key \in Events
  BY HandlerFacts DEF TookUp, HandlerOK, Placed
<1>5. \A i \in jobs : RunJobOK(i)
  BY TellsAre
<1>6. \A t \in DOMAIN sessions : SessionOK(t)
  BY TellsAre
<1>7. ASSUME NEW t \in DOMAIN sessions  PROVE SessionOK(t)'
  <2>1. SessionOK(t)
    BY <1>6
  <2>2. \E i \in jobs' : i.stage = "final" /\ i.run = sessions[t].run /\ i.to = t
    <3>1. PICK i \in jobs : i.stage = "final" /\ i.run = sessions[t].run /\ i.to = t
      BY <2>1 DEF SessionOK
    <3> QED BY <1>1, <3>1
  <2>3. \A i \in jobs' : Untold(i) /\ i.run = sessions[t].run /\ i.key.on = t => i.key.seq \in sessions'[t].done
    <3>1. ASSUME NEW i \in jobs, Untold(i), i.run = sessions[t].run, i.key.on = t  PROVE i.key.seq \in sessions'[t].done
      BY <1>3, <2>1, <3>1 DEF SessionOK
    <3>2. ASSUME NEW i \in N, Untold(i), i.key.on = t  PROVE i.key.seq \in sessions'[t].done
      BY <1>3, <3>2 DEF Untold
    <3> QED BY <1>1, <3>1, <3>2
  <2>4. \A n \in Nat : Heard(sessions[t].run, t, n) => n \in sessions'[t].done
    BY <1>3, <2>1 DEF SessionOK
  <2>5. sessions'[t].run = sessions[t].run /\ sessions[t].run \in DOMAIN runs'
    BY <1>1, <1>3, <2>1 DEF SessionOK
  <2> QED BY <1>2, <2>2, <2>3, <2>4, <2>5 DEF SessionOK
<1>8. ASSUME NEW k \in N, k.stage = "relay"
      PROVE  /\ k.run \in DOMAIN runs /\ ~Heard(k.run, k.key.on, k.key.seq)
             /\ \A i \in jobs : ~(Untold(i) /\ i.run = k.run /\ i.key.on = k.key.on /\ i.key.seq = k.key.seq)
             /\ \A i \in jobs : i.stage = "running" => i.run # k.run
  <2>1. PICK t \in DOMAIN sessions : t = k.key.on /\ k.run = sessions[t].run /\ k.key.seq \notin sessions[t].done
    BY <1>3, <1>8
  <2>2. SessionOK(t) /\ k.key.seq \in Nat
    BY <1>4, <1>6, <1>8 DEF Events
  <2>3. \A i \in jobs : i.stage = "running" => i.run # k.run
    BY <1>5, <2>1 DEF RunJobOK
  <2> QED BY <2>1, <2>2, <2>3 DEF SessionOK
<1>9. ASSUME NEW i \in jobs'  PROVE RunJobOK(i)'
  <2>1. CASE i \in jobs
    <3>1. RunJobOK(i)
      BY <1>5, <2>1
    <3>2. i.stage = "running" =>
            /\ runs'[i.run].heard = <<>>
            /\ \A t \in DOMAIN sessions' : sessions'[t].run # i.run
            /\ \A k \in jobs' : Untold(k) => k.run # i.run
            /\ \A k \in jobs' : k.stage = "running" /\ k.run = i.run => k = i
      BY <1>1, <1>3, <1>8, <2>1, <3>1 DEF RunJobOK, Untold
    <3>3. Untold(i) =>
            /\ ~Heard(i.run, i.key.on, i.key.seq)
            /\ \A k \in jobs' : Untold(k) /\ k.run = i.run /\ k.key.on = i.key.on /\ k.key.seq = i.key.seq => k = i
      <4>1. \A k \in N : Untold(k) /\ Untold(i) => ~(k.run = i.run /\ k.key.on = i.key.on /\ k.key.seq = i.key.seq)
        BY <1>8, <2>1 DEF Untold
      <4> QED BY <1>1, <3>1, <4>1 DEF RunJobOK
    <3>4. i.stage \in {"running", "final", "relay"} => i.run \in DOMAIN runs'
      BY <1>1, <3>1 DEF RunJobOK
    <3> QED BY <1>2, <3>2, <3>3, <3>4 DEF RunJobOK
  <2>2. CASE i \in N
    <3>1. i.stage \in {"running", "final", "relay"} => i.stage = "relay" /\ i.run \in DOMAIN runs'
      BY <1>1, <1>8, <2>2
    <3>2. i.stage # "running"
      BY <1>1, <2>2
    <3>3. ASSUME Untold(i)
          PROVE  /\ ~Heard(i.run, i.key.on, i.key.seq)
                 /\ \A k \in jobs' : Untold(k) /\ k.run = i.run /\ k.key.on = i.key.on /\ k.key.seq = i.key.seq => k = i
      <4>1. i.stage = "relay"
        BY <3>3 DEF Untold
      <4>2. ASSUME NEW k \in N, Untold(k), k.key.on = i.key.on, k.key.seq = i.key.seq  PROVE k = i
        <5>1. k.stage = "relay" /\ k.key.kind = "message" /\ i.key.kind = "message" /\ k.key \in Events /\ i.key \in Events
          BY <1>3, <1>4, <2>2, <4>1, <4>2 DEF Untold
        <5>2. k.key = i.key
          BY <4>2, <5>1 DEF Events
        <5> QED BY <1>3, <2>2, <4>1, <5>1, <5>2
      <4> QED BY <1>1, <1>8, <2>2, <4>1, <4>2
    <3> QED BY <1>2, <3>1, <3>2, <3>3 DEF RunJobOK
  <2> QED BY <1>1, <2>1, <2>2
<1>10. \A r \in DOMAIN runs' : IsInjective(runs[r].heard)'
  BY <1>1, TellsAre DEF IsInjective
<1>11. TellsOK' <=> /\ \A t \in DOMAIN sessions' : SessionOK(t)'
                    /\ \A i \in jobs' : RunJobOK(i)'
                    /\ \A r \in DOMAIN runs' : IsInjective(runs[r].heard)'
  BY DEF TellsOK, RunJobOK
<1> QED BY <1>3, <1>7, <1>9, <1>10, <1>11

LEMMA TellsInStep ==
  ASSUME ShapeOK, TellsOK, AgentStep
  PROVE  TellsOK'
<1> USE DEF ShapeOK
<1>0. \A t \in DOMAIN sessions : \E j \in jobs : j.stage = "final" /\ j.run = sessions[t].run /\ j.to = t
  BY DEF TellsOK, SessionOK
<1>1. ASSUME UNCHANGED <<jobs, sessions, runs>>  PROVE TellsOK'
  BY <1>0, <1>1, TellsFewer DEF HeardAlike
<1>2. CASE UserStep \/ (Start /\ UNCHANGED chatVars) \/ Moved \/ Paged \/ Turned \/ Sought \/ UNCHANGED allVars
  BY <1>1, <1>2 DEF UserStep, Start, Moved, Paged, Turned, Sought, chatVars, allVars, worldVars
<1>3. ASSUME NEW j \in jobs, ClientStep(j)  PROVE TellsOK'
  <2>1. UNCHANGED <<sessions, runs>>
    BY <1>3 DEF ClientStep, chatVars
  <2>2. PICK k : Becomes(j, k) /\ GoesOn(j, k)
    BY <1>3 DEF ClientStep
  <2>3. k.stage = j.stage \/ (k.stage \notin {"running", "final", "relay"} /\ j.stage # "final")
    BY <2>2 DEF GoesOn, FirstStages
  <2>4. k.stage = "final" => k.to = j.to
    BY <2>2 DEF GoesOn
  <2> QED BY <2>1, <2>2, <2>3, <2>4, TellsOn DEF GoesOn, Becomes, HeardAlike
<1>4. CASE Stopped
  <2>1. UNCHANGED runs /\ jobs' = {} /\ DOMAIN sessions' = {}
    BY <1>4, StoppedShape
  <2> QED BY <2>1, TellsFewer DEF HeardAlike
<1>5. CASE Begun
  <2>1. UNCHANGED <<sessions, runs>> /\ jobs = {}
    BY <1>5 DEF Begun, chatVars
  <2>2. PICK k \in Handlers : jobs' = {k} /\ k.stage \in {"arrival", "periodic"}
    BY <1>5 DEF Begun
  <2>3. DOMAIN sessions = {}
    BY <1>0, <2>1
  <2>4. ~Untold(k) /\ k.stage \notin {"running", "final", "relay"}
    BY <2>2 DEF Untold
  <2> QED BY <2>1, <2>2, <2>3, <2>4 DEF TellsOK, Untold, IsInjective
<1>6. CASE TakenUp
  BY <1>6, TellsTaken DEF TakenUp
<1>7. ASSUME NEW j \in jobs, Dropped(j)  PROVE TellsOK'
  <2>1. UNCHANGED runs /\ jobs' = jobs \ {j}
    BY <1>7 DEF Dropped
  <2>2. CASE UNCHANGED sessions /\ (j.stage = "final" /\ j.to \in DOMAIN sessions => sessions[j.to].run # j.run)
    <3>1. ASSUME NEW t \in DOMAIN sessions
          PROVE  \E i \in jobs' : i.stage = "final" /\ i.run = sessions[t].run /\ i.to = t
      <4>1. PICK i \in jobs : i.stage = "final" /\ i.run = sessions[t].run /\ i.to = t
        BY <1>0
      <4> QED BY <2>1, <2>2, <4>1
    <3> QED BY <2>1, <2>2, <3>1, TellsFewer DEF HeardAlike
  <2>3. CASE /\ j.stage = "final" /\ j.to \in DOMAIN sessions /\ sessions[j.to].run = j.run
             /\ sessions' = [t \in DOMAIN sessions \ {j.to} |-> sessions[t]]
    <3>1. ASSUME NEW t \in DOMAIN sessions, t # j.to
          PROVE  \E i \in jobs' : i.stage = "final" /\ i.run = sessions[t].run /\ i.to = t
      <4>1. PICK i \in jobs : i.stage = "final" /\ i.run = sessions[t].run /\ i.to = t
        BY <1>0
      <4> QED BY <2>1, <3>1, <4>1
    <3>2. /\ DOMAIN sessions' = DOMAIN sessions \ {j.to}
          /\ \A t \in DOMAIN sessions' : sessions'[t] = sessions[t]
      BY <2>3
    <3> QED BY <2>1, <3>1, <3>2, TellsFewer DEF HeardAlike
  <2> QED BY <1>7, <2>2, <2>3 DEF Dropped
<1>8. ASSUME NEW j \in jobs, NEW k, CursorWork(j, k)  PROVE TellsOK'
  <2>1. jobs' = (jobs \ {j}) \cup {k} /\ k.key = j.key /\ k.to = j.to
    BY <1>8 DEF CursorWork, Becomes
  <2>2. CASE Launch(j, k) /\ UNCHANGED runs
    <3>1. k.stage = "error" \/ k.run = Len(runs) + 1
      BY <2>2 DEF Launch
    <3>2. k.stage = "error"
      <4>1. Launches # {} => Len(runs) \in Nat
        BY DEF ChatTypes
      <4>2. Len(runs) \in Nat
        BY DEF ChatTypes
      <4>3. ~(runs = Append(runs, [key |-> j.key, life |-> life.n, heard |-> <<>>, up |-> TRUE]))
        BY <4>2 DEF ChatTypes, Launches
      <4> QED BY <2>2, <4>3 DEF Launch
    <3> QED BY <2>1, <2>2, <3>2, TellsOn DEF Launch, HeardAlike, Untold
  <2>3. CASE Launch(j, k) /\ runs' = Append(runs, [key |-> j.key, life |-> life.n, heard |-> <<>>, up |-> TRUE])
    <3> DEFINE new == [key |-> j.key, life |-> life.n, heard |-> <<>>, up |-> TRUE]
    <3>1. new.heard = <<>>
      OBVIOUS
    <3> HIDE DEF new
    <3>2. runs' = Append(runs, new)
      BY <2>3 DEF new
    <3>3. /\ Len(runs) \in Nat /\ DOMAIN runs = 1 .. Len(runs) /\ DOMAIN runs' = 1 .. Len(runs) + 1
          /\ runs'[Len(runs) + 1] = new /\ \A r \in DOMAIN runs : runs'[r] = runs[r]
      BY <1>8, <3>2 DEF ChatTypes, CursorWork
    <3>4. HeardAlike
      BY <3>1, <3>3 DEF HeardAlike
    <3>5. CASE k.stage = "running"
      <4>1. k.run \in DOMAIN runs' \ DOMAIN runs
        BY <2>3, <3>3, <3>5 DEF Launch
      <4> QED BY <2>1, <2>3, <3>4, <3>5, <4>1, TellsLaunch DEF Launch
    <3>6. CASE k.stage = "error"
      BY <2>1, <2>3, <3>4, <3>6, TellsOn DEF Launch, Untold
    <3> QED BY <2>3, <3>5, <3>6 DEF Launch
  <2>4. CASE Watch(j, k)
    BY <2>1, <2>4, TellsWatched DEF Watch
  <2>5. CASE Tell(j, k) /\ UNCHANGED runs
    BY <2>1, <2>5, TellsOn DEF Tell, HeardAlike, Untold
  <2>6. CASE Tell(j, k) /\ runs' = [runs EXCEPT ![j.run].heard = Append(@, <<j.key.on, j.key.seq>>)]
    BY <2>1, <2>6, TellsTold DEF Tell
  <2>7. CASE j.stage = "final" /\ k.stage = "final" /\ k.run = j.run /\ RunsStay /\ UNCHANGED sessions
    <3>1. HeardAlike
      BY <1>8, <2>7 DEF RunsStay, HeardAlike, ChatTypes, CursorWork
    <3> QED BY <2>1, <2>7, <3>1, TellsOn DEF Untold
  <2>8. Launch(j, k) => UNCHANGED runs \/ runs' = Append(runs, [key |-> j.key, life |-> life.n, heard |-> <<>>, up |-> TRUE])
    BY DEF Launch
  <2> QED BY <1>8, <2>2, <2>3, <2>4, <2>5, <2>6, <2>7, <2>8 DEF CursorWork, Tell
<1> QED BY <1>2, <1>3, <1>4, <1>5, <1>6, <1>7, <1>8 DEF AgentStep

(***************************************************************************)
(* The theorems.                                                           *)
(***************************************************************************)
\* The invariant of the four agent programs.
AgentsInv == ShapeOK /\ AnswersOK /\ TakenUpOK /\ SettledInv /\ RunsOK /\ TellsOK

LEMMA InvAtFirst ==
  ASSUME AgentsInit
  PROVE  AgentsInv
<1>1. /\ ~life.up /\ life.n = 0 /\ messages = [s \in Streams |-> <<>>] /\ jobs = {} /\ scan = Asleep
      /\ sessions = <<>> /\ runs = <<>>
  BY DEF AgentsInit, WorldInit, PollInit, ChatInit
<1>2. \A e : FirstAnswers(e) = {}
  BY <1>1 DEF FirstAnswers, Numbered
<1>3. AnswersOK
  BY <1>1, <1>2, FS_EmptySet DEF AnswersOK, MayAnswer
<1>4. TakenUpOK /\ RunsOK
  BY <1>1 DEF TakenUpOK, RunsOK
<1>5. TellsOK
  BY <1>1 DEF TellsOK
<1> QED BY <1>3, <1>4, <1>5, ShapeAtFirst, SettledAtFirst DEF AgentsInv

LEMMA InvInStep ==
  ASSUME AgentsInv, [AgentsNext]_allVars
  PROVE  AgentsInv'
<1>1. AgentStep
  BY EveryStep DEF AgentsInv
<1> QED BY <1>1, ShapeStays, AnswersInStep, SettledInStep, RunsInStep, TellsInStep DEF AgentsInv, SettledInv

\* Whatever the users, the admins, the server and the faults do to an agent, its
\* variables keep their types, its handlers and its loop are where they can be, and
\* answers, numbers read to, runs and sessions agree with each other as above.
THEOREM AgentsKeepOrder == AgentsSpec => []AgentsInv
<1>1. AgentsInit => AgentsInv
  BY InvAtFirst
<1>2. AgentsInv /\ [AgentsNext]_allVars => AgentsInv'
  BY InvInStep
<1> QED BY <1>1, <1>2, PTL DEF AgentsSpec

\* Each run of a process answers an invocation at most once (the loops of the
\* poet and the weather agent, handleIncomingMessage of the assistant, handleCursorEvent of
\* the cursor agent): neither a page read again, nor an error whose call was carried
\* out, nor the repeated call of an approved request answers twice.
THEOREM AlwaysAnsweredOncePerLife == AgentsSpec => []AnsweredOncePerLife
<1>1. AgentsInv => AnsweredOncePerLife
  <2> SUFFICES ASSUME AgentsInv, NEW s \in Streams, NEW e \in EventsAfter(s, 0)
               PROVE  Cardinality(FirstAnswers(e)) <= life.n
    BY DEF AnsweredOncePerLife
  <2>1. e \in Events
    BY EventsAreThese DEF AgentsInv
  <2> QED BY <2>1 DEF AgentsInv, AnswersOK
<1> QED BY <1>1, AgentsKeepOrder, PTL

\* The number an agent has read to (lastSeqByStream) never passes an invocation that
\* was not taken up: what is behind it has an outcome or is being handled.
THEOREM AlwaysPassedIsSettled == AgentsSpec => []PassedIsSettled
<1>1. AgentsInv => PassedIsSettled
  BY DEF AgentsInv, SettledInv
<1> QED BY <1>1, AgentsKeepOrder, PTL

\* The command and the mention of one message launch one run of the cursor agent, a
\* thread with a session (activeThreadSessions) has the watch that will end it, and no
\* run is told the same message twice (relayThreadMessageToCursor).
THEOREM CursorAlwaysInOrder == AgentsSpec => []CursorInOrder
<1>1. ASSUME AgentsInv  PROVE OneRunPerMessage
  <2> SUFFICES ASSUME NEW q \in DOMAIN runs, NEW r \in DOMAIN runs, q # r, runs[q].life = runs[r].life,
                      runs[q].key.on = runs[r].key.on, runs[q].key.seq = runs[r].key.seq
               PROVE  InPrivate(runs[q].key.on) /\ "message" \in {runs[q].key.kind, runs[r].key.kind}
    BY DEF OneRunPerMessage
  <2>1. runs[q].key \in Events /\ runs[r].key \in Events
    <3>1. \A i \in DOMAIN runs : runs[i] \in Launches
      BY <1>1 DEF AgentsInv, ShapeOK, ChatTypes
    <3> QED BY <3>1 DEF Launches
  <2>2. Remembered(runs[q].key) # Remembered(runs[r].key)
    BY <1>1 DEF AgentsInv, RunsOK
  <2>3. "message" \in {runs[q].key.kind, runs[r].key.kind}
    BY <2>2 DEF Remembered
  <2>4. /\ runs[q].key.kind = "message" => InPrivate(runs[q].key.on)
        /\ runs[r].key.kind = "message" => InPrivate(runs[r].key.on)
    BY <1>1 DEF AgentsInv, RunsOK
  <2> QED BY <2>3, <2>4
<1>2. AgentsInv => SessionsTell
  BY DEF AgentsInv, TellsOK, SessionOK, SessionsTell
<1> QED BY <1>1, <1>2, AgentsKeepOrder, PTL DEF CursorInOrder
====
