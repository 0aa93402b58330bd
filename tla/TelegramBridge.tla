----------------------------- MODULE TelegramBridge -----------------------------
(***************************************************************************)
(* plugins/telegram-bridge.ts: the life of a setup (create, disable,       *)
(* rotate-webhook-secret) and the webhook that turns Telegram's updates    *)
(* into messages, for the setups of one channel.  Every handler awaits the *)
(* database or Telegram between the steps below, so handlers interleave at *)
(* each of them and work on the row they loaded first.  Telegram is        *)
(* external: it keeps one webhook per bot and sends an update again, to    *)
(* whatever webhook there is, until it is answered with 200.  Projecting   *)
(* the channel's messages back to Telegram (onEvent) is not here.          *)
(***************************************************************************)
EXTENDS Integers, FiniteSets

CONSTANTS Setups,        \* setup ids that create may draw
          Updates,       \* Telegram updates
          Requests,      \* webhook requests in flight at once
          Admins,        \* disable and rotate requests in flight at once
          Human,         \* whom a setup speaks for
          Bot,           \* the bot of a setup and of an update
          Chat,          \* the private chat an update's text is from, or Null
          MaxUpsets,     \* bound: management requests, crashes, failed queries, lost answers
          Null

Statuses == {"pending_bind", "active", "disabled", "error"}
Verdicts == {"accepted", "ignored", "denied", "error"}

ASSUME BridgeAssumption ==
    /\ DOMAIN Human = Setups /\ DOMAIN Bot = Setups \union Updates /\ DOMAIN Chat = Updates
    /\ MaxUpsets \in Nat
    /\ Null \notin Setups \union Updates \union Verdicts
    /\ \A u \in Updates : \E s \in Setups : Bot[u] = Bot[s]

VARIABLES
    setup,     \* telegram_bridge_setups
    inbound,   \* telegram_bridge_inbound_updates: the row of an update
    log,       \* messages appended for a setup and an update
    hook,      \* Telegram: the webhook of a bot, and the updates
    answered,  \*   it need not send again
    creating, admin, request,  \* the handlers in flight
    managed,   \* management requests so far, which also numbers their secrets
    overlap,   \* bots that had two unbound requests in flight at once
    mishaps    \* crashes, failed webhook queries and lost answers so far

vars == <<setup, inbound, log, hook, answered, creating, admin, request, managed, overlap, mishaps>>

Chats == {Chat[u] : u \in Updates} \ {Null}
Bots == {Bot[s] : s \in Setups}
Live == {"pending_bind", "active"}

\* A row of telegram_bridge_setups; auto is auto_bind_on_first_message.
Row(status, chat, auto, secret) == [status |-> status, chat |-> chat, auto |-> auto, secret |-> secret]
Absent == Row("absent", Null, FALSE, 0)
WithStatus(row, status) == Row(status, row.chat, row.auto, row.secret)

\* A row of telegram_bridge_inbound_updates: its status, and whether there is
\* an error_message, which every UPDATE to another status than accepted sets.
Entry(status, reason) == [status |-> status, reason |-> reason]
NoEntry == Entry("none", FALSE)
Reserved == Entry("ignored", FALSE)

\* A webhook request: its update, the setup, bound_chat_id as it was loaded
\* (kept until it is looked at), and what it is about to record.
Request(pc, update, id, chat, verdict) ==
    [pc |-> pc, update |-> update, setup |-> id, chat |-> chat, verdict |-> verdict]
NoRequest == Request("idle", Null, Null, Null, Null)
Finishing(r, verdict) == Request("finish", r.update, r.setup, Null, verdict)
At(r, pc) == Request(pc, r.update, r.setup, Null, Null)

Job(pc, id, secret) == [pc |-> pc, setup |-> id, secret |-> secret]
NoJob == Job("idle", Null, 0)

Init ==
    /\ setup = [s \in Setups |-> Absent]
    /\ inbound = [s \in Setups |-> [u \in Updates |-> NoEntry]]
    /\ log = {}
    /\ hook = [b \in Bots |-> Null] /\ answered = {}
    /\ creating = [s \in Setups |-> "no"]
    /\ admin = [a \in Admins |-> NoJob]
    /\ request = [h \in Requests |-> NoRequest]
    /\ managed = 0 /\ overlap = {} /\ mishaps = 0

Mishap == managed + mishaps < MaxUpsets /\ mishaps' = mishaps + 1
Manages == managed + mishaps < MaxUpsets /\ managed' = managed + 1

(***************************************************************************)
(* Telegram.  A call that is not answered in time may still have worked.   *)
(***************************************************************************)
SetWebhook(s, secret, ok) ==
    \/ hook' = [hook EXCEPT ![Bot[s]] = [setup |-> s, secret |-> secret]]
    \/ ~ok /\ UNCHANGED hook

DeleteWebhook(s) ==
    \/ hook' = [hook EXCEPT ![Bot[s]] = Null]
    \/ UNCHANGED hook

\* Answering 200; the answer may get lost.
Answer(u) ==
    \/ answered' = answered \union {u} /\ UNCHANGED mishaps
    \/ Mishap /\ UNCHANGED answered

(***************************************************************************)
(* POST /setups.                                                           *)
(***************************************************************************)
Creates(s, pc) == creating' = [creating EXCEPT ![s] = pc]

\* No live setup for this human and channel; otherwise 409.
CheckExisting(s) ==
    /\ creating[s] = "no"
    /\ \A t \in Setups : setup[t].status \in Live => Human[t] # Human[s]
    /\ Creates(s, "checked")
    /\ UNCHANGED <<setup, inbound, log, hook, answered, admin, request, managed, overlap, mishaps>>

\* getMe answers; the row is inserted.
InsertSetup(s) ==
    /\ creating[s] = "checked"
    /\ \E auto \in BOOLEAN : setup' = [setup EXCEPT ![s] = Row("pending_bind", Null, auto, 0)]
    /\ Creates(s, "inserted")
    /\ UNCHANGED <<inbound, log, hook, answered, admin, request, managed, overlap, mishaps>>

GetMeFails(s) ==
    /\ creating[s] = "checked"
    /\ Creates(s, "no")
    /\ UNCHANGED <<setup, inbound, log, hook, answered, admin, request, managed, overlap, mishaps>>

RegisterWebhook(s) ==
    /\ creating[s] = "inserted"
    /\ \E ok \in BOOLEAN :
          /\ SetWebhook(s, 0, ok)
          /\ Creates(s, IF ok THEN "over" ELSE "refused")
    /\ UNCHANGED <<setup, inbound, log, answered, admin, request, managed, overlap, mishaps>>

MarkError(s) ==
    /\ creating[s] = "refused"
    /\ setup' = [setup EXCEPT ![s] = WithStatus(@, "error")]
    /\ Creates(s, "over")
    /\ UNCHANGED <<inbound, log, hook, answered, admin, request, managed, overlap, mishaps>>

(***************************************************************************)
(* POST /setups/:setupId/disable and /rotate-webhook-secret.  Both load    *)
(* the setup, call Telegram and then update the row.                       *)
(***************************************************************************)
Administers(a, job) == admin' = [admin EXCEPT ![a] = job]

LoadForDisable(a, s) ==
    /\ admin[a].pc = "idle"
    /\ setup[s].status \notin {"absent", "disabled"}
    /\ Manages
    /\ Administers(a, Job("delete", s, 0))
    /\ UNCHANGED <<setup, inbound, log, hook, answered, creating, request, overlap, mishaps>>

\* deleteWebhook is best effort: its failure is only logged.
Unhook(a) ==
    /\ admin[a].pc = "delete"
    /\ DeleteWebhook(admin[a].setup)
    /\ Administers(a, Job("disable", admin[a].setup, 0))
    /\ UNCHANGED <<setup, inbound, log, answered, creating, request, managed, overlap, mishaps>>

Disable(a) ==
    /\ admin[a].pc = "disable"
    /\ setup' = [setup EXCEPT ![admin[a].setup] = WithStatus(@, "disabled")]
    /\ Administers(a, NoJob)
    /\ UNCHANGED <<inbound, log, hook, answered, creating, request, managed, overlap, mishaps>>

LoadForRotate(a, s) ==
    /\ admin[a].pc = "idle"
    /\ setup[s].status \notin {"absent", "disabled"}
    /\ Manages
    /\ Administers(a, Job("rehook", s, managed'))
    /\ UNCHANGED <<setup, inbound, log, hook, answered, creating, request, overlap, mishaps>>

\* A failed setWebhook is thrown: the row keeps the old secret.
Rehook(a) ==
    /\ admin[a].pc = "rehook"
    /\ \E ok \in BOOLEAN :
          /\ SetWebhook(admin[a].setup, admin[a].secret, ok)
          /\ Administers(a, IF ok THEN Job("rotate", admin[a].setup, admin[a].secret) ELSE NoJob)
    /\ UNCHANGED <<setup, inbound, log, answered, creating, request, managed, overlap, mishaps>>

Rotate(a) ==
    /\ admin[a].pc = "rotate"
    /\ setup' = [setup EXCEPT ![admin[a].setup] = Row(@.status, @.chat, @.auto, admin[a].secret)]
    /\ Administers(a, NoJob)
    /\ UNCHANGED <<inbound, log, hook, answered, creating, request, managed, overlap, mishaps>>

(***************************************************************************)
(* POST /webhook/:setupId.                                                 *)
(***************************************************************************)
Steps(h, r) == request' = [request EXCEPT ![h] = r]
InFlight(h, s) == request[h].setup = s
Unbound == {"reserve", "conflict", "bind"}
MayBind(h, b) ==
    /\ request[h].pc \in Unbound /\ request[h].chat = Null
    /\ Bot[request[h].setup] = b

MutantLoad(h, u) ==  \* without the check for a disabled setup
    /\ request[h].pc = "idle" /\ u \notin answered /\ hook[Bot[u]] # Null
    /\ LET s == hook[Bot[u]].setup
       IN  /\ setup[s].secret = hook[Bot[u]].secret
           /\ Steps(h, Request("reserve", u, s, setup[s].chat, Null))
    /\ UNCHANGED <<setup, inbound, log, hook, answered, creating, admin, managed, overlap, mishaps>>

\* Telegram posts an update; loadSetup.  A secret that is not the row's is
\* answered 401, which changes nothing here and has Telegram try again.
Load(h, u) ==
    /\ request[h].pc = "idle" /\ u \notin answered /\ hook[Bot[u]] # Null
    /\ LET s == hook[Bot[u]].setup
           row == setup[s]
       IN  /\ row.status # "disabled" /\ row.secret = hook[Bot[u]].secret
           /\ Steps(h, Request("reserve", u, s, row.chat, Null))
           /\ overlap' = IF row.chat = Null /\ \E g \in Requests : MayBind(g, Bot[s])
                           THEN overlap \union {Bot[s]} ELSE overlap
    /\ UNCHANGED <<setup, inbound, log, hook, answered, creating, admin, managed, mishaps>>

\* A disabled setup is answered 200 and nothing is recorded; an answer that
\* gets lost changes nothing.
LoadDisabled(u) ==
    /\ u \notin answered /\ hook[Bot[u]] # Null
    /\ setup[hook[Bot[u]].setup].status = "disabled"
    /\ answered' = answered \union {u}
    /\ UNCHANGED <<setup, inbound, log, hook, creating, admin, request, managed, overlap, mishaps>>

Record(r, entry) == inbound' = [inbound EXCEPT ![r.setup][r.update] = entry]
Recorded(r) == inbound[r.setup][r.update]

MutantRoute(r) ==  \* a bound setup takes a message of any chat
    IF Chat[r.update] = Null THEN Finishing(r, "ignored")
    ELSE IF r.chat # Null THEN At(r, "append")
         ELSE IF setup[r.setup].auto THEN At(r, "conflict") ELSE Finishing(r, "denied")

\* What the handler does next with a reserved update, as the row was loaded.
Route(r) ==
    IF Chat[r.update] = Null THEN Finishing(r, "ignored")
    ELSE IF r.chat = Null
           THEN IF setup[r.setup].auto THEN At(r, "conflict") ELSE Finishing(r, "denied")
         ELSE IF r.chat = Chat[r.update] THEN At(r, "append") ELSE Finishing(r, "ignored")

\* INSERT ... ON CONFLICT DO NOTHING: status 'ignored' and no error_message.
Reserve(h) ==
    /\ request[h].pc = "reserve" /\ Recorded(request[h]) = NoEntry
    /\ Record(request[h], Reserved)
    /\ Steps(h, Route(request[h]))
    /\ UNCHANGED <<setup, log, hook, answered, creating, admin, managed, overlap, mishaps>>

Duplicate(h) ==
    /\ request[h].pc = "reserve" /\ Recorded(request[h]) # NoEntry
    /\ Steps(h, NoRequest)
    /\ Answer(request[h].update)
    /\ UNCHANGED <<setup, inbound, log, hook, creating, admin, managed, overlap>>

MutantBound(s, c) ==  \* looks among the setups that are not bound yet
    \E t \in Setups \ {s} : setup[t].status = "pending_bind" /\ setup[t].chat = c /\ Bot[t] = Bot[s]

\* SELECT of another active setup of the bot that is bound to the chat.
Bound(s, c) == \E t \in Setups \ {s} :
    setup[t].status = "active" /\ setup[t].chat = c /\ Bot[t] = Bot[s]

CheckConflict(h) ==
    /\ request[h].pc = "conflict"
    /\ LET r == request[h]
       IN  Steps(h, IF Bound(r.setup, Chat[r.update]) THEN Finishing(r, "ignored") ELSE At(r, "bind"))
    /\ UNCHANGED <<setup, inbound, log, hook, answered, creating, admin, managed, overlap, mishaps>>

Bind(h) ==
    /\ request[h].pc = "bind"
    /\ LET r == request[h]
       IN  /\ setup' = [setup EXCEPT ![r.setup] = Row("active", Chat[r.update], @.auto, @.secret)]
           /\ Steps(h, At(r, "append"))
    /\ UNCHANGED <<inbound, log, hook, answered, creating, admin, managed, overlap, mishaps>>

MutantAppendText(h) ==  \* a denied append passes for an accepted one
    /\ request[h].pc = "append"
    /\ LET r == request[h]
       IN  /\ log' \in {log, log \union {<<r.setup, r.update>>}}
           /\ Steps(h, Finishing(r, "accepted"))
    /\ UNCHANGED <<setup, inbound, hook, answered, creating, admin, managed, overlap, mishaps>>

\* service.appendMessage, with a key of the setup and the update: it commits,
\* or denies and requests the permission; for its errors see QueryFails.
AppendText(h) ==
    /\ request[h].pc = "append"
    /\ LET r == request[h]
       IN  \/ log' = log \union {<<r.setup, r.update>>} /\ Steps(h, Finishing(r, "accepted"))
           \/ Steps(h, Finishing(r, "denied")) /\ UNCHANGED log
    /\ UNCHANGED <<setup, inbound, hook, answered, creating, admin, managed, overlap, mishaps>>

Finish(h) ==
    /\ request[h].pc = "finish"
    /\ Record(request[h], Entry(request[h].verdict, request[h].verdict # "accepted"))
    /\ Steps(h, NoRequest)
    /\ Answer(request[h].update)
    /\ UNCHANGED <<setup, log, hook, creating, admin, managed, overlap>>

(***************************************************************************)
(* What goes wrong.                                                        *)
(***************************************************************************)
\* A query of the webhook, or appendMessage, throws.  After the reservation the handler is in
\* its try block and records 'error'; before it, or when that fails too, the
\* request ends with a 500 and Telegram sends the update again.
QueryFails(h) ==
    /\ request[h].pc \in {"reserve", "conflict", "bind", "append", "finish"}
    /\ Mishap
    /\ Steps(h, IF request[h].pc = "reserve" \/ request[h].verdict = "error"
                  THEN NoRequest ELSE Finishing(request[h], "error"))
    /\ UNCHANGED <<setup, inbound, log, hook, answered, creating, admin, managed, overlap>>

\* The last query of a management request throws, after Telegram was called.
AdminFails(a) ==
    /\ admin[a].pc \in {"disable", "rotate"}
    /\ Administers(a, NoJob)
    /\ UNCHANGED <<setup, inbound, log, hook, answered, creating, request, managed, overlap, mishaps>>

\* The process dies: the tables and Telegram keep what they have.
Crash ==
    /\ Mishap
    /\ creating' = [s \in Setups |-> IF creating[s] \in {"no", "checked"} THEN "no" ELSE "over"]
    /\ admin' = [a \in Admins |-> NoJob]
    /\ request' = [h \in Requests |-> NoRequest]
    /\ UNCHANGED <<setup, inbound, log, hook, answered, managed, overlap>>

Create(s) ==
    CheckExisting(s) \/ InsertSetup(s) \/ GetMeFails(s) \/ RegisterWebhook(s) \/ MarkError(s)
Administer(a) ==
    \/ \E s \in Setups : LoadForDisable(a, s) \/ LoadForRotate(a, s)
    \/ Unhook(a) \/ Disable(a) \/ Rehook(a) \/ Rotate(a) \/ AdminFails(a)
Proceed(h) ==
    Reserve(h) \/ Duplicate(h) \/ CheckConflict(h) \/ Bind(h) \/ AppendText(h) \/ Finish(h)
Deliver(u) == LoadDisabled(u) \/ \E h \in Requests : Load(h, u)

Next ==
    \/ \E s \in Setups : Create(s)
    \/ \E a \in Admins : Administer(a)
    \/ \E u \in Updates : Deliver(u)
    \/ \E h \in Requests : Proceed(h) \/ QueryFails(h)
    \/ Crash

Spec == Init /\ [][Next]_vars

(***************************************************************************)
(* Properties.                                                             *)
(***************************************************************************)
Secrets == 0 .. MaxUpsets
Entries == [status : Verdicts \union {"none"}, reason : BOOLEAN]

TypeOK ==
    /\ setup \in [Setups -> [status : Statuses \union {"absent"}, chat : Chats \union {Null},
                             auto : BOOLEAN, secret : Secrets]]
    /\ inbound \in [Setups -> [Updates -> Entries]]
    /\ log \subseteq Setups \X Updates
    /\ hook \in [Bots -> [setup : Setups, secret : Secrets] \union {Null}]
    /\ answered \subseteq Updates
    /\ creating \in [Setups -> {"no", "checked", "inserted", "refused", "over"}]
    /\ admin \in [Admins -> [pc : {"idle", "delete", "disable", "rehook", "rotate"},
                             setup : Setups \union {Null}, secret : Secrets]]
    /\ request \in [Requests -> [pc : {"idle", "reserve", "conflict", "bind", "append", "finish"},
                                 update : Updates \union {Null}, setup : Setups \union {Null},
                                 chat : Chats \union {Null}, verdict : Verdicts \union {Null}]]
    /\ managed + mishaps \in Secrets /\ overlap \subseteq Bots /\ {managed, mishaps} \subseteq Nat

Working(s, u) == \E h \in Requests : InFlight(h, s) /\ request[h].update = u

(* What is recorded of an update agrees with the channel: accepted means     *)
(* that the message is there; denied, and ignored for a reason, that it is   *)
(* not; and while nothing crashes, fails or gets lost, no row is left as it  *)
(* was reserved and every appended update is recorded as accepted once its   *)
(* request is over.  After a crash or a failed UPDATE the reserved row stays,*)
(* and its status 'ignored' tells nothing: the message may be in the channel.*)
(* Neither does 'error': the UPDATE after the append may be what failed.     *)
RecordsTell ==
    \A s \in Setups, u \in Updates :
        /\ inbound[s][u].status = "accepted" => <<s, u>> \in log
        /\ inbound[s][u] # Reserved /\ inbound[s][u].status \in {"ignored", "denied"} => <<s, u>> \notin log
        /\ mishaps = 0 /\ ~Working(s, u) =>
              /\ inbound[s][u] # Reserved
              /\ <<s, u>> \in log => inbound[s][u].status = "accepted"

(* docs/spec/telegram-bridge.md, "one Telegram private chat": unless two     *)
(* requests for a bot were in flight with an unbound setup at the same time, *)
(* every message of a setup is from the chat it is bound to.                 *)
CalmlyOneChat ==
    \A s \in Setups : Bot[s] \notin overlap =>
        \A u \in Updates : <<s, u>> \in log => Chat[u] = setup[s].chat

(* Under the same condition no two active setups of a bot share a chat.      *)
CalmlyOneOwner ==
    \A s \in Setups : Bot[s] \notin overlap =>
        \A t \in Setups \ {s} :
            setup[s].status = "active" /\ setup[t].status = "active" /\ Bot[s] = Bot[t]
                => setup[s].chat # setup[t].chat

\* Disabled, and no request left that loaded the setup before.
Retired(s) ==
    /\ setup[s].status = "disabled" /\ creating[s] = "over"
    /\ \A h \in Requests : ~InFlight(h, s)

(* A disabled setup stays disabled, and appends nothing more, from the       *)
(* moment that its creation and the webhook requests that loaded it earlier  *)
(* are over.                                                                 *)
RetiredForGood ==
    [][\A s \in Setups : Retired(s) =>
          Retired(s)' /\ \A u \in Updates : (<<s, u>> \in log)' => <<s, u>> \in log]_vars

(* One human, one chat: what a setup appended came from the chat it is bound *)
(* to, and no two active setups of a bot are bound to the same chat, unless  *)
(* unbound requests of the bot overlapped.                                   *)
CalmlyPaired == TypeOK /\ CalmlyOneChat /\ CalmlyOneOwner
=============================================================================
