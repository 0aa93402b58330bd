# A TLA+ development of message-layer

message-layer is a headless messaging layer: one TypeScript process that keeps
organizations, channels, threads, messages, grants and an audit log in one SQL
database, and serves them to people and agents over HTTP and WebSocket, with
plugins that carry the events elsewhere (webhooks, durable streams, Telegram,
memory, search).  This directory holds TLA+ modules translated from its source,
the TLC configurations that check them and the TLAPS proofs about them.

    tlc -workers 2 -config MCAppendMessage.cfg MCAppendMessage.tla
    tlapm AppendMessageProofs.tla

## Inventory

| part | source (src/...) | state it keeps | operations | what is hard | what makes it correct |
|---|---|---|---|---|---|
| message core | src/service.ts | messages, stream_counters, message_parts | appendMessage, redactMessage, listMessages, subscribe | transactions at READ COMMITTED without locks; idempotent retries; events published after COMMIT | numbers without gaps, one message per key, a use paid exactly once |
| authorization | src/service.ts | grants, permission_requests, registered_commands | create/revoke grants, consumption, create/resolve requests, register/delete commands | several transactions per operation; reads before the transaction | an approval is backed by a grant; a retired grant pays for nothing; a request is resolved once |
| audit log | src/service.ts | audit_events, events | emit, appendAudit, verifyAuditChain | a hash chain appended by concurrent transactions | one unbroken chain per org |
| database adapters | src/db.ts | the connections | tx, query | Postgres: a connection per transaction; PGlite: one for all callers | all or nothing, no connection left in a transaction |
| event bus, WebSocket | src/event-bus.ts, src/ws.ts | listeners; subscriptions, lastSeq of each | publish, subscribe, unsubscribe, close | replay meets live delivery; awaits between a check and a send | nothing twice, nothing missed, nothing after removal |
| durable streams (two plugins) | src/plugins/durable-streams*.ts | a row, chunks as rows or as blobs, waiting tails | create, append, tail, close, commit | a copy of the row used after other requests moved on; failure between two queries | a tail sees each offset once; a commit holds what was acknowledged |
| orgs, actors, channels, threads, memberships | src/service.ts | organizations, actors, channels, threads, memberships, cursors, clients | create, add/remove member, deleteChannel, deleteOrg, updateCursor, registerClient | readability and existence are read before the transaction; almost no foreign keys | nothing private is readable without membership; nothing refers to what was deleted |
| artifacts, storage | src/service.ts, src/storage* | a row and a blob | register, delete, signed URLs | two stores written one after the other | a row has its blob |
| Telegram bridge | src/plugins/telegram-bridge.ts | setups, inbound and outbound reservations | set up, bind, webhook, deliver, disable | reserve, then act, then record, with a crash between; bind against disable | an update becomes one message; a chat is bound once |
| memory, search | src/plugins/memory.ts, search.ts | projections of the events | ingest, promote, redact, query, backfill | listeners run concurrently and out of order; the next start redoes only part | what the log says is what is derived; nobody finds what they may not read |
| webhooks | src/plugins/webhooks.ts | subscriptions, deliveries | subscribe, deliver | delivery, then the record of it | |
| agents | agents/poet, weather, assistant, cursor | what was read and what was answered, in memory only; the cursor agent's sessions | read events, ask for permission, answer; launch, watch and relay runs | pages read again, calls that failed after they worked, approvals while the handler waits, handlers side by side | an invocation is answered once, and none is passed over unnoticed |
| team application: onboarding | clients/nextjs/lib, app/api/team; agents' bootstrap files | settings, user_actor_map, user_roles, invites, agent_join_requests; the agents' saved state | bootstrap, invite, accept, change role, join, answer a join request | two stores joined by HTTP; requests of one page at once; an in-memory server that forgets | one actor per user, the grants of its role, one owner |
| team application: page | clients/nextjs/components/team-workspace.tsx and the routes it calls | lists, the channel and thread on the screen, the composer | poll, select, send, attach, open a thread, create and delete channels, answer requests | answers arrive in any order and find another state than the one they were asked for | what is typed is sent once; the page shows what the server has |
| agent kernel | src/agent-kernel/kernel.ts | pending approvals | tool calls, approve, deny, abort | a tool call that waits for a person | a tool runs only if approved |
| authentication plugins | src/plugins/*-auth.ts | a replay window | verify | | |
| plugin host, runtime, config | src/plugins.ts, server-runtime.ts, config.ts | | start, stop | | |
| HTTP, SDK | src/http.ts, src/sdk | | one service operation per route or method | | |
| terminal client, scripts | clients/terminal, scripts/ | | programs that use the API | | |

How they interact.  A route of http.ts, or a plugin's route, parses its input
and calls one operation of the service.  An operation reads what it checks with
queries of its own, opens a transaction (`db.tx`), in which every change calls
`emit`, which inserts an events row and, through appendAudit, an audit row; it
publishes the events on the in-process bus after the transaction returned.  The
bus calls every listener at once and awaits none: WebSocket subscriptions and
the `onEvent` of the plugins run concurrently, each with awaits of its own.  So
there are three sources of interleaving: statements of different transactions
(Postgres), operations between two of their own queries, and listeners.

Outside the server's process the same questions come back a level up.  An agent
and the team application reach the service over HTTP, one request after the
other, and each keeps a state of its own beside the server's: a list of what was
read, a row that names an actor, a list on the screen.  An answer may be lost or
late, either side may restart, and nothing joins the two in a transaction.

## Modules

| module | models | abstracts from |
|---|---|---|
| `MessageLog` | what a caller of appendMessage may rely on: a log per stream, entries made at once | everything below |
| `AppendMessage` | `appendMessage` and what it calls, a statement at a time: the checks before the transaction, the replay lookup, consumeGrantInTx, nextSeqTx, the INSERT, emit and appendAudit, COMMIT, publish, the answer | parts, mentions, artifact references; privacy |
| `Approvals` | grants, permission requests and commands: each operation as its reads and its transactions | which resource a capability is for; expiry |
| `AtomicStore` | what the service expects of `tx` | |
| `SqlTx` | `PostgresClient.tx` and `PgliteClient.tx`, with the session of the server | what the statements are |
| `WebSocketStream` | one socket's subscriptions to a stream: subscribe, replay, listener, re-check, unsubscribe, close; the writers and the membership as an environment | parsing, other streams |
| `DurableStream` | append, close, commit and tail of one stream, on both plugins | who may write; text as sets of chunks |
| `TelegramBridge` | create, disable and rotate of the setups of a channel, and the webhook from the posted update to its answer | message contents; the projection to Telegram; privacy checks |
| `Spaces` | an org's actors, channels, threads, memberships, counters, artifacts and their bytes: the check, the transaction and the blob-store call of each operation, deleteChannel and deleteOrg among them | grants, sequence numbers, names |
| `Projections` | the memory and the search plugin as listeners, the start of search, redaction, promotion, and the routes that read what was derived | ranking; snippets; a text is a model value |
| `AgentWorld` | the server as an agent sees it, and the client the four agents share: call, ask, wait, call once more | parts of messages |
| `PollingAgents` | the poet and the weather agent, EXTENDS `AgentWorld` | poems and forecasts |
| `ChatAgents` | the assistant and the cursor agent with their sockets and the cloud's runs, EXTENDS `PollingAgents` | what the model says, a choice |
| `Workspace` | the team application's onboarding, roles and join requests, and the agents' bootstrap, between its database and the server | names; five of a role's grants as "write", three as "manage" |
| `TeamClient` | the page in one browser and the routes it calls, with other members changing the same data | webhooks, commands, members, memory and search lists |

Each component module is parameterised by CONSTANTS and has an `MC...` module
that gives them values; `MCAgents` instantiates `AgentWorld`, `PollingAgents`
and `ChatAgents` together.  Each of the eight `...Proofs` modules EXTENDS the component
it is named after, and three of them a second one: `AppendMessageProofs` also `SqlTx`,
on whose transactions it rests; `WorkspaceProofs` also `TeamClient`, the other half of
the team application; `TelegramBridgeProofs` also `ChatAgents`, the other programs that
carry messages to and from a service outside.

**AppendMessage.**  One process per call.  `pc` is the statement the call is
at; the locals of the function are `cap`, `pick`, `seen`, `todo`, `head`.  A
row written by an open transaction is not in the tables: it is in `charged` and
`wrote`, and joins `uses`, `counter`, `messages` in `Commit`.  Row locks follow
from this: an UPDATE is enabled when no other open transaction has written the
row, an INSERT of a duplicate key when the other transaction has ended.
`LoseTx` is anything that ends a transaction early, `LoseAck` a process that
dies between COMMIT and the answer; the retry is another call with the same key.
`raced` is a history variable: the grants a call chose while another transaction had
them in use.
`Publish` hands the events to the bus and answers.

**Approvals.**  One process per call, of one of the kinds ask, resolve, issue,
revoke, kick, register, delete and act (a call that consumes a grant).  A step
is one query outside a transaction or one whole transaction, since these
transactions do not depend on interleaving with themselves but on what their
operation read before them; consumption is split into the choice of the row and
the UPDATE, which at READ COMMITTED sees later versions of it.  `Lose` cuts a
call off between its transactions.  `told` folds the published events.  `deadBefore`
remembers which grants were retired when a call began, and again when it chose the
one it charges.  `calm`, chosen at the start, makes calls come one at a time, so that
what holds only then is checked on the same module.

**SqlTx.**  A session is Postgres's: BEGIN in a transaction and COMMIT outside
one only warn, a failed statement aborts the transaction.  The initial state
chooses the adapter and whether callers overlap.

**WebSocketStream.**  A subscribe message is authorized, queries its replay and
attaches its listener, an await apart; the loop that sends the replay and the
registration of the listener are one step, as in the code.  A published event
starts one check per listener; its answer is found and then used in separate
steps.  Writers commit in sequence order (that is `AppendMessage`'s GapFree) and
publish in any order; a transaction commits one event or several with one number (a
message, its mentions and its command) and publishes them one after the other, so `log`
is the number of each event and an event is its place in it.  `unheard` and
`overtaken` remember which events were published while a request had queried and not
attached, or after a later number, `late` the requests authorized before a removal and
queried after it.  `calm` keeps writers and subscribers apart.

**DurableStream.**  A request loads the stream's row into `row` and works on it;
each query and each put is a step; `Fail` ends a request anywhere.  The initial
state chooses the plugin (`store`) and whether requests overlap (`calm`).  A
tail's poll, status read, wait and timer are steps; `Notify` wakes the waiters
that are registered at that moment.

**TelegramBridge.**  A handler is a record with the point it has reached and what
it loaded (`creating`, `admin`, `request`); every await of the database or of
Telegram is a step boundary.  A webhook request keeps `bound_chat_id` as it was
loaded, before the update is reserved, until `Route` looks at it; the check for
another active setup (`CheckConflict`) and the UPDATE (`Bind`) are two steps.
Telegram is external: one webhook per bot (`hook`), and an update may be posted,
several times at once, until a 200 has reached Telegram (`answered`).  A Telegram
call that fails may have worked.  `Crash` drops the handlers and keeps the
tables; `QueryFails` is the catch block.  The row of an update is its status and
whether it has an error_message: it is inserted as 'ignored' without one (`Reserved`),
and so it stays if nothing overwrites it; `overlap` is a history variable: the
bots that had two requests in flight that could both bind.

**Spaces.**  A call is a record with the point it has reached (`at`) and what it
found; `Check...` is what an operation reads before its transaction, `CreateX`,
`AppendRow`, `DeleteRows` and the like are the transactions.  deleteChannel reads
its threads first and deletes by that list; deleteOrg deletes bytes first and rows
after.  `drawn` keeps ids from being drawn twice.  `Fails`, `LosesAnswer` and
`Crash` end a call before, after or between its steps.  `overlap` remembers that a
deletion shared its time with another call, `doubted` the bytes that deleteOrg or a
lost answer took from a live row.  The schema has foreign keys from actors to
organizations and from registered commands and webhook subscriptions only, so
every other reference is the code's to keep.

**Projections.**  An event that is committed waits in `unpublished` and then
starts one job per plugin that handles its type; a job goes through the queries of
its handler one at a time, beside the jobs of other events.  `units` and `edges`
are the memory plugin's tables, `docs` the search plugin's.  `Crash` drops jobs and
events, `Restart` runs the backfill of search (memory has none).  `disturbed`
remembers that jobs ran side by side or that one was dropped or failed, `missed`
that search missed an event since the last backfill.

**AgentWorld, PollingAgents, ChatAgents.**  A handler is a job: the call it is
about to make (`at`), for which purpose (`stage`), for which invocation (`key`).
`append`, `createThread`, `createChannel`, `openPermissionRequest` and
`waitForPermissionDecision` are the client of `ml.ts`, which the agents' copies
(`assistantAppendMessage`, `cursorAppendParts`, ...) instantiate.  The loop is
`scan`: the channels and streams still to read, the page in hand, the number to go
on from (`max`) and what the page's end cut off (`cut`).  The poet and the weather
agent handle one invocation at a time; over a socket each message starts handlers
of its own, and the cursor agent watches its runs beside them.  `outcomes` records
how each invocation ended in each life of the process: replied, refused, thrown,
skipped, cut.  A behaviour runs one program, chosen by the start.

**Workspace.**  The application's database calls are synchronous, so its code runs
undisturbed from one HTTP request to the next: `pc` of a call is the request it
waits for, and an action serves the request and runs the code after it.  Of the
calls of one user that need the principal one resolves it (`resolving`), the others
wait for its promise.  `AnswerLost` is a request whose effect may have happened and
whose answer did not come; `AppRestart`, `AgentStops` and `ServerRestart` (which
empties an in-memory server) are the crashes.  A user who may not create a
channel leaves a permission request, and whoever has the capability answers it, in one
step of the server: the steps of an answer, and answers that overlap inside the server,
are those of `Approvals`.  Requests of the one kind channel:create, without a limit of
time or uses, stand for all; the branch of the route for a reply in a thread, which
grants on the channel, is in `AgentWorld`.  `lost`, `left.wiped` and `overlapped` are
the history the properties speak of.

**TeamClient.**  A request is in `flight`, then served, then answered, when the
code after its `await` runs over the state it captured and React runs the effects
of the render.  Nothing is cancelled.  The timer may ask for a list at any time
(its requests are independent of each other), once there is an active channel:
without one the effect returns before it sets the timer.  The requests of one page
that arrive together wait for one resolution of the principal and fail with it
(`ResolutionFails`).  `default` is the application's default_channel_id: who asks for
the channels of a workspace that has none makes one.  `late` is what was typed while a
message was being sent, `again` what was sent twice.

## Runs

A property that is a conjunction is checked under one name; its parts keep
definitions of their own, which the counterexample of a failing run points to.

| run | what it checks | states |
|---|---|---|
| `append` | LogSound (types, GapFree, OneMessagePerKey), PaidOnce, AuditExtendsCommitted, ImplementsLog, EveryCallAnswered | 360 000 |
| `append_chain` | the documented claim that the audit chain verifies, which the code does not keep (Findings) | violated |
| `approvals` | OutcomesAgree (types, ApprovedHasGrant, CommandFollowsRequest), EventsRetell, OneLivePerChannelSlot, RevocationIsFinal (NoUseAfterRevocation, KickIsComplete), CalmlyResolved | 942 000 |
| `sqltx` | Transactional (types, AllOrNothing, SessionsRest), ImplementsStore, EveryTxAnswered | 42 000 |
| `websocket` | SentFaithfully (types, SentOnce, RemovalIsFinal), Contiguous (LostOnlyInBetween, CalmlyContiguous), LiveEventArrives | 489 000 |
| `durable` | TailSound (types, TailFaithful), CalmlyComplete, RowsStayContiguous, TailEnds | 425 000 |
| `telegram` | RecordsTell, CalmlyPaired (types, CalmlyOneChat, CalmlyOneOwner), RetiredForGood | 984 000 |
| `spaces` | NothingHangs (types, DeletionIsComplete): deletions take everything that hangs on what they delete; LiveArtifactsHaveBlobs | 970 000 |
| `projections` | TypeOK, CalmlyDerived (what is derived is what the log says), LiveIsFound, ShownIsReadable | 775 000 |
| `agents` | AnsweredOncePerLife, PassedIsSettled, CursorInOrder (OneRunPerMessage, SessionsTell), EventuallyRead | 469 000 |
| `workspace` | OneActorOneOwner (OneActorPerUser, OneOwner), CalmlyGranted, CalmlyOneIdentity, AnsweredForGood | 506 000 |
| `client` | WordsSentOnce, OpenThreadIsListed, EventuallyFresh | 138 000 |

Bounds, and why they are enough.

- `append`: three calls on two streams and two keys; the first two may be
  retries of each other, or compete for the same grants of one use, or be a
  command that needs two grants; the third shares the stream with a scoped
  actor, or asks for permission on another stream.  Every conflict in the code is
  between two transactions; the third lets one of them have failed before.
- `approvals`: four calls out of the inputs listed per call in `MCApprovals`, at
  most three open (`MaxOpen`): a request or a command, and three operations on
  it by an admin with the scope and by an actor who resolves with a grant that
  another call takes away.
- `sqltx`: three callers on two connections, two statements each: a caller must
  wait for a connection, and a transaction has a middle.
- `websocket`: three events and two subscriptions, four inputs altogether
  (`MaxInputs`); a message has one event or two (`PerMessage`), a replay page is two
  events, so it may end between those of a message.
- `durable`: an append of two chunks and one of one, a close, a commit and its
  retry; three of them when requests overlap (`MaxOverlapping`), all five when
  they do not.
- `telegram`: two setups of one bot and one human, two updates from two chats,
  two webhook requests and one management request in flight, and one upset
  (`MaxUpsets`): a disable, a rotation, a crash, a failing query or a lost answer.
  Two setups are live together only if their creations overlap, which two allow;
  every conflict is between two requests.  Setups, requests, and updates with
  their chats, are symmetric.  Combinations of several upsets are left to the proofs.
- `spaces`: an actor, a channel, a thread with its parent, a message in the thread
  and an artifact can all be there before a deletion begins, which takes six calls
  (`MaxCalls` is seven); two calls at once, since every conflict is between a check
  and one other transaction; one fault (`MaxFaults`).  Messages and calls are
  symmetric.
- `projections`: two messages that share a text, in a channel or in its thread, with
  filler and without; four commits, calls and faults (`MaxEvents`), so that both
  messages can be appended and one redacted twice, or its text promoted; three jobs at once
  (`MaxJobs`): both listeners of one event and one of the next; two events not yet
  published (`MaxPending`), so that they may be published in either order; one fault (`MaxFaults`).
- `agents`: 22 starts in `MCAgents`, several for each program: all granted or next to
  nothing, an active, pending or missing command, one or two posts in a channel, a private
  channel or a thread, up to two failing calls, up to two lives.  A page holds two
  events (`PageLimit`, 200 in the code) so that a message with a command and a
  mention does not fit; the assistant looks back one message (`SeekLimit`, 10).
- `workspace`: fifteen starts in `MCWorkspace`: the first minute with two users and
  three requests, or with an agent that asks meanwhile; an invitation; overlapping
  changes of roles; a member's permission request with two answers, a change of role or a
  second request meanwhile; an agent with two or three starts and up to three answers to its
  request, one failure; a server that forgets.
- `client`: ten starts in `MCTeamClient`: two messages or a message and an
  attachment, with or without a failure; a thread opened or created while the member
  leaves; a channel deleted or created while another member deletes one, all of them
  deleted, the default one deleted without a successor; two administrators; a session
  that begins, whose first requests may fail together.  The channel the application makes
  when there is none is one of the set (`General`), and nobody deletes it again.  `Page` is 1 (100 in the program), so that a
  second post is off the page; `MaxReads` (two lists under way when a third is asked
  for) bounds what the program leaves unbounded: one stale and one fresh.

Fairness.  `AppendMessage`, `Approvals`, `SqlTx`, `WebSocketStream`,
`DurableStream`, `TelegramBridge`, `Spaces`, `Projections` and `Workspace` state none in `Spec`.
`FairSpec` adds it where a run checks liveness:
weak fairness of each call's own steps in `AppendMessage` (the database executes
what it was sent, and a statement that waits for a lock gets it when the lock
goes), of each step in `SqlTx`, with strong fairness of `Connect` since the pool
serves its queue in order, of the publications and the listener's steps in
`WebSocketStream` (the event loop), and of the tail in `DurableStream`, whose
timer fires.  In the agents it is weak fairness of the running program (`Agent`): its
event loop goes on while it is up.  In `TeamClient` a request for a list is served and its
answer shown (weak), and the timer ticks (strong, because `MaxReads` disables a tick
now and then and no such bound is in the program).  Nobody is obliged to call, to
post, to fail, to start a process or to remove a member.

CHECK_DEADLOCK is off in `durable`, `websocket`, `telegram`, `spaces`,
`projections`, `agents`, `workspace` and `client`, where the system may come to rest
when the bounded inputs are used up; in the others a disjunct for the finished
state says so, and a deadlock would be one of the code (a cycle of row locks).

## Findings

- `append_chain` (service.ts:335): two transactions of an org extend the same
  audit row; the chain does not verify afterwards.

Other places where the code and its documentation differ, met while modelling.
They are in the models; no run of their own asserts the documented sentence, and
what the passing runs say is what does hold.

| code | says | what the model allows | what holds |
|---|---|---|---|
| service.ts:589 | authorization.md:29, "Hard cap on consumptions", and 39-43, two consumers of a `maxUses: 1` grant "can never both succeed"; the comment at 573-576 | both have chosen the row, the second waits for its lock and charges it again: READ COMMITTED looks at `WHERE id = ...` again, not at the subquery | PaidOnce: the cap holds for the calls that chose the grant while nobody else had it in use |
| service.ts:1929 | authorization.md:142-143, "A request may only be resolved once" | overlapping resolvers of one request all succeed | CalmlyResolved, OutcomesAgree |
| db.ts:251 | db.ts:8-9, both adapters share "transaction semantics" | transactions that overlap on PGlite end each other | Transactional, for callers that do not share a connection |
| ws.ts:190 | concepts.md:125, events arrive in order | events pass the comparison with lastSeq together and are sent in either order | SentFaithfully, Contiguous |
| ws.ts:184, service.ts:1638 | events.md:66-68, replay and then live events, on one socket | what is published between the query and `bus.subscribe` is lost | Contiguous (LostOnlyInBetween), LiveEventArrives |
| ws.ts:176 | ws.ts:192-193, revocations "take effect immediately for live sockets" | a subscribe request that was authorized before the removal and queries after it replays newer events | SentFaithfully: such a replay only, no live frame |
| service.ts:1647 | events.md:64-65, all events after the number | a page may end between the events of one number; who goes on from that number loses the rest | LiveEventArrives but for those (SplitByLimit); "cut" in PassedIsSettled |
| durable-streams.ts:403 | http-api.md:596, "Appended atomically in order" | a failed append leaves some of its chunks behind, and a tail shows them | RowsStayContiguous, TailSound |
| telegram-bridge.ts:704, 720 | telegram-bridge.md:166-167, an update from another chat is ignored | two first messages from two chats both bind the setup and both are appended as the human | CalmlyPaired |
| telegram-bridge.ts:664 | telegram-bridge.md:68-71, the row is the update's outcome | the row is reserved as 'ignored'; a crash, or a failing UPDATE, after appendMessage leaves it so for a message that is in the channel | RecordsTell, but for reserved rows |
| durable-streams.ts:682 | http-api.md:573, the final message is committed | a commit that failed after it had appended leaves the stream open, and its retry returns that message, without what was appended since | CalmlyComplete: only then, and only chunks that come after all it holds |
| service.ts:2309 | its comment up to 2247, "missing blobs are not" tolerable | a lost answer to COMMIT makes the catch block delete the bytes of a committed row | LiveArtifactsHaveBlobs, but for `doubted` |
| search.ts:400 | events.md:38, "content is no longer readable" | a thread's document keeps the text of its redacted parent as title | ShownIsReadable says who sees it |
| resolve/route.ts:66 | the poet's README:13-14, approve and it goes on | approving a reply in a thread grants on the channel, which hasGrant does not consult for the thread; the call is refused again | the outcome is "refused" in PassedIsSettled |
| lib/message-layer.ts:317 | the poet's README:90-92, a wiped server is set up again | the recovery tests for "FOREIGN KEY constraint failed", the server answers "org not found" (service.ts:909), and nothing is set up; a saved ticket that was approved returns the dead actor | the properties of Workspace across `ServerRestart` |
| lib/message-layer.ts:446 | the application's README:9, live polling for new activity | the page asks for the first 100 messages of a channel from number 0, every time | EventuallyFresh, for the first page |
| team-workspace.tsx:447 | the application's README:9, as above | if the bootstrap and the list of channels both fail, as they do when the one principal they wait for fails (lib/message-layer.ts:271-272), the effect returns before setInterval and the page stays empty | EventuallyFresh, for a page that shows a channel or is about to |
| cursor.ts:913-914 | its comment, "exactly one run" | in a private channel a message with a command launches two | CursorInOrder, with that exception |

Smaller ones.  Onboarding: the first calls of two users may make two organizations,
one of which is forgotten; an invitation's role is stored before the grants are
made, so that a crash leaves a role without grants; two administrators who approve
one join request make two actors, and an approval that races a denial leaves an actor
nobody uses; a denied agent finds the same denial at each start; any session may send
invitations.  Agents: an exception in a handler of the assistant
ends `run()` but not the process while its socket is open (the cursor agent logs it and
goes on, cursor.ts:989-1017); both poll only if the socket never
opened, not after it closed; the poet's and the weather agent's retry after a refusal
deletes the key from `seen` but has passed the number (poet.ts:356-370); `monitorCursorRun` is not awaited, so an append that fails in it ends
the process; cursor.ts:969-987 (a thread.created event) cannot be reached.  The poet's README (7-9) denies what the poet does:
it creates #poems and posts on a schedule.

## Proofs

Eight modules hold the theorems; their comments say what each part of an
invariant is for.  Every safety property of every passing run, invariant or action
property, is proved for all values of the constants, and so are both refinements.
The method is the same everywhere: what a run checks is not inductive, so a
stronger invariant is stated as a conjunction of named parts, was checked by TLC
on the run's instance first, holds initially, and is preserved by each action.

| module | theorem | states |
|---|---|---|
| `AppendMessageProofs` | AlwaysSound | LogSound: numbers 1..n, one message per key |
| | PaidExactlyOnce | PaidOnce |
| | AuditRowsExtendCommitted | AuditExtendsCommitted |
| | AppendImplementsLog | ImplementsLog: AppendMessage implements MessageLog |
| `ApprovalsProofs` | OutcomesAlwaysAgree, SlotsAreSingle, EventsTellAll | OutcomesAgree, OneLivePerChannelSlot, EventsRetell |
| | RevocationsAreFinal | RevocationIsFinal |
| | ResolvedWhenCalm | CalmlyResolved |
| `AppendMessageProofs`, of `SqlTx` | AlwaysTransactional | Transactional |
| | AdapterImplementsStore | ImplementsStore: SqlTx implements AtomicStore |
| `WebSocketStreamProofs` | FramesAreFaithful, StreamIsContiguous | SentFaithfully, Contiguous |
| `DurableStreamProofs` | TailsAreSound, CompleteWhenCalm | TailSound, CalmlyComplete |
| | RowsAreContiguous | RowsStayContiguous, an action property |
| `TelegramBridgeProofs` | RecordsAlwaysTell, PairedUnlessOverlap | RecordsTell, CalmlyPaired |
| | DisabledIsFinal | RetiredForGood, an action property |
| `SpacesProofs` | DeletionsLeaveNothing, BytesAreKept | NothingHangs, LiveArtifactsHaveBlobs |
| `WorkspaceProofs` | OneActorOneOwnerAlways, RolesAreGranted, OneIdentityEach | OneActorOneOwner, CalmlyGranted, CalmlyOneIdentity |
| | AnswersStandForGood | AnsweredForGood, an action property |
| `WorkspaceProofs`, of `TeamClient` | WordsAreSentOnce, OpenThreadAlwaysListed | WordsSentOnce, OpenThreadIsListed |
| `ProjectionsProofs` | TypeCorrect, AlwaysReadable | TypeOK, ShownIsReadable |
| | LiveAlwaysFound, DerivedWhenCalm | LiveIsFound, CalmlyDerived |
| `TelegramBridgeProofs`, of `ChatAgents` | AgentsKeepOrder | AgentsInv, the inductive invariant of the agents |
| | AlwaysAnsweredOncePerLife, AlwaysPassedIsSettled | AnsweredOncePerLife, PassedIsSettled |
| | CursorAlwaysInOrder | CursorInOrder |

**AppendMessage.**  nextSeqTx reads the counter and writes it back in two
statements, so GapFree cannot be inductive.  What carries it is that a counter
read earlier is at most the committed one (SeenBehind), that at most one open
transaction has moved the counter of a stream (CounterLock), and that a row
inserted with a number that is taken waits for, or fails on,
UNIQUE(stream_id, stream_seq) (PendingFits).  The same constraint on the key gives
OneMessagePerKey.  With the types, WroteByPc, Rows and NeverOne they are `LogInv`.
`PayInv` adds what a call has paid at each point (PaidByPc: the capabilities
before the current one, or all it needs) and counts the uses of a grant by the
messages that charged it, a rolled back call among neither.  `Capped` adds the cap:
of the transactions that have a grant in use one at most did not race for it
(OneFirst), and while there is one a use is left over by the messages that did not
(Room); each choice of the row found uses_count below max_uses.  `AuditInv` says
that the row a call holds in `head`, and the row each row extends, is committed or
the call's own, so that a rollback takes along whatever extends it.  The
refinement maps the log to the rows in the order of their numbers; GapFree makes
that a sequence (EntriesAreRows), COMMIT of a message is Enter, the
publication or a lookup that finds the message is Confirm, and everything else
stutters.

**Approvals.**  Each conjunct speaks of one call or one request row.  StepOf and
GrantOf say which step belongs to which operation and which rows it has in hand.
A resolver has issued its grant before it settles (ResolverOf): so an approved
request has its grant whoever settles it last.  RevokerOf compares what a call
holds with the grants retired, and those alive, when it began, or when it chose the
grant it charges: one retired earlier is never among those it may charge.  SlotOf keeps a channel's slot single
although the check precedes the INSERT, because the row is never removed and the
constraint makes the second INSERT fail.  CalmOf adds, for calls that come one at a
time, that the request a resolver read as open still is.

**SqlTx.**  A session that does not rest belongs to a caller that will end it
(SessionsOwned), whatever overlaps; isolated callers hold different connections
(Alone), find in their session exactly the writes they have made so far, and have
none in the tables (FindsOwn).  The refinement maps COMMIT to Apply, ROLLBACK to
Tell, a lost connection to either, everything else to stuttering; callers that
share PGlite's connection are mapped to a store that never moves, because nothing
is promised to them.

**WebSocketStream.**  An event the replay may have sent (~Beyond) never passes the
comparison with lastSeq at the moment it is published, which lies at or after the
replay's end for as long as the subscription is attached (SetUpInv); and an event
is being checked, or was sent live, only after it left `unpublished` (CheckInv,
SentInv).  Together that is SentOnce, although lastSeq may go back.  A check that
found "yes" is of an event before the removal.  Of overlapping events, what a listening
subscription has not sent it missed by a comparison with lastSeq, which a later number
had raised, or before it listened (QueriedInv, and the history in `overtaken` and
`unheard`).  For the calm case, `Calmly`: only the events of the newest transaction are
under way, and none has a later number (PendingInv), so nothing is overtaken or unheard
(HeardInv), and what comes before the event being checked has been sent (EarlierInv);
then every frame's number follows those before (SequenceInv).  That a page which is not
cut off lists everything missed needs that a list of a finite set in order has every
element, by the pigeonhole principle.  ORDER BY is a CHOOSE, and that the list exists
(ListingExists) is an induction: it is done with the least counterexample, which
exists because `<` is well-founded on the naturals, and so needs no theorem with
an operator parameter.

**DurableStream.**  The chunks fill the offsets 1 .. n (Filled) because the second
chunk put at an offset fails on the rows plugin and replaces the first on the blobs
plugin; every copy of latest_offset, however old, points into them (LatestInv), and
on the rows plugin an append that has put a chunk is the only one that can
(RowsInv): its copy is still what the row says.  A tail has as many chunks as its offset says (TailInv).
`CalmInv`: one request runs and its copy of the row is true (AloneInv), so what is
on its way to the message and to the backup is complete (KeptInv).  A message whose
commit failed before the row was written stays as it was while the stream goes on
(Stands): either a commit under its key has failed or it is complete, and what it lacks
comes later (Early), since no chunk is acknowledged at or below latest_offset any more,
and a chunk of it beyond latest_offset, left by an append that failed, blocks every
later append of the rows plugin (Blocks).

**TelegramBridge.**  `Shape` is the types and what a request at each point has in
hand.  `BirthInv`: until its row is inserted nobody refers to a setup, so the
INSERT disturbs nothing.  `RecordInv`: one request at a time is past the
reservation of an update, its row is as it was reserved, and the message is there
exactly when the verdict it carries says so; this is what makes the reservation, and not
the order of the answers, decide.  `CalmInv`, for each bot without an overlap: at
most one request may bind, and what every request has loaded of the binding is
still true, which is why the check in CheckConflict still holds in Bind.

**Spaces.**  All that is said of a call is said of its row, so that one lemma
serves every step that replaces a row.  `DrawnInv`: an id is drawn once, hence its
row and its bytes are not there until the call that drew it puts them, and no
deleteOrg that lists bytes has them.  `OrderInv`, while no deletion has shared
its time with another call: a deletion is alone (Alone), what a call has checked
still holds (Checked), and no row refers to something gone (RowsHold).  Without
that condition only LiveArtifactsHaveBlobs remains, with `doubted` for the exceptions.

**Workspace.**  `Inv` is the types, the shape of a call's row at every request it
waits for, and what the database says behind it (Backed): whoever makes an actor is
the first user or has consumed an invite.  It holds through lost answers and
restarts.  While one call resolves a user's principal (Single) and nothing was lost
or wiped (Calm), what a row believes of the server is so (Known): every id in it is
there, hence the server refuses nothing it asks.  On that rest the other two:
the grants of an actor are at each moment those of the stage its reconciliation has
reached, and those of the role when nobody works on them (Granted, Apart), beside those
its user asked for in a permission request, which is what an approval adds and a
change of role revokes with the rest (HasAsked, AllGranted); and,
with one organization, each join request is the one its program keeps the number
of, each actor with a program's name was made for a request, and whoever makes one
found it open and alone (Tickets, Askers, Admitted, Opened, Alone).  The proof of
the last found its hypothesis: two users who are the first at once make an
organization each, and an agent that asked in the first asks in the second again.
The start J5 of the run contains that behaviour, and CalmlyOneIdentity says OneOrg.

**TeamClient.**  WordsSentOnce follows from what the composer and the sends under way
hold (`ComposerInv`).  A word that is not stored and was not typed during a send waits
in the composer, and every send under way carries it (Awaited).  A word that was not
sent again is carried by at most one send, which was served exactly when the word is
stored; and while a stored word is still in the composer the send that carries it is
under way, whose answer will empty the composer (SentOnce).  Neither holds without the
other, and both need that a word is typed, and a file attached, only once (TypedOnce).
OpenThreadIsListed is inductive as it stands.

**Projections.**  `SourcesInv` is the types and what a job has in hand at each query; with
it ShownIsReadable is a fact of each state: a unit lies in the stream of its text's
sources, a row's stream is that of its document, and the routes ask for those.
`FoundInv` adds which documents a job may write (WritesOnly): the message's own job
writes its document and only the job of its redaction deletes it, so the order of the
jobs does not matter, and what is live has its document or somebody who will write it
(Findable) unless an event was missed.  Deriving is another matter, since the memory
jobs of two events share units; `Calm` is what holds while there is one event at a time
(OneEvent): a message that was not ingested has no edge and has given no unit its name
(FreshOK), every text of a live message has its unit or is still to do (FullOK), a
redacted message has no edge or loses it (GoneOK), one unit per text and stream, with a
source (UnitsOK, EdgesOK), and a document that differs from its unit is one the job owes
(DocsOK).  WorkOK is what the job knows at each query; Agrees, that what it is about to
write is what the tables say, is where an interleaved job would break it.  Text by text a
message's job takes `todo` from FullOK to UnitsOK, and at rest the parts add up to
CalmlyDerived.

**ChatAgents.**  One invariant, `AgentsInv`, serves the four programs.  `ShapeOK` says the
types and where a handler, the loop and the socket can be (HandlersOK, LoopOK).
`AnswersOK`: an invocation has at most as many answers as there were lives, and fewer
while it may still be answered in this one (MayAnswer: it can be taken up, or a handler
has it and its call has not been made).  That is preserved because whatever can still be
taken up has no handler, and a handler is the only one of its invocation (TakenUpOK); for
the cursor agent "the same" is up to what `remember` keeps, for the assistant it is the
number read to.  `SettledInv` adds to PassedIsSettled what the page in hand is: the events
between the number read to and its last one, those gone from it accounted for (PageOK),
and that a key in `seen` has its outcome or its handler (SeenOK) - without that an event
skipped as seen could be lost.  `RunsOK`: a run's message is remembered in the life that
launched it, and nobody who could launch another has it.  `TellsOK`: what a run heard, or
is about to be told, its session has noted, and a run without a session was told nothing.
There are dozens of actions, of four programs; each is first shown to be one of a dozen
kinds (AgentStep: a post, a start, a stop, the loop moved, got a page, turned to the next
stream or sought, a handler began, events were taken up, a handler made a call, ended, or
worked for the cursor), and each part of the invariant is then preserved by each kind.

Assumptions.  The theorems rest on the named ASSUMEs of the modules, which the runs
evaluate: that bounds and inputs have their types (StreamAssumption,
ChunksAssumption, InputsAssumption, RowsAssumption, GrantsAssumption,
RequestsAssumption, ConnsAssumption, StartsAssumption, BoundsAssumption, PageAssumption,
SeekAssumption, TextsAssumption, ...), that what is typed is not what is attached
(ComposerAssumption), and that the value that stands for "nothing" is none of the others
(NoneAssumption, NamesAssumption, BridgeAssumption, WorldConstants).  And on the modules'
account of the database: an INSERT against
a unique key, an UPDATE against a row lock, READ COMMITTED for everything else.

Only model-checked:

- liveness (EveryCallAnswered, EveryTxAnswered, LiveEventArrives, TailEnds,
  EventuallyRead, EventuallyFresh): leads-to under fairness, and the ENABLED in it,
  are beyond the prover;
- that the documented audit chain breaks, a counterexample (`append_chain`).

## Not modelled

- The bridge's projection of messages to Telegram and the webhooks plugin: one
  attempt per event, recorded before (Telegram) or after (webhooks) it is made.
  The plan has them.
- The agent kernel: tool calls that wait for an approval, which the four agents
  do with clients of their own; only the terminal client runs it.
- Parts of modelled components: the filters of the bus's other listeners; the S3
  client; the export of the audit log; in the agents the assistant's create_channel
  tool, the parsing of arguments and what the language model says; in the page
  webhooks, commands, members, memory and search (lists polled like the others) and
  a non-administrator's refused channel creation (its request is in `Workspace`).
- updateCursor overwrites the cursor with whatever arrives last; nothing in the
  server reads it back but its own GET, so there is no second state to disagree with.
- A rotation whose UPDATE fails leaves Telegram with a secret that the row does not
  have; the model contains it, and no claim about it is made, as no document
  promises more.
- Left out for good: HTTP and SDK (one call each, no state), the plugin host and
  configuration (sequential start and stop), API keys and tokens (cryptography), the
  guard against private addresses (parsing), logging, the terminal client and the
  scripts (one request after the other).

## Plan

Done, with proofs of all safety properties: MessageLog and AppendMessage; Approvals;
AtomicStore and SqlTx; WebSocketStream; DurableStream; TelegramBridge; Spaces;
Projections; AgentWorld, PollingAgents and ChatAgents; Workspace; TeamClient.

Next: `Deliveries`, the projection to Telegram and webhooks with crashes and failing
sends, and `ToolApprovals`, the kernel on what Approvals promises.
