---------------------------- MODULE TeamClient ----------------------------
(***************************************************************************)
(* The page of the team application (team-workspace.tsx) in one browser:   *)
(* it shows a channel, polls, sends, opens threads, answers permission     *)
(* requests, while other members change the same data on the server.       *)
(* Every handler is an async function over the state it was rendered with, *)
(* and nothing cancels a request or orders the answers, so an answer may   *)
(* find another channel on the screen than the one it was asked for.       *)
(*                                                                         *)
(* A request is sent, then served (what it reads is read, what it does is  *)
(* done), then answered (the code after its `await' runs, with the effects *)
(* React runs after the render).  Left out: webhooks, commands, channel    *)
(* members, memory and search, lists that are polled like the others.      *)
(***************************************************************************)
EXTENDS Naturals, FiniteSets, FiniteSetsExt

CONSTANTS
  Channels,  \* a set of numbers: the server lists channels in this order
  Later,     \* those of them that nobody has created yet
  General,   \* the one of them that the application makes when there is none; bound:
             \* nobody deletes it
  Threads, Approvals, Words, Files,
  Page,      \* messages on a page of the list of messages, 100 in the program
  Openings,  \* what a run may begin with, see PageInit
  MaxReads,  \* bound: lists asked for and not shown yet, when another is asked for
  Nothing

\* What is typed and what is attached are different things.
Distinct == Words \cap Files = {}
ASSUME ComposerAssumption == Distinct

ASSUME GeneralAssumption ==
  General \in Later /\ \A s \in Openings : \A x \in s.todo :
    x.what \in {"create", "delete", "other deletes"} => x.on # General

VARIABLES
  \* the server, with the application's default_channel_id; posts counts a channel's
  \* messages
  chans, posts, threads, unresolved, default,
  \* the page
  known, active, shown, threadsBy, thread, inbox, draft, uploads,
  \* requests under way, what people are still going to do, faults left
  flight, todo, faults,
  \* what has happened: words typed, how often each is stored, and those that
  \* were typed during a send, sent again during a send, or lost their answer
  typed, stored, late, again

serverSide == <<chans, posts, threads, unresolved, default>>
lists == <<known, shown, inbox>>
composer == <<draft, uploads>>
view == <<active, threadsBy, thread>>
history == <<typed, stored, late, again>>
pageVars == <<serverSide, lists, composer, view, flight, todo, faults, history>>

----------------------------------------------------------------------------
(* Requests.  `ch' is the channel a request is about or, for the list of   *)
(* channels, the channel that was active when the asking code was made.    *)

Reads == {"messages", "threads", "approvals", "channels"}

ChannelLists == {"channels", "channels after delete", "first channel", "channels after create"}

Ask(kind, ch, on, data) ==
  [kind |-> kind, ch |-> ch, on |-> on, data |-> data, served |-> FALSE]
Read(kind, ch, then) == Ask(kind, ch, then, {})

Sends == {r \in flight : r.kind = "send"}

\* The effect of [activeChannelId] asks for the channel's lists at once ...
OnOpen(c) == IF c = Nothing THEN {} ELSE {Read("messages", c, Nothing), Read("threads", c, Nothing)}
\* ... and every 2.2 seconds for these and for the lists of the workspace.  (They
\* are separate requests, so asking for one at a time shows every order.)
MutantPolled(c) == {Read("messages", c, Nothing), Read("threads", c, Nothing),
                    Read("channels", c, Nothing)}
Polled(c) == MutantPolled(c) \cup {Read("approvals", Nothing, Nothing)}

\* A render with channel c, thread t and the threads tb: another channel closes
\* the thread, and so does a list of the channel's threads without it.
MutantRender(c, t, tb, reqs) ==
  /\ active' = c /\ threadsBy' = tb
  /\ thread' = IF c # active THEN Nothing ELSE t
  /\ flight' = reqs \cup IF c # active THEN OnOpen(c) ELSE {}
Render(c, t, tb, reqs) ==
  /\ active' = c /\ threadsBy' = tb
  /\ thread' = IF c = active /\ c # Nothing /\ t \in tb[c] THEN t ELSE Nothing
  /\ flight' = reqs \cup IF c # active THEN OnOpen(c) ELSE {}

First(cs) == IF cs = {} THEN Nothing ELSE Min(cs)

----------------------------------------------------------------------------
(* What the member does.  Each thing in `todo' is done once, or never.     *)

DoesOn(what, on) ==
  LET x == [what |-> what, on |-> on] IN x \in todo /\ todo' = todo \ {x}

During(ws) == late' = IF Sends # {} THEN late \cup ws ELSE late

Type(w) ==
  /\ DoesOn("type", w)
  /\ draft' = draft \cup {w} /\ typed' = typed \cup {w} /\ During({w})
  /\ UNCHANGED <<serverSide, lists, uploads, view, flight, faults, stored, again>>

\* Nothing disables the composer while a message is being sent.
SendMessage(n) ==
  LET ws == draft \cup uploads IN
  /\ DoesOn("send", n)
  /\ active # Nothing /\ ws # {}
  /\ flight' = flight \cup {Ask("send", active, n, ws)}
  /\ again' = again \cup (ws \cap UNION {r.data : r \in Sends})
  /\ UNCHANGED <<serverSide, lists, composer, view, faults, typed, stored, late>>

UploadAttachment(f) ==
  /\ DoesOn("upload", f) /\ active # Nothing
  /\ flight' = flight \cup {Ask("upload", active, f, {})}
  /\ UNCHANGED <<serverSide, lists, composer, view, faults, history>>

SelectChannel(c) ==
  /\ DoesOn("select", c) /\ c \in known
  /\ Render(c, thread, threadsBy, flight)
  /\ UNCHANGED <<serverSide, lists, composer, faults, history>>

OpenThread(t) ==
  /\ active # Nothing /\ t \in threadsBy[active] /\ DoesOn("open", t)
  /\ Render(active, t, threadsBy, flight)
  /\ UNCHANGED <<serverSide, lists, composer, faults, history>>

CreateThreadFromMessage(t) ==
  /\ DoesOn("thread", t) /\ active # Nothing /\ shown # {}
  /\ flight' = flight \cup {Ask("thread", active, t, {})}
  /\ UNCHANGED <<serverSide, lists, composer, view, faults, history>>

\* `on' remembers the channel that was active.
DeleteExistingChannel(c) ==
  /\ DoesOn("delete", c) /\ c \in known
  /\ flight' = flight \cup {Ask("delete", c, active, {})}
  /\ UNCHANGED <<serverSide, lists, composer, view, faults, history>>

\* A channel, or a direct message: a private channel with one other member.
CreateNewChannel(c) ==
  /\ DoesOn("create", c)
  /\ flight' = flight \cup {Ask("create", active, c, {})}
  /\ UNCHANGED <<serverSide, lists, composer, view, faults, history>>

ResolveApproval(q) ==
  /\ q \in inbox /\ DoesOn("resolve", q)
  /\ flight' = flight \cup {Ask("resolve", Nothing, q, {})}
  /\ UNCHANGED <<serverSide, lists, composer, view, faults, history>>

\* Reads that are not answered yet do not keep the timer from asking again.
Tick(kind) ==
  /\ active # Nothing
  /\ Cardinality({r \in flight : r.kind \in Reads}) < MaxReads
  /\ \E r \in Polled(active) : r.kind = kind /\ flight' = flight \cup {r}
  /\ UNCHANGED <<serverSide, lists, composer, view, todo, faults, history>>

----------------------------------------------------------------------------
(* The server, one route for each kind. *)

FirstPage(n) == 1..Min({n, Page})

ListMessages(r) == FirstPage(posts[r.ch])
ListThreads(r) == threads[r.ch]
ListApprovals == unresolved
\* getDefaultChannelId answers for a workspace without channels.
GetChannels == IF chans # {} THEN chans ELSE {IF default # Nothing THEN default ELSE General}
DefaultChannel == {First(GetChannels)}

Reply(r) ==
  CASE r.kind = "messages" -> ListMessages(r)
    [] r.kind = "threads" -> ListThreads(r)
    [] r.kind = "approvals" -> ListApprovals
    [] r.kind \in ChannelLists -> GetChannels
    [] r.kind = "bootstrap" -> DefaultChannel
    [] OTHER -> r.data

PostMessage(r) ==
  /\ r.kind = "send"
  /\ posts' = [posts EXCEPT ![r.ch] = @ + 1]
  /\ stored' = [w \in DOMAIN stored |-> stored[w] + IF w \in r.data THEN 1 ELSE 0]
  /\ UNCHANGED <<chans, threads, unresolved, default>>

PostThread(r) ==
  /\ r.kind = "thread"
  /\ threads' = [threads EXCEPT ![r.ch] = @ \cup {r.on}]
  /\ UNCHANGED <<chans, posts, unresolved, default, stored>>

\* Somebody who may not create channels gets a permission request instead, and
\* the page does nothing: those who do are not modelled.
CreateChannel(r) ==
  /\ r.kind = "create"
  /\ chans' = chans \cup {r.on}
  /\ UNCHANGED <<posts, threads, unresolved, default, stored>>

\* Who asks for the channels when there is none makes the default one.
DefaultMade(r) ==
  LET none == chans = {} /\ default = Nothing IN
  /\ r.kind \in ChannelLists \cup {"bootstrap"}
  /\ chans' = IF none THEN {General} ELSE chans
  /\ default' = IF none THEN General ELSE default
  /\ UNCHANGED <<posts, threads, unresolved, stored>>

Deleted(c) ==
  /\ chans' = chans \ {c}
  /\ posts' = [posts EXCEPT ![c] = 0] /\ threads' = [threads EXCEPT ![c] = {}]
  /\ UNCHANGED <<unresolved, stored>>

\* The route deletes the channel, then gives a deleted default its successor.
DeleteChannel(c) ==
  /\ Deleted(c)
  /\ default' = IF default = c THEN First(chans') ELSE default

ResolveRequest(q) ==
  /\ unresolved' = unresolved \ {q}
  /\ UNCHANGED <<chans, posts, threads, default, stored>>

\* Attachments are kept by the application; everything else only reads.
ReadOnly(r) ==
  /\ r.kind \notin {"send", "thread", "create", "delete", "resolve", "bootstrap"} \cup ChannelLists
  /\ UNCHANGED <<serverSide, stored>>

Rejected(r) ==
  \/ r.kind \in {"messages", "threads", "send", "thread", "delete"} /\ r.ch \notin chans
  \/ r.kind = "resolve" /\ r.on \notin unresolved

Serve(r) ==
  /\ ~r.served /\ ~Rejected(r)
  /\ \/ PostMessage(r) \/ PostThread(r) \/ CreateChannel(r) \/ ReadOnly(r)
     \/ DefaultMade(r)
     \/ r.kind = "delete" /\ DeleteChannel(r.ch)
     \/ r.kind = "resolve" /\ ResolveRequest(r.on)
  /\ flight' = (flight \ {r}) \cup {[r EXCEPT !.served = TRUE, !.data = Reply(r)]}
  /\ UNCHANGED <<lists, composer, view, todo, faults, typed, late, again>>

\* `api' throws what the server refuses; the caller shows it and does nothing else.
Refuse(r) ==
  /\ ~r.served /\ Rejected(r)
  /\ flight' = flight \ {r}
  /\ UNCHANGED <<serverSide, lists, composer, view, todo, faults, history>>

----------------------------------------------------------------------------
(* The answers.  In each, r has been served.                               *)

Done(kind, r) == r.kind = kind /\ r.served
Rest(r) == flight \ {r}

ShowMessages(r) ==
  /\ Done("messages", r)
  /\ shown' = r.data /\ flight' = Rest(r)
  /\ UNCHANGED <<serverSide, known, inbox, composer, view, todo, faults, history>>

\* After createThreadFromMessage, the thread it made is opened.
ShowThreads(r) ==
  /\ Done("threads", r)
  /\ Render(active, IF r.on # Nothing THEN r.on ELSE thread,
            [threadsBy EXCEPT ![r.ch] = r.data], Rest(r))
  /\ UNCHANGED <<serverSide, lists, composer, todo, faults, history>>

ShowApprovals(r) ==
  /\ Done("approvals", r)
  /\ inbox' = r.data /\ flight' = Rest(r)
  /\ UNCHANGED <<serverSide, known, shown, composer, view, todo, faults, history>>

\* refreshDirectory: a channel that was active and is gone gives way to the
\* first.  After deleteExistingChannel: if it was the active one, the list is
\* asked for again, and its first channel is opened.
RefreshDirectory(r) ==
  /\ r.kind \in {"channels", "channels after delete"} /\ r.served
  /\ known' = r.data
  /\ Render(IF r.ch \notin r.data /\ r.data # {} THEN First(r.data) ELSE active,
            thread, threadsBy,
            Rest(r) \cup IF r.kind # "channels" /\ r.on = r.ch
                        THEN {Read("first channel", r.ch, Nothing)} ELSE {})
  /\ UNCHANGED <<serverSide, shown, inbox, composer, todo, faults, history>>

RefreshAfterCreate(r) ==
  /\ Done("channels after create", r)
  /\ known' = r.data
  /\ Render(r.on, thread, threadsBy, Rest(r))
  /\ UNCHANGED <<serverSide, shown, inbox, composer, todo, faults, history>>

OpenFirst(r) ==
  /\ Done("first channel", r)
  /\ Render(First(r.data), thread, threadsBy, Rest(r))
  /\ UNCHANGED <<serverSide, lists, composer, todo, faults, history>>

OpenDefault(r) ==
  /\ Done("bootstrap", r)
  /\ \E d \in r.data : Render(IF active = Nothing THEN d ELSE active, thread, threadsBy, Rest(r))
  /\ UNCHANGED <<serverSide, lists, composer, todo, faults, history>>

MutantSent(r) ==
  /\ Done("send", r)
  /\ draft' = {}
  /\ flight' = Rest(r) \cup {Read("messages", r.ch, Nothing)}
  /\ UNCHANGED <<serverSide, lists, uploads, view, todo, faults, history>>
\* Once the message is stored the composer is emptied, whatever it holds by now.
Sent(r) ==
  /\ Done("send", r)
  /\ draft' = {} /\ uploads' = {}
  /\ flight' = Rest(r) \cup {Read("messages", r.ch, Nothing)}
  /\ UNCHANGED <<serverSide, lists, view, todo, faults, history>>

Uploaded(r) ==
  /\ Done("upload", r)
  /\ uploads' = uploads \cup {r.on} /\ typed' = typed \cup {r.on} /\ During({r.on})
  /\ flight' = Rest(r)
  /\ UNCHANGED <<serverSide, lists, draft, view, todo, faults, stored, again>>

ThreadCreated(r) ==
  /\ Done("thread", r)
  /\ flight' = Rest(r) \cup {Read("threads", r.ch, r.on)}
  /\ UNCHANGED <<serverSide, lists, composer, view, todo, faults, history>>

\* The list is refreshed by the code made with the channel then active.
ChannelDeleted(r) ==
  /\ Done("delete", r)
  /\ flight' = Rest(r) \cup {Read("channels after delete", r.on, r.ch)}
  /\ UNCHANGED <<serverSide, lists, composer, view, todo, faults, history>>

ChannelCreated(r) ==
  /\ Done("create", r)
  /\ flight' = Rest(r) \cup {Read("channels after create", r.ch, r.on)}
  /\ UNCHANGED <<serverSide, lists, composer, view, todo, faults, history>>

Resolved(r) ==
  /\ Done("resolve", r)
  /\ inbox' = inbox \ {r.on} /\ flight' = Rest(r)
  /\ UNCHANGED <<serverSide, known, shown, composer, view, todo, faults, history>>

\* The request does not reach the server, or its answer does not come back.
PageFault == faults > 0 /\ faults' = faults - 1

Fails(r) ==
  /\ PageFault
  /\ flight' = Rest(r)
  /\ again' = IF r.kind = "send" /\ r.served THEN again \cup r.data ELSE again
  /\ UNCHANGED <<serverSide, lists, composer, view, todo, typed, stored, late>>

\* The requests of a user that arrive together wait for one resolution of the
\* principal, and fail with it.
ResolutionFails ==
  /\ PageFault
  /\ \E S \in SUBSET {r \in flight : ~r.served} : flight' = flight \ S
  /\ UNCHANGED <<serverSide, lists, composer, view, todo, history>>

\* The channel is deleted, and the list that the next default is taken from fails.
HalfDeleted(r) ==
  /\ PageFault
  /\ r.kind = "delete" /\ ~r.served /\ ~Rejected(r)
  /\ Deleted(r.ch) /\ flight' = Rest(r)
  /\ UNCHANGED <<default, lists, composer, view, todo, typed, late, again>>

----------------------------------------------------------------------------
(* Other members. *)

OtherPosts(c) ==
  /\ c \in chans /\ DoesOn("other posts", c)
  /\ posts' = [posts EXCEPT ![c] = @ + 1]
  /\ UNCHANGED <<chans, threads, unresolved, default, lists, composer, view, flight, faults, history>>

OtherDeletes(c) ==
  /\ c \in chans /\ DoesOn("other deletes", c)
  /\ DeleteChannel(c)
  /\ UNCHANGED <<lists, composer, view, flight, faults, typed, late, again>>

OtherAsks(q) ==
  /\ DoesOn("other asks", q)
  /\ unresolved' = unresolved \cup {q}
  /\ UNCHANGED <<chans, posts, threads, default, lists, composer, view, flight, faults, history>>

OtherResolves(q) ==
  /\ q \in unresolved /\ DoesOn("other resolves", q)
  /\ ResolveRequest(q)
  /\ UNCHANGED <<lists, composer, view, flight, faults, typed, late, again>>

----------------------------------------------------------------------------

\* A session begins: the default channel, the directory and the approvals are
\* asked for at once, all of them before a channel is active.  Or the page has been
\* open for a while, on the channel s.at, and shows what there is.
PageInit ==
  \E s \in Openings :
    /\ chans = Channels \ Later /\ unresolved = {} /\ threads = [c \in Channels |-> {}]
    /\ posts = [c \in Channels |-> 0] /\ default = First(chans)
    /\ shown = {} /\ inbox = {} /\ draft = {} /\ uploads = {}
    /\ active = s.at /\ known = IF s.at = Nothing THEN {} ELSE chans
    /\ thread = Nothing /\ threadsBy = [c \in Channels |-> {}]
    /\ flight = IF s.at # Nothing THEN {}
                ELSE {Read(kind, Nothing, Nothing) : kind \in {"bootstrap", "channels", "approvals"}}
    /\ todo = s.todo /\ faults = s.faults
    /\ typed = {} /\ stored = [w \in Words \cup Files |-> 0] /\ late = {} /\ again = {}

Member ==
  \/ \E w \in Words : Type(w)
  \/ \E x \in todo : x.what = "send" /\ SendMessage(x.on)
  \/ \E f \in Files : UploadAttachment(f)
  \/ \E c \in Channels : SelectChannel(c) \/ DeleteExistingChannel(c) \/ CreateNewChannel(c)
  \/ \E t \in Threads : OpenThread(t) \/ CreateThreadFromMessage(t)
  \/ \E q \in Approvals : ResolveApproval(q)

Others ==
  \/ \E c \in Channels : OtherPosts(c) \/ OtherDeletes(c)
  \/ \E q \in Approvals : OtherAsks(q) \/ OtherResolves(q)

Answered(r) ==
  \/ ShowMessages(r) \/ ShowThreads(r) \/ ShowApprovals(r) \/ RefreshDirectory(r)
  \/ OpenFirst(r) \/ OpenDefault(r)
  \/ Sent(r) \/ Uploaded(r) \/ ThreadCreated(r) \/ ChannelDeleted(r) \/ Resolved(r)
  \/ ChannelCreated(r) \/ RefreshAfterCreate(r)

PageNext ==
  \/ Member \/ Others
  \/ \E kind \in Reads : Tick(kind)
  \/ \E r \in flight : Serve(r) \/ Refuse(r) \/ Answered(r) \/ Fails(r) \/ HalfDeleted(r)
  \/ ResolutionFails

Serving(kind) == \E r \in flight : r.kind = kind /\ (Serve(r) \/ Refuse(r))
Showing(kind) == \E r \in flight : r.kind = kind /\ Answered(r)

\* The timer ticks (the bound on it is not the program's, hence SF), and a list
\* that is asked for is served and answered in the end.
Fairness ==
  /\ \A kind \in Reads : SF_pageVars(Tick(kind))
  /\ \A kind \in Reads \cup {"bootstrap"} : WF_pageVars(Serving(kind)) /\ WF_pageVars(Showing(kind))

PageSpec == PageInit /\ [][PageNext]_pageVars /\ Fairness

----------------------------------------------------------------------------
(* Properties. *)

\* What a member types or attaches is in the composer until the server has
\* stored it, and is stored once: except what was typed while a message was being
\* sent, which may be lost, and what was sent again then or lost its answer, which
\* may be stored twice (sendMessage, uploadAttachment).
WordsSentOnce ==
  \A w \in typed :
    /\ stored[w] = 0 /\ w \notin late => w \in draft \cup uploads
    /\ stored[w] > 1 => w \in again

\* The open thread is one of the channel on the screen, whichever answers come
\* late: that of a thread created before the member left the channel, or a list
\* without the thread.
OpenThreadIsListed == thread # Nothing => active # Nothing /\ thread \in threadsBy[active]

\* The page shows a channel that exists, as it is, up to the first Page of its
\* messages.
UpToDate ==
  /\ active \in chans /\ known = chans /\ inbox = unresolved
  /\ shown = FirstPage(posts[active]) /\ threadsBy[active] = threads[active]

\* A channel is on the screen, or one of the two requests that bring one is under
\* way and cannot fail any more.
Opens ==
  \/ active # Nothing
  \/ faults = 0 /\ \E r \in flight : r.kind \in {"bootstrap", "channels"}

\* Once the page opens a channel, answers that come late, out of order or not at all
\* are repaired by the timer: when nothing changes any more, the page is fresh.  A
\* page whose bootstrap and directory both fail (one failed principal is enough) has
\* no timer, and is promised nothing: it stays empty until it is loaded again.
EventuallyFresh == [](Opens => <>[](chans # {} => UpToDate))
=============================================================================
