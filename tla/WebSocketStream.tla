----------------------------- MODULE WebSocketStream -----------------------------
(***************************************************************************)
(* ws.ts: the subscriptions of one socket to one stream.  Events are       *)
(* committed by appendMessage and redactMessage, one transaction at a time *)
(* per stream (AppendMessage), and published to the in-process bus by each *)
(* caller after its own COMMIT, so in any order.  A subscribe message      *)
(* replays rows of the events table and then listens on the bus; between   *)
(* its awaits, and between the awaits of each listener call, anything else *)
(* may run.  An event is named by its position in the table.  The events   *)
(* of one message (message.appended, a mention.recorded per mention, a      *)
(* command.invoked per command) share its number and its transaction.       *)
(***************************************************************************)
EXTENDS Integers, FiniteSets, Sequences

CONSTANTS Requests,   \* subscribe messages the client sends
          FromSeqs,   \* their fromSeq
          PerMessage, \* bound: events of one message
          MaxEvents,  \* bound: events of the stream
          MaxInputs,  \* bound: events and subscribe messages together
          Limit,      \* service.subscribe's default limit (200)
          None

ASSUME StreamAssumption ==
    /\ FromSeqs \subseteq Nat /\ {PerMessage, MaxEvents, MaxInputs} \subseteq Nat /\ Limit \in Nat \ {0}
    /\ None \notin Requests \cup Nat

VARIABLES
    log,          \* stream_seq of the committed events; 0: NULL
    unpublished,  \* committed events whose writer has not reached the bus
    readable,     \* the stream exists and the principal may read it
    removedAt,    \* how long the log was when that ended
    calm,         \* writers and subscribers keep out of each other's way
    open,         \* ws.readyState = OPEN
    entry,        \* subscriptions.get(streamId): a request or None
    pc, fromSeq, rows, lastSeq, active,
    listening,    \* requests whose listener is on the bus
    checks,       \* listener calls awaiting assertCanReadStream
    sent,         \* per request, the event frames, in order
    \* history
    late,         \* requests authorized before the removal, and answered after it
    unheard,      \* per request, events published between its query and its listener
    overtaken     \* per request, events published when it had sent a later number

service == <<log, unpublished, readable, removedAt>>
handler == <<pc, fromSeq, rows, lastSeq, active>>
history == <<late, unheard, overtaken>>
vars == <<service, calm, open, entry, handler, listening, checks, sent, history>>

PCs == {"idle", "authorize", "query", "attach", "attached", "refused"}
Busy(r) == pc[r] \in {"authorize", "query", "attach"}
Events == DOMAIN log
LastOf(S) == IF S = {} THEN 0 ELSE CHOOSE m \in S : \A n \in S : n <= m
Inputs == Len(log) + Cardinality({r \in Requests : pc[r] # "idle"})
Newest == LastOf({log[i] : i \in Events})

Init ==
    /\ log = <<>> /\ unpublished = {}
    /\ readable = TRUE /\ removedAt = None
    /\ calm \in BOOLEAN
    /\ open = TRUE /\ entry = None
    /\ pc = [r \in Requests |-> "idle"]
    /\ fromSeq = [r \in Requests |-> 0]
    /\ rows = [r \in Requests |-> <<>>]
    /\ lastSeq = [r \in Requests |-> 0]
    /\ active = [r \in Requests |-> FALSE]
    /\ listening = {} /\ checks = {}
    /\ sent = [r \in Requests |-> <<>>]
    /\ late = {}
    /\ unheard = [r \in Requests |-> {}] /\ overtaken = [r \in Requests |-> {}]

(***************************************************************************)
(* The rest of the server.                                                 *)
(***************************************************************************)
Quiet == unpublished = {} /\ checks = {} /\ \A r \in Requests : ~Busy(r)

Emit(seqs) ==
    /\ Len(log) + Len(seqs) <= MaxEvents /\ Inputs + Len(seqs) <= MaxInputs
    /\ calm => Quiet
    /\ log' = log \o seqs
    /\ unpublished' = unpublished \cup (Len(log) + 1 .. Len(log) + Len(seqs))

(* message.appended with its mentions and commands: all of one number. *)
Messages == {[k \in 1 .. n |-> Newest + 1] : n \in 1 .. PerMessage}

CommitMessage ==
    /\ \E seqs \in Messages : Emit(seqs)
    /\ UNCHANGED <<readable, removedAt, calm, open, entry, handler, listening, checks, sent, history>>

(* message.redacted and the other events of a stream without a streamSeq. *)
CommitUnnumbered ==
    /\ Emit(<<0>>)
    /\ UNCHANGED <<readable, removedAt, calm, open, entry, handler, listening, checks, sent, history>>

(* removeChannelMember, with its membership.updated event. *)
Remove ==
    /\ readable
    /\ Emit(<<0>>)
    /\ readable' = FALSE
    /\ removedAt' = Len(log)
    /\ late' = {r \in Requests : pc[r] = "query"}
    /\ UNCHANGED <<calm, open, entry, handler, listening, checks, sent, unheard, overtaken>>

(***************************************************************************)
(* The subscribe message.                                                  *)
(***************************************************************************)
Subscribe(r) ==
    /\ pc[r] = "idle" /\ open /\ Inputs < MaxInputs
    /\ calm => Quiet
    /\ pc' = [pc EXCEPT ![r] = IF entry = None THEN "authorize" ELSE "refused"]
    /\ \E n \in FromSeqs : fromSeq' = [fromSeq EXCEPT ![r] = n]
    /\ UNCHANGED <<service, calm, open, entry, rows, lastSeq, active, listening, checks, sent, history>>

(* assertStreamReadable *)
Authorize(r) ==
    /\ pc[r] = "authorize"
    /\ pc' = [pc EXCEPT ![r] = IF readable THEN "query" ELSE "refused"]
    /\ UNCHANGED <<service, calm, open, entry, fromSeq, rows, lastSeq, active, listening, checks, sent, history>>

MutantMissed(r) == {i \in Events : log[i] >= fromSeq[r] /\ log[i] > 0}
(* COALESCE(stream_seq,0) > fromSeq: events without a number are not replayed. *)
Missed(r) == {i \in Events : log[i] > fromSeq[r]}

MutantLength(n) == IF n < Limit THEN n ELSE Limit - 1
Length(n) == IF n < Limit THEN n ELSE Limit
(* By stream_seq and created_at, which the events of a message may share: in *)
(* the order of the numbers, and among equal ones in any.                    *)
Ordered(s, S) ==
    /\ \A j, k \in DOMAIN s : j < k => s[j] # s[k] /\ log[s[j]] <= log[s[k]]
    /\ \A i \in S, k \in DOMAIN s : (\A j \in DOMAIN s : s[j] # i) => log[s[k]] <= log[i]
Pages(r) == {s \in [1 .. Length(Cardinality(Missed(r))) -> Missed(r)] : Ordered(s, Missed(r))}

Query(r) ==
    /\ pc[r] = "query"
    /\ \E page \in Pages(r) : rows' = [rows EXCEPT ![r] = page]
    /\ pc' = [pc EXCEPT ![r] = "attach"]
    /\ UNCHANGED <<service, calm, open, entry, fromSeq, lastSeq, active, listening, checks, sent, history>>

Frame(i, live) == [event |-> i, live |-> live]
(* safeSend does nothing once the socket is closed. *)
Send(r, frames) == sent' = IF open THEN [sent EXCEPT ![r] = @ \o frames] ELSE sent

MutantReplayedTo(r) == fromSeq[r]
ReplayedTo(r) == LastOf({fromSeq[r]} \cup {log[rows[r][k]] : k \in DOMAIN rows[r]})

(* After inferStreamType, in one synchronous run: replay, listen, register. *)
Attach(r) ==
    /\ pc[r] = "attach"
    /\ Send(r, [k \in DOMAIN rows[r] |-> Frame(rows[r][k], FALSE)])
    /\ lastSeq' = [lastSeq EXCEPT ![r] = ReplayedTo(r)]
    /\ active' = [active EXCEPT ![r] = TRUE]
    /\ listening' = listening \cup {r}
    /\ entry' = r
    /\ pc' = [pc EXCEPT ![r] = "attached"]
    /\ UNCHANGED <<service, calm, open, fromSeq, rows, checks, history>>

(***************************************************************************)
(* Live events.                                                            *)
(***************************************************************************)
MutantPasses(r, i) == active[r] /\ log[i] > lastSeq[r]
Passes(r, i) == active[r] /\ (log[i] = 0 \/ log[i] > lastSeq[r])

(* What the writer of i committed with it and publishes with it. *)
Batch(i) == IF log[i] = 0 THEN {i} ELSE {j \in Events : log[j] = log[i]}
InRows(r, i) == \E k \in DOMAIN rows[r] : rows[r][k] = i

(* In one synchronous loop: bus.publish calls every listener up to its first *)
(* await, for each event of the transaction.                                 *)
Publish(i) ==
    /\ i \in unpublished
    /\ unpublished' = unpublished \ Batch(i)
    /\ checks' = checks \cup {c \in [to : listening, event : Batch(i), found : {"asked"}] :
                                Passes(c.to, c.event)}
    /\ unheard' = [r \in Requests |->
                     unheard[r] \cup {j \in Batch(i) : pc[r] = "attach" /\ ~InRows(r, j)}]
    /\ overtaken' = [r \in Requests |->
                     overtaken[r] \cup {j \in Batch(i) : pc[r] = "attached" /\ 0 < log[j] /\ log[j] <= lastSeq[r]}]
    /\ UNCHANGED <<log, readable, removedAt, calm, open, entry, handler, listening, sent, late>>

MutantFinds == "yes"
Finds == IF readable THEN "yes" ELSE "no"

(* assertCanReadStream reads the membership ... *)
Check(c) ==
    /\ c \in checks /\ c.found = "asked"
    /\ checks' = (checks \ {c}) \cup {[c EXCEPT !.found = Finds]}
    /\ UNCHANGED <<service, calm, open, entry, handler, listening, sent, history>>

(* ... and the listener continues: lastSeq is not compared again. *)
Forward(c) ==
    /\ c \in checks /\ c.found = "yes"
    /\ checks' = checks \ {c}
    /\ lastSeq' = IF log[c.event] = 0 THEN lastSeq ELSE [lastSeq EXCEPT ![c.to] = log[c.event]]
    /\ Send(c.to, <<Frame(c.event, TRUE)>>)
    /\ UNCHANGED <<service, calm, open, entry, pc, fromSeq, rows, active, listening, history>>

(* The check threw: the map entry goes, whichever request it belongs to. *)
Drop(c) ==
    /\ c \in checks /\ c.found = "no"
    /\ checks' = checks \ {c}
    /\ active' = [active EXCEPT ![c.to] = FALSE]
    /\ listening' = listening \ {c.to}
    /\ entry' = None
    /\ UNCHANGED <<service, calm, open, pc, fromSeq, rows, lastSeq, sent, history>>

(***************************************************************************)
(* The end of a subscription.                                              *)
(***************************************************************************)
Detach == /\ listening' = listening \ {entry}
          /\ entry' = None

Unsubscribe ==
    /\ open /\ entry # None
    /\ Detach
    /\ UNCHANGED <<service, calm, open, handler, checks, sent, history>>

(* cleanup ends the registered subscription, not one still being set up. *)
Close ==
    /\ open
    /\ open' = FALSE
    /\ Detach
    /\ UNCHANGED <<service, calm, handler, checks, sent, history>>

Handle(r) == Authorize(r) \/ Query(r) \/ Attach(r)
Continue(c) == Check(c) \/ Forward(c) \/ Drop(c)

Next ==
    \/ CommitMessage \/ CommitUnnumbered \/ Remove
    \/ \E r \in Requests : Subscribe(r) \/ Handle(r)
    \/ \E i \in unpublished : Publish(i)
    \/ \E c \in checks : Continue(c)
    \/ Unsubscribe \/ Close

Spec == Init /\ [][Next]_vars

(* Queries return and their continuations run; the writer that committed   *)
(* goes on to publish.                                                     *)
FairSpec == /\ Spec
            /\ \A i \in 1 .. MaxEvents : WF_vars(Publish(i))
            /\ WF_vars(\E r \in Requests : Handle(r))
            /\ \A r \in Requests, i \in 1 .. MaxEvents :
                 WF_vars(\E c \in checks : c.to = r /\ c.event = i /\ Continue(c))

(***************************************************************************)
(* Properties.                                                             *)
(***************************************************************************)
(* Every variable has its type; a replay is one page, never more than Limit. *)
TypeOK ==
    /\ log \in Seq(Nat) /\ Len(log) <= MaxEvents
    /\ unpublished \subseteq Events
    /\ readable \in BOOLEAN /\ removedAt \in {None} \cup 0 .. MaxEvents
    /\ calm \in BOOLEAN /\ open \in BOOLEAN
    /\ entry \in Requests \cup {None}
    /\ pc \in [Requests -> PCs]
    /\ fromSeq \in [Requests -> Nat]
    /\ rows \in [Requests -> Seq(Events)] /\ \A r \in Requests : Len(rows[r]) <= Limit
    /\ lastSeq \in [Requests -> Nat]
    /\ active \in [Requests -> BOOLEAN]
    /\ listening \subseteq Requests
    /\ checks \subseteq [to : Requests, event : Events, found : {"asked", "yes", "no"}]
    /\ sent \in [Requests -> Seq([event : Events, live : BOOLEAN])]
    /\ late \subseteq Requests
    /\ unheard \in [Requests -> SUBSET Events] /\ overtaken \in [Requests -> SUBSET Events]

(* A subscription never sends an event twice, though an event can be both in *)
(* the replay and published afterwards, and lastSeq can go back.             *)
SentOnce ==
    \A r \in Requests : \A j, k \in DOMAIN sent[r] :
        sent[r][j].event = sent[r][k].event => j = k

(* ws.ts:192: "membership revocations on private streams take effect         *)
(* immediately for live sockets".  No live frame carries an event newer than *)
(* the removal, though a call that passed its check before it may still send *)
(* an older one; only the replay of a request that was authorized before the *)
(* removal and had its query after it carries newer events.                  *)
RemovalIsFinal ==
    removedAt # None =>
        \A r \in Requests : \A k \in DOMAIN sent[r] :
            sent[r][k].event > removedAt => r \in late /\ ~sent[r][k].live

(* The number of the k-th frame sent for r; 0: its event has none.           *)
Number(r, k) == log[sent[r][k].event]
Got(r, i) == \E k \in DOMAIN sent[r] : sent[r][k].event = i
GotBefore(r, i, k) == \E j \in 1 .. k - 1 : sent[r][j].event = i

(* The numbers sent for r come after fromSeq, never fall, and no event of a  *)
(* smaller number is left out.                                               *)
InSequence(r) ==
    \A k \in DOMAIN sent[r] : Number(r, k) > 0 =>
        /\ Number(r, k) > fromSeq[r]
        /\ \A j \in 1 .. k - 1 : Number(r, j) <= Number(r, k)
        /\ \A i \in Events : fromSeq[r] < log[i] /\ log[i] < Number(r, k) => GotBefore(r, i, k)

Ended(r) == ~open \/ r \notin listening
Whole(r) == pc[r] = "attached" /\ Len(rows[r]) < Limit   \* its replay was not cut off
Underway(r, i) == i \in unpublished \/ \E c \in checks : c.to = r /\ c.event = i

(* Between replay and live events nothing is lost but what was published in  *)
(* the awaits between the query and bus.subscribe, or out of turn, after a   *)
(* later number.                                                             *)
LostOnlyInBetween ==
    \A r \in Requests : Whole(r) /\ ~Ended(r) =>
        \A i \in Missed(r) : Got(r, i) \/ Underway(r, i) \/ i \in unheard[r] \cup overtaken[r]

(* If neither can happen, since events and subscriptions come one at a time, *)
(* replay and live events fit together without gap, repetition or disorder,  *)
(* and a subscription that rests has sent every event.                       *)
CalmlyContiguous ==
    calm => \A r \in Requests : Whole(r) =>
        /\ InSequence(r)
        /\ Quiet /\ ~Ended(r) => \A i \in Missed(r) : Got(r, i)

(* What a subscription sends of a stream, with overlapping writers and       *)
(* without.                                                                  *)
Contiguous == LostOnlyInBetween /\ CalmlyContiguous

(* The replay ended between the events of i's message: those it left out     *)
(* have a number that counts as sent.                                        *)
SplitByLimit(r, i) == Len(rows[r]) = Limit /\ \E k \in DOMAIN rows[r] : log[rows[r][k]] = log[i]

(* An event committed while a subscription listens reaches it, unless the    *)
(* subscription ends, asked for later numbers only, has sent a later number, *)
(* or had a replay cut off within the event's message; a redaction, which    *)
(* has no number to be overtaken by, is never skipped.                       *)
LiveEventArrives ==
    \A r \in Requests, i \in 1 .. MaxEvents :
        (r \in listening /\ i \in unpublished)
            ~> \/ Got(r, i) \/ Ended(r)
               \/ i \in Events /\ log[i] > 0 /\ (\/ log[i] <= fromSeq[r] \/ log[i] < lastSeq[r]
                                                 \/ SplitByLimit(r, i))

(* A subscription is sent an event once, though replay and listener overlap, *)
(* and after a removal nothing newer but the replay that was under way.      *)
SentFaithfully == TypeOK /\ SentOnce /\ RemovalIsFinal
=============================================================================
