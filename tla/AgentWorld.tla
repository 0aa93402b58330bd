---- MODULE AgentWorld ----
(***************************************************************************)
(* One agent program of agents/ and the server it talks to.  The server is  *)
(* the part an agent sees: streams of messages whose events share a         *)
(* sequence number, threads, grants, permission requests and one registered *)
(* command.  The client of agents/*/src/ml.ts is the part all four agents   *)
(* share: every call that is refused opens a permission request, polls it   *)
(* for a while and is repeated once.  A handler of the agent is a job: a     *)
(* record that says which call it is about to make and what for.            *)
(***************************************************************************)
EXTENDS Integers, Sequences, FiniteSets, FiniteSetsExt, SequencesExt, TLC
CONSTANTS Listed,        \* channels that exist from the start, in listing order
          Private,       \* those of them that are private (the agent is a member)
          Own,           \* #poems of the poet, #general of the assistant
          Me, User,
          Shapes,        \* what a user's message may hold: [asks, text]
          Starts,        \* [program, given, command, rooms, posts, asks, lives, faults]:
                         \* the program, what it is granted at first, where users post
                         \* and how much may happen
          MaxThreads, None
Threads == 1 .. MaxThreads
Channels == ToSet(Listed) \cup {Own}
Streams == Channels \cup Threads
ASSUME WorldConstants ==
  /\ Listed \in Seq(Channels) /\ Private \subseteq ToSet(Listed) /\ Own \notin Private
  /\ None \notin {"thread", "channel", "append", "ok"}
  /\ None \notin [kind : {"message", "command", "mention", "run"}, on : Streams, seq : Nat]
  /\ MaxThreads \in Nat /\ Channels \cap Threads = {}
  /\ \A h \in Shapes : h.asks \subseteq {"command", "mention"} /\ h.text \in BOOLEAN
  /\ \A b \in Starts : /\ b.program \in {"poet", "weather", "assistant", "cursor"}
                       /\ b.rooms \subseteq Streams /\ b.asks + Cardinality(b.rooms \cap Threads) <= MaxThreads + 1

VARIABLES program,    \* which of the four this behaviour runs
          life,       \* [up, n]: is the process running, how often it was started
          channels,   \* the channels that exist, in listing order
          threads,    \* thread t is [channel, parent], in order of creation
          messages,   \* the messages of each stream
          grants,     \* what the agent may do: <<capability, resource>>
          requests,   \* permission requests in order: [cap, on, status]
          resolving,  \* the team app's approval of a thread append, part way
          command,    \* "none", "pending", "active", "disabled"
          jobs,       \* the agent's running handlers
          budget      \* how much may still happen: [rooms, posts, asks, lives, faults]
server == <<channels, threads, messages, grants, requests, command>>
worldVars == <<program, life, channels, threads, messages, grants, requests, resolving, command, jobs, budget>>

(***************************************************************************)
(* What the server answers to reads.                                       *)
(***************************************************************************)
ChannelOf(s) == IF s \in Threads THEN threads[s].channel ELSE s
InPrivate(s) == ChannelOf(s) \in Private
IsThread(s) == s \in Threads
ThreadsOf(c) ==   \* one by one in order of creation: a set of one sequence
  LET T == {t \in DOMAIN threads : threads[t].channel = c}
  IN {q \in [1 .. Cardinality(T) -> T] : \A i, k \in DOMAIN q : i < k => q[i] < q[k]}
Event(kind, s, n) == [kind |-> kind, on |-> s, seq |-> n]
EventsOf(s, n) == {Event(k, s, n) : k \in messages[s][n].asks \cup {"message"}}
EventsAfter(s, n) == UNION {EventsOf(s, i) : i \in n + 1 .. Len(messages[s])}
MessageOf(e) == messages[e.on][e.seq]
Granted(cap, on) == {<<cap, on>>, <<cap, None>>} \cap grants # {}   \* None: wherever
Asked(cap, on) == Append(requests, [cap |-> cap, on |-> on, status |-> "open"])

WorldInit ==
  /\ life = [up |-> FALSE, n |-> 0]
  /\ channels = Listed /\ threads = <<>> /\ messages = [s \in Streams |-> <<>>]
  /\ \E b \in Starts : /\ program = b.program /\ grants = b.given /\ command = b.command
                       /\ budget = [rooms |-> b.rooms, posts |-> b.posts, asks |-> b.asks,
                                    lives |-> b.lives, faults |-> b.faults]
  /\ requests = <<>> /\ resolving = None /\ jobs = {}

(***************************************************************************)
(* Users and admins.                                                       *)
(***************************************************************************)
Asks(h, s) == Cardinality(h.asks) + (IF InPrivate(s) THEN 1 ELSE 0)

Post(s, h) ==
  /\ s \in (ToSet(channels) \cup DOMAIN threads) \cap budget.rooms
  /\ budget.posts > 0 /\ Asks(h, s) <= budget.asks
  /\ budget' = [budget EXCEPT !.posts = @ - 1, !.asks = @ - Asks(h, s)]
  /\ "command" \in h.asks => command = "active"
  /\ messages' = [messages EXCEPT ![s] = Append(@, [by |-> User, asks |-> h.asks, text |-> h.text, re |-> <<"said", None>>])]
  /\ UNCHANGED <<program, life, channels, threads, grants, requests, resolving, command, jobs>>

Decide(r, status) ==
  /\ requests[r].status = "open"
  /\ requests' = [requests EXCEPT ![r].status = status]
  /\ UNCHANGED <<program, life, channels, threads, messages, jobs, budget>>

Approve(r) ==
  /\ Decide(r, "approved")
  /\ IF requests[r].cap = "command:register" THEN command' = "active" /\ UNCHANGED grants
     ELSE grants' = grants \cup {<<requests[r].cap, requests[r].on>>} /\ UNCHANGED command

Deny(r) ==
  /\ Decide(r, "denied") /\ UNCHANGED <<grants, resolving>>
  /\ command' = IF requests[r].cap = "command:register" THEN "disabled" ELSE command

(* The team app approves an append to a thread, revokes the grant that     *)
(* approval made, and grants the append on the thread's channel instead.   *)
OfThread(r) == requests[r].cap = "message:append" /\ IsThread(requests[r].on)
ApproveInTeamApp(r) ==
  /\ resolving = None /\ OfThread(r) /\ Approve(r)
  /\ resolving' = [step |-> "revoke", on |-> requests[r].on]

Rescope ==
  /\ resolving # None
  /\ IF resolving.step = "revoke"
     THEN grants' = grants \ {<<"message:append", resolving.on>>} /\ resolving' = [resolving EXCEPT !.step = "grant"]
     ELSE grants' = grants \cup {<<"message:append", ChannelOf(resolving.on)>>} /\ resolving' = None
  /\ UNCHANGED <<program, life, channels, threads, messages, requests, command, jobs, budget>>

World ==
  \/ \E s \in Streams, h \in Shapes : Post(s, h)
  \/ \E r \in DOMAIN requests : \/ Approve(r) /\ UNCHANGED resolving
                                \/ Deny(r)
                                \/ ApproveInTeamApp(r)
  \/ Rescope

(***************************************************************************)
(* The client.  A job is about to make the call "at" for "stage"; "to" is  *)
(* the stream it will append to, "wait" whether a refusal is waited for,   *)
(* "back" the call to repeat once request "req" is approved, and "out" how *)
(* it ended.  A call that throws may have reached the server.              *)
(***************************************************************************)
NewJob(key, stage, at, to) ==
  [key |-> key, stage |-> stage, at |-> at, to |-> to, run |-> 0, wait |-> TRUE, back |-> None, req |-> 0, out |-> None]
Becomes(j, k) == jobs' = (jobs \ {j}) \cup {k}
Ends(j, out) == [j EXCEPT !.at = "done", !.out = out, !.back = None]
Fault == budget.faults > 0 /\ budget' = [budget EXCEPT !.faults = @ - 1]
AnsweredOrLost(j, k) == \/ Becomes(j, k) /\ UNCHANGED budget
                        \/ Becomes(j, Ends(j, "thrown")) /\ Fault
Unsent(j) == Becomes(j, Ends(j, "thrown")) /\ Fault /\ UNCHANGED server
frame == <<program, life, resolving>>

createThread(j) ==
  /\ j.at = "thread" /\ UNCHANGED frame
  /\ \/ /\ Granted("thread:create", j.key.on) /\ Len(threads) < MaxThreads
        /\ threads' = Append(threads, [channel |-> j.key.on, parent |-> j.key.seq])
        /\ AnsweredOrLost(j, [j EXCEPT !.at = "append", !.to = Len(threads) + 1, !.wait = TRUE, !.req = 0])
        /\ UNCHANGED <<channels, messages, grants, requests, command>>
     \/ /\ ~Granted("thread:create", j.key.on)
        /\ Becomes(j, [j EXCEPT !.at = "ask", !.back = "thread"]) /\ UNCHANGED <<server, budget>>
     \/ Unsent(j)

createChannel(j) ==
  /\ j.at = "channel" /\ UNCHANGED frame
  /\ \/ /\ Granted("channel:create", None)
        /\ channels' = Append(channels, Own)
        /\ AnsweredOrLost(j, [j EXCEPT !.at = "append", !.wait = TRUE, !.req = 0])
        /\ UNCHANGED <<threads, messages, grants, requests, command>>
     \/ /\ ~Granted("channel:create", None)
        /\ Becomes(j, [j EXCEPT !.at = "ask", !.back = "channel"]) /\ UNCHANGED <<server, budget>>
     \/ Unsent(j)

(* What the refused call asks for; an error here is swallowed. *)
openPermissionRequest(j) ==
  /\ j.at = "ask" /\ UNCHANGED <<frame, channels, threads, messages, grants, command>>
  /\ \/ /\ requests' = IF j.back = "thread" THEN Asked("thread:create", j.key.on) ELSE Asked("channel:create", None)
        /\ LET k == [j EXCEPT !.req = Len(requests) + 1]
           IN Becomes(j, IF j.wait THEN [k EXCEPT !.at = "poll"] ELSE Ends(k, "refused"))
        /\ UNCHANGED budget
     \/ Becomes(j, Ends([j EXCEPT !.req = 0], "refused")) /\ Fault /\ UNCHANGED requests

(* The server opens the request in the refusing call itself. *)
append(j) ==
  /\ j.at = "append" /\ UNCHANGED <<frame, channels, threads, grants, command>>
  /\ \/ /\ Granted("message:append", j.to)
        /\ messages' = [messages EXCEPT ![j.to] = Append(@, [by |-> Me, asks |-> {}, text |-> TRUE, re |-> <<j.stage, j.key>>])]
        /\ AnsweredOrLost(j, Ends(j, "ok")) /\ UNCHANGED requests
     \/ /\ ~Granted("message:append", j.to)
        /\ requests' = Asked("message:append", j.to)
        /\ LET k == [j EXCEPT !.req = Len(requests) + 1]
           IN AnsweredOrLost(j, IF j.wait THEN [k EXCEPT !.at = "poll", !.back = "append"] ELSE Ends(k, "refused"))
        /\ UNCHANGED messages
     \/ Unsent(j)

(* late: what a request still open at the deadline is reported as.         *)
waitForPermissionDecision(j, late) ==
  /\ j.at = "poll" /\ UNCHANGED <<frame, server, budget>>
  /\ CASE requests[j.req].status = "approved" -> Becomes(j, [j EXCEPT !.at = j.back, !.wait = FALSE])
       [] requests[j.req].status = "denied" -> Becomes(j, Ends(j, "denied"))
       [] OTHER -> Becomes(j, Ends(j, late))
====
