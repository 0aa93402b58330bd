------------------------------ MODULE MessageLog ------------------------------
(***************************************************************************)
(* What appendMessage promises its callers, with the database left out: a  *)
(* stream is a log; a call appends one entry at the end of its stream, at  *)
(* once and completely, unless the log already holds an entry of the same  *)
(* (stream, actor, idempotency key); a call that is answered "ok" is told  *)
(* the position of the entry of its key, and "idempotent" tells whether    *)
(* another call put it there.  AppendMessage is shown to implement this.   *)
(***************************************************************************)
EXTENDS Naturals, Sequences

CONSTANTS Calls,     \* calls of appendMessage
          Streams,   \* channels and threads
          Requests,  \* what a call may ask for: records with stream, actor, key
          NoRequest  \* the request of a call that was not made

VARIABLES log,     \* [Streams -> Seq(Calls)]: the call that appended each entry
          asked,   \* [Calls -> Requests \cup {NoRequest}]
          answer   \* [Calls -> Answers]

logVars == <<log, asked, answer>>

Failures == {"denied", "requested", "conflict", "error"}

Unanswered == [kind |-> "none", seq |-> 0, idempotent |-> FALSE]
Failed(kind) == [kind |-> kind, seq |-> 0, idempotent |-> FALSE]

Same(r1, r2) == /\ r1.stream = r2.stream
                /\ r1.actor = r2.actor
                /\ r1.key = r2.key

(* The positions of stream r.stream that hold the message of request r. *)
PositionsOf(r) ==
    {i \in DOMAIN log[r.stream] : Same(asked[log[r.stream][i]], r)}

LogInit == /\ log = [s \in Streams |-> <<>>]
           /\ asked = [c \in Calls |-> NoRequest]
           /\ answer = [c \in Calls |-> Unanswered]

Pending(c) == asked[c] # NoRequest /\ answer[c] = Unanswered

Submit(c) == /\ asked[c] = NoRequest
             /\ \E r \in Requests : asked' = [asked EXCEPT ![c] = r]
             /\ UNCHANGED <<log, answer>>

Enter(c) == /\ Pending(c)
            /\ PositionsOf(asked[c]) = {}
            /\ log' = [log EXCEPT ![asked[c].stream] = Append(@, c)]
            /\ UNCHANGED <<asked, answer>>

Confirm(c) ==
    /\ Pending(c)
    /\ \E i \in PositionsOf(asked[c]) :
          answer' = [answer EXCEPT ![c] =
                       [kind |-> "ok", seq |-> i,
                        idempotent |-> log[asked[c].stream][i] # c]]
    /\ UNCHANGED <<log, asked>>

(* A failure says nothing of the log, except that a call denied or refused *)
(* for a conflict has entered nothing.                                     *)
Refuse(c) ==
    /\ Pending(c)
    /\ \E kind \in Failures :
          /\ kind # "error" => \A s \in Streams : \A i \in DOMAIN log[s] : log[s][i] # c
          /\ answer' = [answer EXCEPT ![c] = Failed(kind)]
    /\ UNCHANGED <<log, asked>>

LogNext == \E c \in Calls : Submit(c) \/ Enter(c) \/ Confirm(c) \/ Refuse(c)

LogSpec == LogInit /\ [][LogNext]_logVars
=============================================================================
