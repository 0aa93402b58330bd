------------------------------ MODULE DurableStream ------------------------------
(***************************************************************************)
(* One durable stream: the durable-streams plugin, which keeps chunks in   *)
(* rows of durable_stream_chunks, and durable-streams-storage, which keeps *)
(* them as blobs.  Every request loads the stream's row and then works on  *)
(* that copy; its queries and puts are separate, so requests interleave,   *)
(* and any of them may fail or lose its process between two.  Principals   *)
(* may write the stream, and read its target.                              *)
(***************************************************************************)
EXTENDS Integers, FiniteSets, FiniteSetsExt, Sequences

CONSTANTS Appends, Closes, Commits,   \* requests
          Tails,                      \* GET /tail connections
          ChunksOf,                   \* [Appends -> number of chunks]
          KeyOf,                      \* [Commits -> idempotency key]
          MaxOverlapping,             \* bound: requests made, if they may overlap
          None

Requests == Appends \cup Closes \cup Commits
Keys == {KeyOf[p] : p \in Commits}

ASSUME ChunksAssumption ==
    /\ \A p \in Appends : ChunksOf[p] \in Nat \ {0}
    /\ Appends \cap (Closes \cup Commits) = {} /\ Closes \cap Commits = {}
    /\ None \notin Keys

VARIABLES
    store,                      \* which plugin: "rows" or "blobs"
    calm,                       \* requests come one after the other
    stream,                     \* the row: latest, status, committed, backup
    chunks,                     \* [offset, by, n]
    object,                     \* what backupStream or close has put in storage
    messages,                   \* text of the message appended under each key
    pc, row, puts, text,        \* requests
    tail, offset, got, told     \* tails; told: the row the blob tail has loaded

requests == <<pc, row, puts, text>>
tails == <<tail, offset, got, told>>
vars == <<store, calm, stream, chunks, object, messages, requests, tails>>

Goto(p, label) == pc' = [pc EXCEPT ![p] = label]
NewStream == [latest |-> 0, status |-> "open", committed |-> None, backup |-> FALSE]
(* A request ends, and its copies with it. *)
End(p, label) ==
    /\ Goto(p, label)
    /\ row' = [row EXCEPT ![p] = NewStream]
    /\ puts' = [puts EXCEPT ![p] = 0]
    /\ text' = [text EXCEPT ![p] = {}]
Started == {p \in Requests : pc[p] # "idle"}
Running(p) == pc[p] \notin {"idle", "done", "refused", "failed"}

Init ==
    /\ store \in {"rows", "blobs"}
    /\ calm \in BOOLEAN
    /\ stream = NewStream
    /\ chunks = {}
    /\ object = None
    /\ messages = [k \in Keys |-> None]
    /\ pc = [p \in Requests |-> "idle"]
    /\ row = [p \in Requests |-> NewStream]
    /\ puts = [p \in Requests |-> 0]
    /\ text = [p \in Requests |-> {}]
    /\ tail = [t \in Tails |-> "poll"]
    /\ offset = [t \in Tails |-> 0]
    /\ got = [t \in Tails |-> <<>>]
    /\ told = [t \in Tails |-> NewStream]

(* What a request does with the row it has loaded. *)
FirstStep(p) ==
    CASE p \in Appends -> IF stream.status = "open" THEN "put" ELSE "refused"
      [] p \in Closes  -> IF stream.status = "open" THEN "snapshot" ELSE "done"
      [] p \in Commits -> IF stream.committed = None THEN "assemble" ELSE "done"

Load(p) ==
    /\ pc[p] = "idle"
    /\ IF calm THEN \A q \in Requests : ~Running(q) ELSE Cardinality(Started) < MaxOverlapping
    /\ \/ /\ FirstStep(p) \in {"refused", "done"}
          /\ End(p, FirstStep(p))
       \/ /\ FirstStep(p) \notin {"refused", "done"}
          /\ Goto(p, FirstStep(p))
          /\ row' = [row EXCEPT ![p] = stream]
          /\ UNCHANGED <<puts, text>>
    /\ UNCHANGED <<store, calm, stream, chunks, object, messages, tails>>

(* notify: every registered waiter resolves. *)
Notify == tail' = [t \in Tails |-> IF tail[t] = "asleep" THEN "poll" ELSE tail[t]]

(* A query or a put throws, or the process dies: what was done stays done. *)
Fail(p) ==
    /\ Running(p)
    /\ End(p, "failed")
    /\ UNCHANGED <<store, calm, stream, chunks, object, messages, tails>>

(***************************************************************************)
(* POST /chunks                                                            *)
(***************************************************************************)
NextOffset(p) == row[p].latest + puts[p] + 1
MutantTaken(p) == FALSE
Taken(p) == \E c \in chunks : c.offset = NextOffset(p)   \* UNIQUE(stream_id, chunk_offset)
More(p) == puts[p] < ChunksOf[p]

PutChunk(p) ==
    /\ p \in Appends /\ pc[p] = "put" /\ More(p)
    /\ store = "rows" => ~Taken(p)
    /\ chunks' = {c \in chunks : store = "rows" \/ c.offset # NextOffset(p)}
                   \cup {[offset |-> NextOffset(p), by |-> p, n |-> puts[p] + 1]}
    /\ puts' = [puts EXCEPT ![p] = @ + 1]
    /\ UNCHANGED <<store, calm, stream, object, messages, pc, row, text, tails>>

PutConflict(p) ==
    /\ p \in Appends /\ pc[p] = "put" /\ More(p)
    /\ store = "rows" /\ Taken(p)
    /\ End(p, "failed")
    /\ UNCHANGED <<store, calm, stream, chunks, object, messages, tails>>

(* The status is not looked at again, and latest_offset is overwritten. *)
FinishAppend(p) ==
    /\ p \in Appends /\ pc[p] = "put" /\ ~More(p)
    /\ stream' = [stream EXCEPT !.latest = row[p].latest + puts[p]]
    /\ Notify
    /\ End(p, "done")
    /\ UNCHANGED <<store, calm, chunks, object, messages, offset, got, told>>

(***************************************************************************)
(* POST /close, and the backup POST /commit takes on the rows plugin.      *)
(***************************************************************************)
(* The chunks selected, or counted in the manifest. *)
Snapshot(p) ==
    /\ pc[p] = "snapshot"
    /\ text' = [text EXCEPT ![p] = IF store = "rows" THEN chunks
                                   ELSE {c \in chunks : c.offset <= row[p].latest}]
    /\ Goto(p, "save")
    /\ UNCHANGED <<store, calm, stream, chunks, object, messages, row, puts, tails>>

Save(p) ==
    /\ pc[p] = "save"
    /\ object' = text[p]
    /\ Goto(p, "finish")
    /\ UNCHANGED <<store, calm, stream, chunks, messages, row, puts, text, tails>>

FinishClose(p) ==
    /\ p \in Closes /\ pc[p] = "finish"
    /\ stream' = [stream EXCEPT !.status = "closed", !.backup = store = "rows"]
    /\ Notify
    /\ End(p, "done")
    /\ UNCHANGED <<store, calm, chunks, object, messages, offset, got, told>>

(***************************************************************************)
(* POST /commit                                                            *)
(***************************************************************************)
MutantAssembled(p) == {c \in chunks : c.offset < row[p].latest}
(* Every row, or the blobs up to the chunk_count loaded before. *)
Assembled(p) == IF store = "rows" THEN chunks ELSE {c \in chunks : c.offset <= row[p].latest}

Assemble(p) ==
    /\ pc[p] = "assemble"
    /\ text' = [text EXCEPT ![p] = Assembled(p)]
    /\ Goto(p, "append")
    /\ UNCHANGED <<store, calm, stream, chunks, object, messages, row, puts, tails>>

(* appendMessage: a key that was used returns the message it stands for. *)
AppendText(p) ==
    /\ pc[p] = "append"
    /\ messages' = [messages EXCEPT ![KeyOf[p]] = IF @ = None THEN text[p] ELSE @]
    /\ Goto(p, IF store = "rows" THEN "reload" ELSE "finish")
    /\ UNCHANGED <<store, calm, stream, chunks, object, row, puts, text, tails>>

AppendDenied(p) ==
    /\ pc[p] = "append"
    /\ End(p, "refused")
    /\ UNCHANGED <<store, calm, stream, chunks, object, messages, tails>>

Reload(p) ==
    /\ pc[p] = "reload"
    /\ row' = [row EXCEPT ![p] = stream]
    /\ Goto(p, IF stream.backup THEN "finish" ELSE "snapshot")
    /\ UNCHANGED <<store, calm, stream, chunks, object, messages, puts, text, tails>>

FinishCommit(p) ==
    /\ p \in Commits /\ pc[p] = "finish"
    /\ stream' = [stream EXCEPT !.status = "committed", !.committed = KeyOf[p],
                                !.backup = store = "rows"]
    /\ Notify
    /\ End(p, "done")
    /\ UNCHANGED <<store, calm, chunks, object, messages, offset, got, told>>

(***************************************************************************)
(* GET /tail                                                               *)
(***************************************************************************)
MutantFresh(t, S) == {c \in S : c.offset >= offset[t]}
Fresh(t, S) == {c \in S : c.offset > offset[t]}
InOrder(S) ==
    CHOOSE s \in [1 .. Cardinality(S) -> S] : \A j, k \in DOMAIN s : j < k => s[j].offset < s[k].offset

Deliver(t, S) ==
    /\ S # {}
    /\ got' = [got EXCEPT ![t] = @ \o InOrder(S)]
    /\ offset' = [offset EXCEPT ![t] = Max({c.offset : c \in S})]
    /\ tail' = [tail EXCEPT ![t] = "poll"]

(* Rows: first the chunks, then, if there are none, the status. *)
PollRows(t) ==
    /\ store = "rows" /\ tail[t] = "poll"
    /\ \/ Deliver(t, Fresh(t, chunks))
       \/ /\ Fresh(t, chunks) = {}
          /\ tail' = [tail EXCEPT ![t] = "status"]
          /\ UNCHANGED <<offset, got>>
    /\ UNCHANGED <<store, calm, stream, chunks, object, messages, requests, told>>

ReadStatus(t) ==
    /\ store = "rows" /\ tail[t] = "status"
    /\ tail' = [tail EXCEPT ![t] = IF stream.status = "open" THEN "wait" ELSE "eof"]
    /\ UNCHANGED <<store, calm, stream, chunks, object, messages, requests, offset, got, told>>

(* Blobs: the row first, then the blobs it counts, then its status. *)
LoadRow(t) ==
    /\ store = "blobs" /\ tail[t] = "poll"
    /\ told' = [told EXCEPT ![t] = stream]
    /\ tail' = [tail EXCEPT ![t] = "fetch"]
    /\ UNCHANGED <<store, calm, stream, chunks, object, messages, requests, offset, got>>

Counted(t) == {c \in chunks : c.offset <= told[t].latest}

FetchBlobs(t) ==
    /\ tail[t] = "fetch"
    /\ \/ Deliver(t, Fresh(t, Counted(t)))
       \/ /\ Fresh(t, Counted(t)) = {}
          /\ tail' = [tail EXCEPT ![t] = IF told[t].status = "open" THEN "wait" ELSE "eof"]
          /\ UNCHANGED <<offset, got>>
    /\ UNCHANGED <<store, calm, stream, chunks, object, messages, requests, told>>

(* waitForUpdate registers after the answer: a notify in between is missed. *)
Sleep(t) ==
    /\ tail[t] = "wait"
    /\ tail' = [tail EXCEPT ![t] = "asleep"]
    /\ UNCHANGED <<store, calm, stream, chunks, object, messages, requests, offset, got, told>>

MutantTimeout(t) == FALSE /\ UNCHANGED vars
Timeout(t) ==
    /\ tail[t] = "asleep"
    /\ tail' = [tail EXCEPT ![t] = "poll"]
    /\ UNCHANGED <<store, calm, stream, chunks, object, messages, requests, offset, got, told>>

Step(p) ==
    \/ PutChunk(p) \/ PutConflict(p) \/ FinishAppend(p)
    \/ Snapshot(p) \/ Save(p) \/ FinishClose(p)
    \/ Assemble(p) \/ AppendText(p) \/ AppendDenied(p) \/ Reload(p) \/ FinishCommit(p)

Watch(t) == PollRows(t) \/ ReadStatus(t) \/ LoadRow(t) \/ FetchBlobs(t) \/ Sleep(t) \/ Timeout(t)

Next == \/ \E p \in Requests : Load(p) \/ Step(p) \/ Fail(p)
        \/ \E t \in Tails : Watch(t)

Spec == Init /\ [][Next]_vars

(* Queries return and the timer of waitForUpdate fires. *)
FairSpec == Spec /\ \A t \in Tails : WF_vars(Watch(t))

(***************************************************************************)
(* Properties.                                                             *)
(***************************************************************************)
Chunk == [offset : Nat \ {0}, by : Appends, n : Nat \ {0}]
Row == [latest : Nat, status : {"open", "closed", "committed"},
        committed : Keys \cup {None}, backup : BOOLEAN]

PCs == {"idle", "put", "snapshot", "save", "assemble", "append", "reload", "finish",
        "done", "refused", "failed"}

(* Every variable has its type; offsets start at 1. *)
TypeOK ==
    /\ store \in {"rows", "blobs"} /\ calm \in BOOLEAN
    /\ stream \in Row
    /\ chunks \subseteq Chunk
    /\ object = None \/ object \subseteq Chunk
    /\ DOMAIN messages = Keys /\ \A k \in Keys : messages[k] = None \/ messages[k] \subseteq Chunk
    /\ pc \in [Requests -> PCs] /\ row \in [Requests -> Row] /\ puts \in [Requests -> Nat]
    /\ DOMAIN text = Requests /\ \A p \in Requests : text[p] \subseteq Chunk
    /\ tail \in [Tails -> {"poll", "status", "fetch", "wait", "asleep", "eof"}]
    /\ offset \in [Tails -> Nat] /\ told \in [Tails -> Row] /\ got \in [Tails -> Seq(Chunk)]

(* On the rows plugin concurrent appends cannot overlap or leave a hole: the *)
(* offsets are 1 .. n, latest_offset points into them and, though every      *)
(* append overwrites it with a value computed from an old copy, never goes   *)
(* back.                                                                     *)
RowsStayContiguous ==
    [][store = "rows" =>
         /\ {c.offset : c \in chunks'} = 1 .. Cardinality(chunks')
         /\ chunks \subseteq chunks'
         /\ stream'.latest \in stream.latest .. Cardinality(chunks')]_vars

(* A tail receives offsets 1, 2, 3, ... each once and, on the rows plugin,    *)
(* what it received stays what the stream holds.                             *)
TailFaithful ==
    \A t \in Tails : \A k \in DOMAIN got[t] :
        /\ got[t][k].offset = k
        /\ store = "rows" => got[t][k] \in chunks

Acknowledged == {c \in chunks : pc[c.by] = "done"}

Lost(k) == \E p \in Commits : KeyOf[p] = k /\ pc[p] = "failed"

(* When requests come one after the other, whichever of them fail: the backup *)
(* of a finished stream holds every acknowledged chunk, and on the blob       *)
(* plugin a tail that was told eof has seen them all.  So does the committed  *)
(* message, unless a commit under its key has failed: that one may have       *)
(* appended it and left the stream open, and the retry returns it as it was,  *)
(* without the chunks that were acknowledged in between.                      *)
CalmlyComplete == calm =>
    /\ stream.committed # None =>
          LET held == messages[stream.committed]
          IN \A c \in Acknowledged \ held :
                Lost(stream.committed) /\ \A d \in held : d.offset < c.offset
    /\ stream.backup => Acknowledged \subseteq object
    /\ \A t \in Tails : store = "blobs" /\ tail[t] = "eof" =>
          \A c \in Acknowledged : \E k \in DOMAIN got[t] : got[t][k] = c

(* A tail of a stream that was closed or committed ends, although the        *)
(* notification may come before the tail has registered for it.              *)
TailEnds == \A t \in Tails : (stream.status # "open") ~> (tail[t] = "eof")

(* A tail is sent each chunk once and in the order of the offsets, though it *)
(* reads the chunks again after every notification.                          *)
TailSound == TypeOK /\ TailFaithful
=============================================================================
