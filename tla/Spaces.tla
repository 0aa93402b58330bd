--------------------------------- MODULE Spaces ---------------------------------
(***************************************************************************)
(* service.ts: one organization, its actors, channels, threads,            *)
(* memberships and artifacts, and what deleteChannel and deleteOrg leave   *)
(* of them.  An operation checks with queries of its own and writes in a   *)
(* transaction later; the schema has no foreign keys but those of actors,  *)
(* so what disappears in between goes unnoticed.  A step is what an        *)
(* operation reads before its transaction (the last of these queries       *)
(* decides), one transaction, or one call of the blob store.  Grants are   *)
(* in Approvals, sequence numbers in AppendMessage: here a capability may  *)
(* be there or not, and a stream's counter is a row that is there or not.  *)
(***************************************************************************)
EXTENDS Integers, FiniteSets

CONSTANTS Actors, Channels, Threads, Messages, Artifacts,  \* ids that may be drawn
          Calls,        \* calls in flight at once
          Founder,      \* the actor that is there from the start
          MaxCalls,     \* bound: calls altogether
          MaxFaults,    \* bound: transactions, answers, blob writes and processes lost
          None

ASSUME SpacesAssumption ==
    /\ Founder \in Actors
    /\ MaxCalls \in Nat /\ MaxFaults \in Nat
    /\ None \notin Actors \union Channels \union Threads \union Messages \union Artifacts
    /\ Channels \intersect Threads = {} /\ Artifacts \intersect (Channels \union Threads) = {}

VARIABLES
    org,       \* the row of organizations is there
    actor,     \* actors, each with its membership of the org
    personal,  \* actors with cursors or clients
    channel, thread, message, artifact,  \* the tables, by id
    counter,   \* streams with a row in stream_counters
    member,    \* memberships of channels
    blob,      \* artifacts whose bytes are in the blob store
    call,      \* the calls in flight
    calls,     \* calls so far
    drawn,     \* ids drawn so far
    overlap,   \* TRUE once a deletion overlapped with another call
    doubted,   \* artifacts whose bytes were deleted although their row was not
    faults

people == <<actor, personal>>
spaces == <<channel, thread, message, counter, member>>
files == <<artifact, blob, doubted>>
begun == <<calls, drawn, overlap>>
vars == <<org, people, spaces, files, call, begun, faults>>

Streams == Channels \union Threads
Visibilities == {"private", "public"}
ThreadRow == [channel : Channels, parent : Messages, visibility : Visibilities]
ArtifactRow == [stream : Streams, status : {"live", "deleted"}]
Thread(c, m, v) == [channel |-> c, parent |-> m, visibility |-> v]
Artifact(s, status) == [stream |-> s, status |-> status]

ASSUME NoneAssumption == None \notin Visibilities \union ThreadRow \union ArtifactRow

\* A call: where it is, who makes it, the stream it is about, the id it has
\* drawn (or the actor it is about), a visibility, and the rows it has listed.
Call(pc, by, at, new, vis, found) ==
    [pc |-> pc, by |-> by, at |-> at, new |-> new, vis |-> vis, found |-> found]
Idle == Call("idle", None, None, None, "private", {})
Sets(p, c) == call' = [call EXCEPT ![p] = c]
Ends(p) == Sets(p, Idle)

Init ==
    /\ org = TRUE /\ actor = {Founder} /\ personal = {}
    /\ channel = [c \in Channels |-> None] /\ thread = [t \in Threads |-> None]
    /\ message = [m \in Messages |-> None] /\ artifact = [f \in Artifacts |-> None]
    /\ counter = {} /\ member = {} /\ blob = {}
    /\ call = [p \in Calls |-> Idle] /\ calls = 0 /\ drawn = {} /\ overlap = FALSE
    /\ doubted = {} /\ faults = 0

(***************************************************************************)
(* What the operations look up.                                            *)
(***************************************************************************)
\* resolveStreamChannel: a stream's channel and visibility; a thread's row
\* says both, whether its channel is there or not.
Found(s) == IF s \in Channels THEN channel[s] # None ELSE thread[s] # None
ChannelOf(s) == IF s \in Channels THEN s ELSE thread[s].channel
Visibility(s) == IF s \in Channels THEN channel[s] ELSE thread[s].visibility

Readable(a, s) ==
    /\ Found(s)
    /\ Visibility(s) = "public" \/ <<a, ChannelOf(s)>> \in member

(***************************************************************************)
(* Beginning a call: assertOrgActor and the other checks.                  *)
(***************************************************************************)
Deletions == {"selectThreads", "deleteRows", "deleteBlobs", "deleteOrg"}

Begins(p, c) ==
    /\ call[p].pc = "idle" /\ calls < MaxCalls
    /\ c.by \in actor
    /\ Sets(p, c) /\ calls' = calls + 1
    /\ overlap' = (overlap \/ \E q \in Calls \ {p} :
                      /\ call[q].pc # "idle"
                      /\ {c.pc, call[q].pc} \intersect Deletions # {})
    /\ UNCHANGED <<org, people, spaces, files, faults>>

Draws(x) == x \notin drawn /\ drawn' = drawn \union {x}
DrawsNone == UNCHANGED drawn

CheckCreateActor(p, a, x) ==
    org /\ x \notin actor /\ Draws(x) /\ Begins(p, Call("createActor", a, None, x, "private", {}))
CheckPersonal(p, a) == DrawsNone /\ Begins(p, Call("personal", a, None, None, "private", {}))
CheckCreateChannel(p, a, c, v) ==
    Draws(c) /\ Begins(p, Call("createChannel", a, None, c, v, {}))
CheckMember(p, a, c, x, pc) ==
    channel[c] # None /\ DrawsNone /\ Begins(p, Call(pc, a, c, x, "private", {}))
CheckAddMember(p, a, c, x) == x \in actor /\ CheckMember(p, a, c, x, "addMember")
CheckRemoveMember(p, a, c, x) == CheckMember(p, a, c, x, "removeMember")

\* The parent is a message of the channel.
CheckCreateThread(p, a, c, t, m, v) ==
    /\ channel[c] # None /\ message[m] = c
    /\ Draws(t)
    /\ Begins(p, Call("createThread", a, c, t, v, {m}))

\* validateAppendParts: the stream is there; whether it is private matters
\* for its mentions only.
CheckAppend(p, a, s, m) ==
    Found(s) /\ Draws(m) /\ Begins(p, Call("append", a, s, m, "private", {}))
CheckDeleteChannel(p, a, c) ==
    channel[c] # None /\ DrawsNone /\ Begins(p, Call("selectThreads", a, c, None, "private", {}))
CheckRegisterArtifact(p, a, s, f) ==
    Readable(a, s) /\ Draws(f) /\ Begins(p, Call("put", a, s, f, "private", {}))
CheckDeleteArtifact(p, a, f) ==
    /\ artifact[f] # None /\ artifact[f].status = "live"
    /\ DrawsNone
    /\ Begins(p, Call("deleteArtifact", a, None, f, "private", {}))

\* deleteOrg lists the blobs and the streams it is going to delete.
CheckDeleteOrg(p, a) ==
    org /\ DrawsNone /\ Begins(p, Call("deleteBlobs", a, None, None, "private",
                          {f \in Artifacts : artifact[f] # None} \union {s \in Streams : Found(s)}))

(***************************************************************************)
(* The transactions.                                                       *)
(***************************************************************************)
At(p, pc) == call[p].pc = pc

\* actors refers to organizations.
CreateActor(p) ==
    /\ At(p, "createActor") /\ org
    /\ actor' = actor \union {call[p].new}
    /\ Ends(p)
    /\ UNCHANGED <<org, personal, spaces, files, begun, faults>>

Personal(p) ==  \* updateCursor, registerClient
    /\ At(p, "personal")
    /\ personal' = personal \union {call[p].by}
    /\ Ends(p)
    /\ UNCHANGED <<org, actor, spaces, files, begun, faults>>

CreateChannel(p) ==
    /\ At(p, "createChannel")
    /\ LET c == call[p].new
       IN  /\ channel' = [channel EXCEPT ![c] = call[p].vis]
           /\ member' = member \union {<<call[p].by, c>>}
    /\ Ends(p)
    /\ UNCHANGED <<org, people, thread, message, counter, files, begun, faults>>

AddMember(p) ==
    /\ At(p, "addMember")
    /\ member' = member \union {<<call[p].new, call[p].at>>}
    /\ Ends(p)
    /\ UNCHANGED <<org, people, channel, thread, message, counter, files, begun, faults>>

RemoveMember(p) ==
    /\ At(p, "removeMember")
    /\ member' = member \ {<<call[p].new, call[p].at>>}
    /\ Ends(p)
    /\ UNCHANGED <<org, people, channel, thread, message, counter, files, begun, faults>>

CreateThread(p) ==
    /\ At(p, "createThread")
    /\ \E m \in call[p].found :
          thread' = [thread EXCEPT ![call[p].new] = Thread(call[p].at, m, call[p].vis)]
    /\ Ends(p)
    /\ UNCHANGED <<org, people, channel, message, counter, member, files, begun, faults>>

\* The counter of the stream is made when there is none.
AppendRow(p) ==
    /\ At(p, "append")
    /\ message' = [message EXCEPT ![call[p].new] = call[p].at]
    /\ counter' = counter \union {call[p].at}
    /\ Ends(p)
    /\ UNCHANGED <<org, people, channel, thread, member, files, begun, faults>>

(* deleteChannel selects the threads and deletes by stream and by channel.  *)
SelectThreads(p) ==
    /\ At(p, "selectThreads")
    /\ LET c == call[p].at
       IN  Sets(p, [call[p] EXCEPT !.pc = "deleteRows",
                       !.found = {c} \union {t \in Threads : thread[t] # None /\ thread[t].channel = c}])
    /\ UNCHANGED <<org, people, spaces, files, begun, faults>>

Without(table, gone(_)) == [x \in DOMAIN table |-> IF table[x] # None /\ gone(table[x]) THEN None ELSE table[x]]

MutantDeleteRows(p) ==  \* the threads' messages and counters stay
    /\ At(p, "deleteRows")
    /\ LET c == call[p].at
           OfStreams(s) == s = c
           OfChannel(t) == t.channel = c
       IN  /\ channel' = [channel EXCEPT ![c] = None]
           /\ message' = Without(message, OfStreams) /\ counter' = counter \ {c}
           /\ thread' = Without(thread, OfChannel)
           /\ member' = {m \in member : m[2] # c}
    /\ Ends(p)
    /\ UNCHANGED <<org, people, files, begun, faults>>

DeleteRows(p) ==
    /\ At(p, "deleteRows")
    /\ LET c == call[p].at
           streams == call[p].found
           OfStreams(s) == s \in streams
           OfChannel(t) == t.channel = c
       IN  /\ message' = Without(message, OfStreams) /\ counter' = counter \ streams
           /\ artifact' = [f \in Artifacts |->
                 IF artifact[f] # None /\ artifact[f].stream \in streams
                   THEN Artifact(artifact[f].stream, "deleted") ELSE artifact[f]]
           /\ member' = {m \in member : m[2] # c}
           /\ thread' = Without(thread, OfChannel)
           /\ channel' = [channel EXCEPT ![c] = None]
    /\ Ends(p)
    /\ UNCHANGED <<org, people, blob, doubted, begun, faults>>

(***************************************************************************)
(* Artifacts: the bytes first, then the row; on an error the bytes go.     *)
(***************************************************************************)
MutantPut(p) ==  \* the row is written without waiting for the bytes
    /\ At(p, "put")
    /\ Sets(p, [call[p] EXCEPT !.pc = "insert"])
    /\ blob' \in {blob, blob \union {call[p].new}}
    /\ UNCHANGED <<org, people, spaces, artifact, doubted, begun, faults>>

Put(p) ==
    /\ At(p, "put")
    /\ blob' = blob \union {call[p].new}
    /\ Sets(p, [call[p] EXCEPT !.pc = "insert"])
    /\ UNCHANGED <<org, people, spaces, artifact, doubted, begun, faults>>

InsertArtifact(p) ==
    /\ At(p, "insert")
    /\ artifact' = [artifact EXCEPT ![call[p].new] = Artifact(call[p].at, "live")]
    /\ Ends(p)
    /\ UNCHANGED <<org, people, spaces, blob, doubted, begun, faults>>

\* The catch block; the row may be there, and storage.delete may fail.
Cleanup(p) ==
    /\ At(p, "cleanup")
    /\ LET f == call[p].new
       IN  \/ /\ blob' = blob \ {f}
              /\ doubted' = IF artifact[f] # None THEN doubted \union {f} ELSE doubted
           \/ UNCHANGED <<blob, doubted>>
    /\ Ends(p)
    /\ UNCHANGED <<org, people, spaces, artifact, begun, faults>>

DeleteArtifact(p) ==
    /\ At(p, "deleteArtifact")
    /\ LET f == call[p].new
       IN  artifact' = [artifact EXCEPT ![f] = IF @ = None THEN None ELSE Artifact(@.stream, "deleted")]
    /\ Ends(p)
    /\ UNCHANGED <<org, people, spaces, blob, doubted, begun, faults>>

(***************************************************************************)
(* deleteOrg: the blobs, best effort, then every row in one transaction.   *)
(***************************************************************************)
DeleteBlobs(p) ==
    /\ At(p, "deleteBlobs")
    /\ \E gone \in SUBSET (call[p].found \intersect Artifacts) :
          /\ blob' = blob \ gone
          /\ doubted' = doubted \union {f \in gone : artifact[f] # None}
    /\ Sets(p, [call[p] EXCEPT !.pc = "deleteOrg"])
    /\ UNCHANGED <<org, people, spaces, artifact, begun, faults>>

DeleteOrg(p) ==
    /\ At(p, "deleteOrg")
    /\ message' = [m \in Messages |-> None] /\ artifact' = [f \in Artifacts |-> None]
    /\ thread' = [t \in Threads |-> None] /\ channel' = [c \in Channels |-> None]
    /\ member' = {} /\ personal' = {} /\ counter' = counter \ call[p].found
    /\ actor' = {} /\ org' = FALSE
    /\ Ends(p)
    /\ UNCHANGED <<blob, doubted, begun, faults>>

(***************************************************************************)
(* What goes wrong.                                                        *)
(***************************************************************************)
Fault == faults < MaxFaults /\ faults' = faults + 1
InsertOutcome(p) == IF At(p, "insert") THEN Sets(p, [call[p] EXCEPT !.pc = "cleanup"]) ELSE Ends(p)

\* The transaction is rolled back, its last use was taken meanwhile, or
\* storage.put throws.
Fails(p) ==
    /\ call[p].pc \notin {"idle", "cleanup", "deleteBlobs"}
    /\ Fault /\ InsertOutcome(p)
    /\ UNCHANGED <<org, people, spaces, files, begun>>

\* The INSERT of an artifact is committed, but the answer is lost: tx throws.
LosesAnswer(p) ==
    /\ At(p, "insert")
    /\ Fault
    /\ artifact' = [artifact EXCEPT ![call[p].new] = Artifact(call[p].at, "live")]
    /\ InsertOutcome(p)
    /\ UNCHANGED <<org, people, spaces, blob, doubted, begun>>

Crash ==
    /\ Fault
    /\ call' = [p \in Calls |-> Idle]
    /\ UNCHANGED <<org, people, spaces, files, begun>>

Begin(p, a) ==
    \/ CheckPersonal(p, a) \/ CheckDeleteOrg(p, a)
    \/ \E x \in Actors : CheckCreateActor(p, a, x)
    \/ \E c \in Channels, v \in Visibilities : CheckCreateChannel(p, a, c, v)
    \/ \E c \in Channels, x \in Actors : CheckAddMember(p, a, c, x) \/ CheckRemoveMember(p, a, c, x)
    \/ \E c \in Channels, t \in Threads, m \in Messages, v \in Visibilities : CheckCreateThread(p, a, c, t, m, v)
    \/ \E s \in Streams, m \in Messages : CheckAppend(p, a, s, m)
    \/ \E c \in Channels : CheckDeleteChannel(p, a, c)
    \/ \E s \in Streams, f \in Artifacts : CheckRegisterArtifact(p, a, s, f)
    \/ \E f \in Artifacts : CheckDeleteArtifact(p, a, f)

Proceed(p) ==
    \/ CreateActor(p) \/ Personal(p) \/ CreateChannel(p) \/ AddMember(p) \/ RemoveMember(p)
    \/ CreateThread(p) \/ AppendRow(p) \/ SelectThreads(p) \/ DeleteRows(p)
    \/ Put(p) \/ InsertArtifact(p) \/ Cleanup(p) \/ DeleteArtifact(p)
    \/ DeleteBlobs(p) \/ DeleteOrg(p)

Next ==
    \/ \E p \in Calls : Proceed(p) \/ Fails(p) \/ LosesAnswer(p) \/ \E a \in Actors : Begin(p, a)
    \/ Crash

Spec == Init /\ [][Next]_vars

(***************************************************************************)
(* Properties.                                                             *)
(***************************************************************************)
Ids == Actors \union Streams \union Messages \union Artifacts
Steps == {"idle", "createActor", "personal", "createChannel", "addMember", "removeMember",
          "createThread", "append", "put", "insert", "cleanup", "deleteArtifact"} \union Deletions
CallRow == [pc : Steps, by : Actors \union {None}, at : Streams \union {None},
            new : Ids \union {None}, vis : Visibilities, found : SUBSET Ids]

(* Every variable has the type of the rows and locals it stands for. *)
TypeOK ==
    /\ org \in BOOLEAN /\ actor \subseteq Actors /\ personal \subseteq Actors
    /\ channel \in [Channels -> Visibilities \union {None}]
    /\ thread \in [Threads -> ThreadRow \union {None}]
    /\ message \in [Messages -> Streams \union {None}]
    /\ artifact \in [Artifacts -> ArtifactRow \union {None}]
    /\ counter \subseteq Streams /\ member \subseteq Actors \X Channels
    /\ blob \subseteq Artifacts /\ doubted \subseteq Artifacts
    /\ call \in [Calls -> CallRow] /\ drawn \subseteq Ids
    /\ calls \in 0 .. MaxCalls /\ faults \in 0 .. MaxFaults /\ overlap \in BOOLEAN

(* Unless a deletion overlapped with another call, nothing refers to what    *)
(* deleteChannel or deleteOrg removed: every row belongs to a channel, a     *)
(* thread, a message and an actor that are there, and an organization that   *)
(* is gone has left nothing behind (service.ts: "orphan SQL rows are not"    *)
(* tolerable).  Without foreign keys only the order of the checks and the    *)
(* lists of DELETEs see to it.                                               *)
DeletionIsComplete ==
    ~overlap =>
        /\ \A t \in Threads : thread[t] # None =>
              channel[thread[t].channel] # None /\ message[thread[t].parent] = thread[t].channel
        /\ \A m \in Messages : message[m] # None => Found(message[m]) /\ message[m] \in counter
        /\ \A s \in counter : Found(s)
        /\ \A m \in member : m[1] \in actor /\ channel[m[2]] # None
        /\ \A f \in Artifacts : artifact[f] # None =>
              org /\ (artifact[f].status = "live" => Found(artifact[f].stream))
        /\ ~org => actor \union personal = {} /\ \A c \in Channels : channel[c] = None

(* A live artifact has its bytes, whatever fails in between, but for two     *)
(* cases: the bytes are deleted by a deleteOrg whose transaction has not     *)
(* committed, or because the answer to a COMMIT was lost.                    *)
LiveArtifactsHaveBlobs ==
    \A f \in Artifacts : artifact[f] # None /\ artifact[f].status = "live" => f \in blob \union doubted

(* Every row that one operation deleted took the rows that hang on it with   *)
(* it: there are no foreign keys that would.                                 *)
NothingHangs == TypeOK /\ DeletionIsComplete
=============================================================================
