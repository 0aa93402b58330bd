------------------------------ MODULE SpacesProofs ------------------------------
(* Theorems about Spaces, for every value of its constants. *)
EXTENDS Spaces, TLAPS

(***************************************************************************)
(* The inductive invariant.  What it says of a call it says of its row.    *)
(***************************************************************************)
\* What a call is about, by the point it has reached.
Shape(c) ==
    /\ c.pc # "idle" => c.by \in Actors
    /\ c.pc \in {"createActor", "addMember", "removeMember"} => c.new \in Actors
    /\ c.pc = "createChannel" => c.new \in Channels
    /\ c.pc \in {"addMember", "removeMember", "createThread", "selectThreads", "deleteRows"}
          => c.at \in Channels
    /\ c.pc = "createThread" => c.new \in Threads /\ c.found \subseteq Messages
    /\ c.pc \in {"append", "put", "insert"} => c.at \in Streams
    /\ c.pc = "append" => c.new \in Messages
    /\ c.pc \in {"put", "insert", "cleanup", "deleteArtifact"} => c.new \in Artifacts

Shapely == TypeOK /\ \A p \in Calls : Shape(call[p])

\* An id is drawn once: its row is not there until the call that drew it
\* inserts it, and no deleteOrg has listed its bytes.
Drawing == {"append", "put", "insert", "cleanup"}

Fresh(c) ==
    /\ c.pc \in Drawing => c.new \in drawn
    /\ c.pc = "append" => message[c.new] = None
    /\ c.pc \in {"put", "insert"} => artifact[c.new] = None
    /\ c.pc = "insert" => c.new \in blob
    /\ c.pc = "deleteBlobs" => c.found \intersect Artifacts \subseteq drawn

Apart(c, d) ==
    /\ c.pc \in Drawing /\ d.pc \in Drawing => c.new # d.new
    /\ c.pc \in {"put", "insert"} /\ d.pc = "deleteBlobs" => c.new \notin d.found

DrawnInv ==
    /\ \A m \in Messages : message[m] # None => m \in drawn
    /\ \A f \in Artifacts : artifact[f] # None => f \in drawn
    /\ \A p \in Calls : Fresh(call[p])
    /\ \A p, q \in Calls : p # q => Apart(call[p], call[q])

\* Without an overlap a deletion is alone, and what a call has checked or
\* listed still holds when it writes.
Lists(c) == {c.at} \union {t \in Threads : thread[t] # None /\ thread[t].channel = c.at}

Checked(c) ==
    /\ c.pc # "idle" => c.by \in actor
    /\ c.pc \in {"addMember", "createThread", "selectThreads"} => channel[c.at] # None
    /\ c.pc = "addMember" => c.new \in actor
    /\ c.pc = "createThread" => \A m \in c.found : message[m] = c.at
    /\ c.pc \in {"append", "put", "insert"} => Found(c.at)
    /\ c.pc = "deleteRows" => c.found = Lists(c)
    /\ c.pc \in {"deleteBlobs", "deleteOrg"} => \A s \in Streams : Found(s) => s \in c.found

Alone == \A p, q \in Calls : p # q /\ call[p].pc \in Deletions => call[q].pc = "idle"

ThreadHolds(t) == thread[t] # None =>
    channel[thread[t].channel] # None /\ message[thread[t].parent] = thread[t].channel
MessageHolds(m) == message[m] # None => Found(message[m]) /\ message[m] \in counter
MemberHolds(m) == m[1] \in actor /\ channel[m[2]] # None
ArtifactHolds(f) == artifact[f] # None =>
    org /\ (artifact[f].status = "live" => Found(artifact[f].stream))
GoneHolds == ~org => actor = {} /\ personal = {} /\ \A c \in Channels : channel[c] = None

RowsHold ==
    /\ \A t \in Threads : ThreadHolds(t)
    /\ \A m \in Messages : MessageHolds(m)
    /\ \A s \in counter : Found(s)
    /\ \A m \in member : MemberHolds(m)
    /\ \A f \in Artifacts : ArtifactHolds(f)
    /\ GoneHolds

OrderInv == ~overlap => Alone /\ RowsHold /\ \A p \in Calls : Checked(call[p])

Inv == Shapely /\ DrawnInv /\ OrderInv /\ LiveArtifactsHaveBlobs

(***************************************************************************)
(* Rows of calls.                                                          *)
(***************************************************************************)
LEMMA CallIsRow ==
  ASSUME NEW pc \in Steps, NEW by \in Actors \union {None}, NEW at \in Streams \union {None},
         NEW new \in Ids \union {None}, NEW vis \in Visibilities, NEW found \in SUBSET Ids
  PROVE  /\ Call(pc, by, at, new, vis, found) \in CallRow
         /\ Call(pc, by, at, new, vis, found).pc = pc /\ Call(pc, by, at, new, vis, found).by = by
         /\ Call(pc, by, at, new, vis, found).at = at /\ Call(pc, by, at, new, vis, found).new = new
         /\ Call(pc, by, at, new, vis, found).vis = vis
         /\ Call(pc, by, at, new, vis, found).found = found
  BY DEF Call, CallRow

LEMMA IdleIsRow == Idle \in CallRow /\ Idle.pc = "idle" /\ Shape(Idle)
  BY DEF Idle, Call, CallRow, Steps, Visibilities, Shape

LEMMA RowsAre ==
  ASSUME Shapely, NEW p \in Calls, NEW c \in CallRow, Sets(p, c)
  PROVE  /\ call' \in [Calls -> CallRow] /\ call'[p] = c
         /\ \A q \in Calls \ {p} : call'[q] = call[q]
  BY DEF Shapely, TypeOK, Sets

(***************************************************************************)
(* Beginning a call.                                                       *)
(***************************************************************************)
Beginnings == {"createActor", "personal", "createChannel", "addMember", "removeMember", "createThread",
               "append", "selectThreads", "put", "deleteArtifact", "deleteBlobs"}

\* What every beginning has in common: the row it starts, and its id.
BeginsWith(p, c) ==
    /\ c \in CallRow /\ c.pc \in Beginnings /\ Shape(c) /\ Checked(c)
    /\ Begins(p, c)
    /\ drawn' = drawn \/ (drawn' = drawn \union {c.new} /\ c.new \in Ids)
    /\ c.pc \in Drawing => c.new \notin drawn /\ drawn' = drawn \union {c.new}
    /\ c.pc = "deleteBlobs" =>
          \A x \in c.found : (x \in Artifacts /\ artifact[x] # None) \/ x \in Streams

LEMMA BeginIs ==
  ASSUME Shapely, NEW p \in Calls, NEW a \in Actors, Begin(p, a)
  PROVE  \E c : BeginsWith(p, c)
  <1> USE DEF Beginnings, Shape, Checked, Drawing, Draws, DrawsNone
  <1>0. /\ Beginnings \subseteq Steps /\ Channels \subseteq Streams /\ Threads \subseteq Streams
        /\ Actors \subseteq Ids /\ Streams \subseteq Ids /\ Messages \subseteq Ids /\ Artifacts \subseteq Ids
        /\ {} \in SUBSET Ids /\ "private" \in Visibilities
        /\ None \in Actors \union {None} /\ None \in Streams \union {None} /\ None \in Ids \union {None}
    BY DEF Steps, Deletions, Streams, Ids, Visibilities
  <1>1. CASE CheckPersonal(p, a)
    <2> DEFINE c == Call("personal", a, None, None, "private", {})
    <2>1. c \in CallRow /\ c.pc = "personal" /\ c.by = a
      BY <1>0 DEF Call, CallRow, Steps
    <2>2. Begins(p, c) /\ drawn' = drawn /\ a \in actor
      BY <1>1, <2>1 DEF CheckPersonal, Begins
    <2> HIDE DEF c
    <2> QED BY <1>0, <2>1, <2>2 DEF BeginsWith
  <1>2. CASE CheckDeleteOrg(p, a)
    <2> DEFINE F == {f \in Artifacts : artifact[f] # None} \union {s \in Streams : Found(s)}
               c == Call("deleteBlobs", a, None, None, "private", F)
    <2>1. c \in CallRow /\ c.pc = "deleteBlobs" /\ c.by = a /\ c.found = F
      BY <1>0 DEF Call, CallRow, Steps
    <2>2. Begins(p, c) /\ drawn' = drawn /\ a \in actor
      BY <1>2, <2>1 DEF CheckDeleteOrg, Begins
    <2>3. \A s \in Streams : Found(s) => s \in F
      OBVIOUS
    <2>4. \A x \in F : (x \in Artifacts /\ artifact[x] # None) \/ x \in Streams
      OBVIOUS
    <2> HIDE DEF c, F
    <2> QED BY <1>0, <2>1, <2>2, <2>3, <2>4 DEF BeginsWith
  <1>3. ASSUME NEW x \in Actors, CheckCreateActor(p, a, x)  PROVE \E c : BeginsWith(p, c)
    <2> DEFINE c == Call("createActor", a, None, x, "private", {})
    <2>1. c \in CallRow /\ c.pc = "createActor" /\ c.by = a /\ c.new = x
      BY <1>0 DEF Call, CallRow, Steps
    <2>2. Begins(p, c) /\ drawn' = drawn \union {x} /\ a \in actor
      BY <1>3, <2>1 DEF CheckCreateActor, Begins
    <2> HIDE DEF c
    <2> QED BY <1>0, <2>1, <2>2 DEF BeginsWith
  <1>4. ASSUME NEW x \in Channels, NEW v \in Visibilities, CheckCreateChannel(p, a, x, v)
        PROVE  \E c : BeginsWith(p, c)
    <2> DEFINE c == Call("createChannel", a, None, x, v, {})
    <2>1. c \in CallRow /\ c.pc = "createChannel" /\ c.by = a /\ c.new = x
      BY <1>0 DEF Call, CallRow, Steps
    <2>2. Begins(p, c) /\ drawn' = drawn \union {x} /\ a \in actor
      BY <1>4, <2>1 DEF CheckCreateChannel, Begins
    <2> HIDE DEF c
    <2> QED BY <1>0, <2>1, <2>2 DEF BeginsWith
  <1>5. ASSUME NEW x \in Channels, NEW y \in Actors, CheckAddMember(p, a, x, y) \/ CheckRemoveMember(p, a, x, y)
        PROVE  \E c : BeginsWith(p, c)
    <2>1. PICK pc \in {"addMember", "removeMember"} :
             CheckMember(p, a, x, y, pc) /\ (pc = "addMember" => y \in actor)
      BY <1>5 DEF CheckAddMember, CheckRemoveMember
    <2> DEFINE c == Call(pc, a, x, y, "private", {})
    <2>2. c \in CallRow /\ c.pc = pc /\ c.by = a /\ c.at = x /\ c.new = y
      BY <1>0 DEF Call, CallRow, Steps
    <2>3. Begins(p, c) /\ drawn' = drawn /\ a \in actor /\ channel[x] # None
      BY <2>1, <2>2 DEF CheckMember, Begins
    <2> HIDE DEF c
    <2> QED BY <1>0, <2>1, <2>2, <2>3 DEF BeginsWith
  <1>6. ASSUME NEW x \in Channels, NEW t \in Threads, NEW m \in Messages, NEW v \in Visibilities,
               CheckCreateThread(p, a, x, t, m, v)
        PROVE  \E c : BeginsWith(p, c)
    <2> DEFINE c == Call("createThread", a, x, t, v, {m})
    <2>1. c \in CallRow /\ c.pc = "createThread" /\ c.by = a /\ c.at = x /\ c.new = t /\ c.found = {m}
      BY <1>0 DEF Call, CallRow, Steps
    <2>2. Begins(p, c) /\ drawn' = drawn \union {t} /\ a \in actor /\ channel[x] # None /\ message[m] = x
      BY <1>6, <2>1 DEF CheckCreateThread, Begins
    <2> HIDE DEF c
    <2> QED BY <1>0, <2>1, <2>2 DEF BeginsWith
  <1>7. ASSUME NEW s \in Streams, NEW m \in Messages, CheckAppend(p, a, s, m)
        PROVE  \E c : BeginsWith(p, c)
    <2> DEFINE c == Call("append", a, s, m, "private", {})
    <2>1. c \in CallRow /\ c.pc = "append" /\ c.by = a /\ c.at = s /\ c.new = m
      BY <1>0 DEF Call, CallRow, Steps
    <2>2. Begins(p, c) /\ drawn' = drawn \union {m} /\ m \notin drawn /\ a \in actor /\ Found(s)
      BY <1>7, <2>1 DEF CheckAppend, Begins
    <2> HIDE DEF c
    <2> QED BY <1>0, <2>1, <2>2 DEF BeginsWith
  <1>8. ASSUME NEW x \in Channels, CheckDeleteChannel(p, a, x)  PROVE \E c : BeginsWith(p, c)
    <2> DEFINE c == Call("selectThreads", a, x, None, "private", {})
    <2>1. c \in CallRow /\ c.pc = "selectThreads" /\ c.by = a /\ c.at = x
      BY <1>0 DEF Call, CallRow, Steps
    <2>2. Begins(p, c) /\ drawn' = drawn /\ a \in actor /\ channel[x] # None
      BY <1>8, <2>1 DEF CheckDeleteChannel, Begins
    <2> HIDE DEF c
    <2> QED BY <1>0, <2>1, <2>2 DEF BeginsWith
  <1>9. ASSUME NEW s \in Streams, NEW f \in Artifacts, CheckRegisterArtifact(p, a, s, f)
        PROVE  \E c : BeginsWith(p, c)
    <2> DEFINE c == Call("put", a, s, f, "private", {})
    <2>1. c \in CallRow /\ c.pc = "put" /\ c.by = a /\ c.at = s /\ c.new = f
      BY <1>0 DEF Call, CallRow, Steps
    <2>2. Begins(p, c) /\ drawn' = drawn \union {f} /\ f \notin drawn /\ a \in actor /\ Found(s)
      BY <1>9, <2>1 DEF CheckRegisterArtifact, Readable, Begins
    <2> HIDE DEF c
    <2> QED BY <1>0, <2>1, <2>2 DEF BeginsWith
  <1>10. ASSUME NEW f \in Artifacts, CheckDeleteArtifact(p, a, f)  PROVE \E c : BeginsWith(p, c)
    <2> DEFINE c == Call("deleteArtifact", a, None, f, "private", {})
    <2>1. c \in CallRow /\ c.pc = "deleteArtifact" /\ c.by = a /\ c.new = f
      BY <1>0 DEF Call, CallRow, Steps
    <2>2. Begins(p, c) /\ drawn' = drawn /\ a \in actor
      BY <1>10, <2>1 DEF CheckDeleteArtifact, Begins
    <2> HIDE DEF c
    <2> QED BY <1>0, <2>1, <2>2 DEF BeginsWith
  <1> QED BY <1>1, <1>2, <1>3, <1>4, <1>5, <1>6, <1>7, <1>8, <1>9, <1>10 DEF Begin

(***************************************************************************)
(* Types, and the shape of calls.                                          *)
(***************************************************************************)
Tables ==
    /\ org \in BOOLEAN /\ actor \subseteq Actors /\ personal \subseteq Actors
    /\ channel \in [Channels -> Visibilities \union {None}]
    /\ thread \in [Threads -> ThreadRow \union {None}]
    /\ message \in [Messages -> Streams \union {None}]
    /\ artifact \in [Artifacts -> ArtifactRow \union {None}]
    /\ counter \subseteq Streams /\ member \subseteq Actors \X Channels
    /\ blob \subseteq Artifacts /\ doubted \subseteq Artifacts
Counts == drawn \subseteq Ids /\ calls \in 0 .. MaxCalls /\ faults \in 0 .. MaxFaults /\ overlap \in BOOLEAN

LEMMA TypesAre == TypeOK <=> Tables /\ Counts /\ call \in [Calls -> CallRow]
  BY DEF TypeOK, Tables, Counts

LEMMA ShapelyInit == Init => Shapely
  <1> SUFFICES ASSUME Init  PROVE Shapely
    OBVIOUS
  <1>1. call \in [Calls -> CallRow] /\ \A p \in Calls : Shape(call[p])
    BY IdleIsRow DEF Init
  <1>2. Tables
    BY SpacesAssumption DEF Init, Tables
  <1>3. Counts
    <2>1. calls = 0 /\ faults = 0 /\ drawn = {} /\ overlap = FALSE
      BY DEF Init
    <2>2. calls \in 0 .. MaxCalls /\ faults \in 0 .. MaxFaults
      BY <2>1, SpacesAssumption
    <2> QED BY <2>1, <2>2 DEF Counts
  <1> QED BY <1>1, <1>2, <1>3, TypesAre DEF Shapely

\* A step gives one call another row.
LEMMA RowStep ==
  ASSUME Shapely, NEW p \in Calls, NEW c \in CallRow, Shape(c), Sets(p, c), Tables', Counts'
  PROVE  Shapely'
  <1>1. call' \in [Calls -> CallRow] /\ \A q \in Calls : call'[q] = IF q = p THEN c ELSE call[q]
    BY RowsAre
  <1>2. TypeOK'
    BY <1>1 DEF TypeOK, Tables, Counts
  <1>3. \A q \in Calls : Shape(call'[q])
    BY <1>1 DEF Shapely
  <1> QED BY <1>2, <1>3 DEF Shapely

LEMMA BeginShapely ==
  ASSUME Shapely, NEW p \in Calls, NEW a \in Actors, Begin(p, a)
  PROVE  Shapely'
  <1>1. PICK c : BeginsWith(p, c)
    BY BeginIs
  <1>2. Tables /\ Counts
    BY TypesAre DEF Shapely
  <1>3. UNCHANGED <<org, people, spaces, files, faults>> /\ calls' = calls + 1 /\ calls < MaxCalls
        /\ overlap' \in BOOLEAN /\ Sets(p, c) /\ c \in CallRow /\ Shape(c)
    BY <1>1, <1>2 DEF BeginsWith, Begins, Counts
  <1>4. drawn' \subseteq Ids
    BY <1>1, <1>2 DEF BeginsWith, Counts
  <1>5. Tables'
    BY <1>2, <1>3 DEF Tables, people, spaces, files
  <1>6. Counts'
    BY <1>2, <1>3, <1>4, SpacesAssumption DEF Counts
  <1> QED BY <1>3, <1>5, <1>6, RowStep

\* The row a call has after its step.
After(p, c) == c \in CallRow /\ Shape(c) /\ Sets(p, c)

LEMMA EndIs ==
  ASSUME NEW p \in Calls, Ends(p)
  PROVE  After(p, Idle)
  BY IdleIsRow DEF Ends, After

\* A call that goes on keeps its row but for the point it has reached.
LEMMA GoesOn ==
  ASSUME Shapely, NEW p \in Calls, NEW pc \in Steps, Sets(p, [call[p] EXCEPT !.pc = pc])
  PROVE  \E c \in CallRow : /\ Sets(p, c) /\ c.pc = pc /\ c.by = call[p].by /\ c.at = call[p].at
                            /\ c.new = call[p].new /\ c.found = call[p].found
  <1>1. call[p] \in CallRow
    BY DEF Shapely, TypeOK
  <1> DEFINE c == [call[p] EXCEPT !.pc = pc]
  <1>2. /\ c \in CallRow /\ c.pc = pc /\ c.by = call[p].by /\ c.at = call[p].at
        /\ c.new = call[p].new /\ c.found = call[p].found
    BY <1>1 DEF CallRow
  <1>3. Sets(p, c)
    OBVIOUS
  <1> HIDE DEF c
  <1> QED BY <1>2, <1>3

LEMMA ProceedShapely ==
  ASSUME Shapely, NEW p \in Calls, Proceed(p)
  PROVE  Shapely'
  <1> DEFINE d == call[p]
  <1>0. Tables /\ Counts /\ d \in CallRow /\ Shape(d)
    BY TypesAre DEF Shapely
  <1>00. Counts' /\ UNCHANGED begun
    BY <1>0 DEF Proceed, CreateActor, Personal, CreateChannel, AddMember, RemoveMember, CreateThread,
          AppendRow, SelectThreads, DeleteRows, Put, InsertArtifact, Cleanup, DeleteArtifact, DeleteBlobs,
          DeleteOrg, Counts, begun
  <1> HIDE DEF d
  <1>1. CASE CreateActor(p)
    <2>1. d.new \in Actors /\ actor' = actor \union {d.new} /\ Ends(p) /\ UNCHANGED <<org, personal, spaces, files>>
      BY <1>0, <1>1 DEF CreateActor, At, Shape, d
    <2>2. Tables'
      BY <1>0, <2>1 DEF Tables, spaces, files
    <2> QED BY <1>00, <2>1, <2>2, EndIs, RowStep DEF After
  <1>2. CASE Personal(p)
    <2>1. d.by \in Actors /\ personal' = personal \union {d.by} /\ Ends(p) /\ UNCHANGED <<org, actor, spaces, files>>
      BY <1>0, <1>2 DEF Personal, At, Shape, d
    <2>2. Tables'
      BY <1>0, <2>1 DEF Tables, spaces, files
    <2> QED BY <1>00, <2>1, <2>2, EndIs, RowStep DEF After
  <1>3. CASE CreateChannel(p)
    <2>1. /\ d.new \in Channels /\ d.by \in Actors /\ d.vis \in Visibilities
          /\ channel' = [channel EXCEPT ![d.new] = d.vis] /\ member' = member \union {<<d.by, d.new>>}
          /\ Ends(p) /\ UNCHANGED <<org, people, thread, message, counter, files>>
      BY <1>0, <1>3 DEF CreateChannel, At, Shape, d, CallRow
    <2>2. Tables'
      BY <1>0, <2>1 DEF Tables, people, files
    <2> QED BY <1>00, <2>1, <2>2, EndIs, RowStep DEF After
  <1>4. CASE AddMember(p) \/ RemoveMember(p)
    <2>1. /\ d.at \in Channels /\ d.new \in Actors
          /\ member' = member \union {<<d.new, d.at>>} \/ member' = member \ {<<d.new, d.at>>}
          /\ Ends(p) /\ UNCHANGED <<org, people, channel, thread, message, counter, files>>
      BY <1>0, <1>4 DEF AddMember, RemoveMember, At, Shape, d
    <2>2. Tables'
      BY <1>0, <2>1 DEF Tables, people, files
    <2> QED BY <1>00, <2>1, <2>2, EndIs, RowStep DEF After
  <1>5. CASE CreateThread(p)
    <2>1. PICK m \in d.found : thread' = [thread EXCEPT ![d.new] = Thread(d.at, m, d.vis)]
      BY <1>5 DEF CreateThread, d
    <2>2. /\ d.at \in Channels /\ d.new \in Threads /\ m \in Messages /\ d.vis \in Visibilities
          /\ Ends(p) /\ UNCHANGED <<org, people, channel, message, counter, member, files>>
      BY <1>0, <1>5 DEF CreateThread, At, Shape, d, CallRow
    <2>3. Thread(d.at, m, d.vis) \in ThreadRow
      BY <2>2 DEF Thread, ThreadRow
    <2>4. Tables'
      BY <1>0, <2>1, <2>2, <2>3 DEF Tables, people, files
    <2> QED BY <1>00, <2>2, <2>4, EndIs, RowStep DEF After
  <1>6. CASE AppendRow(p)
    <2>1. /\ d.at \in Streams /\ d.new \in Messages
          /\ message' = [message EXCEPT ![d.new] = d.at] /\ counter' = counter \union {d.at}
          /\ Ends(p) /\ UNCHANGED <<org, people, channel, thread, member, files>>
      BY <1>0, <1>6 DEF AppendRow, At, Shape, d
    <2>2. Tables'
      BY <1>0, <2>1 DEF Tables, people, files
    <2> QED BY <1>00, <2>1, <2>2, EndIs, RowStep DEF After
  <1>7. CASE SelectThreads(p)
    <2> DEFINE F == {d.at} \union {t \in Threads : thread[t] # None /\ thread[t].channel = d.at}
               c == [d EXCEPT !.pc = "deleteRows", !.found = F]
    <2>1. d.pc = "selectThreads" /\ d.at \in Channels /\ F \in SUBSET Ids
      BY <1>0, <1>7 DEF SelectThreads, At, Shape, d, Ids, Streams
    <2>2. c \in CallRow /\ c.pc = "deleteRows" /\ c.at = d.at /\ c.by = d.by
      <3> HIDE DEF F
      <3> QED BY <1>0, <2>1 DEF CallRow, Steps, Deletions
    <2>3. Sets(p, c) /\ UNCHANGED <<org, people, spaces, files>>
      BY <1>7 DEF SelectThreads, d
    <2> HIDE DEF c
    <2>4. Shape(c)
      BY <1>0, <2>1, <2>2 DEF Shape
    <2>5. Tables'
      BY <1>0, <2>3 DEF Tables, people, spaces, files
    <2> QED BY <1>00, <2>2, <2>3, <2>4, <2>5, RowStep
  <1>8. CASE DeleteRows(p)
    <2>1. /\ \A m \in Messages : message'[m] \in {message[m], None}
          /\ \A t \in Threads : thread'[t] \in {thread[t], None}
          /\ DOMAIN message' = DOMAIN message /\ DOMAIN thread' = DOMAIN thread
          /\ message' = [m \in DOMAIN message' |-> message'[m]] /\ thread' = [t \in DOMAIN thread' |-> thread'[t]]
      BY <1>0, <1>8 DEF DeleteRows, Without, Tables
    <2>2. artifact' \in [Artifacts -> ArtifactRow \union {None}]
      <3>1. \A f \in Artifacts : artifact[f] # None => artifact[f].stream \in Streams
        BY <1>0 DEF Tables, ArtifactRow
      <3> QED BY <1>0, <1>8, <3>1 DEF DeleteRows, Tables, Artifact, ArtifactRow
    <2>3. /\ counter' \subseteq counter /\ member' \subseteq member /\ channel' = [channel EXCEPT ![d.at] = None]
          /\ Ends(p) /\ UNCHANGED <<org, people, blob, doubted>>
      BY <1>8 DEF DeleteRows, d
    <2>4. message' \in [Messages -> Streams \union {None}]
      BY <1>0, <2>1 DEF Tables
    <2>5. thread' \in [Threads -> ThreadRow \union {None}]
      BY <1>0, <2>1 DEF Tables
    <2>6. Tables'
      BY <1>0, <2>2, <2>3, <2>4, <2>5 DEF Tables, people
    <2> QED BY <1>00, <2>3, <2>6, EndIs, RowStep DEF After
  <1>9. CASE Put(p)
    <2>1. /\ d.new \in Artifacts /\ blob' = blob \union {d.new} /\ d.pc = "put"
          /\ UNCHANGED <<org, people, spaces, artifact, doubted>>
      BY <1>0, <1>9 DEF Put, At, Shape, d
    <2>2. "insert" \in Steps
      BY DEF Steps
    <2>3. PICK c \in CallRow : Sets(p, c) /\ c.pc = "insert" /\ c.by = d.by /\ c.at = d.at /\ c.new = d.new
      BY <1>9, <2>2, GoesOn DEF Put, d
    <2>4. Shape(c)
      BY <1>0, <2>1, <2>3 DEF Shape
    <2>5. Tables'
      BY <1>0, <2>1 DEF Tables, people, spaces
    <2> QED BY <1>00, <2>3, <2>4, <2>5, RowStep
  <1>10. CASE InsertArtifact(p)
    <2>1. /\ d.new \in Artifacts /\ d.at \in Streams /\ artifact' = [artifact EXCEPT ![d.new] = Artifact(d.at, "live")]
          /\ Ends(p) /\ UNCHANGED <<org, people, spaces, blob, doubted>>
      BY <1>0, <1>10 DEF InsertArtifact, At, Shape, d
    <2>2. Artifact(d.at, "live") \in ArtifactRow
      BY <2>1 DEF Artifact, ArtifactRow
    <2>3. Tables'
      BY <1>0, <2>1, <2>2 DEF Tables, people, spaces
    <2> QED BY <1>00, <2>1, <2>3, EndIs, RowStep DEF After
  <1>11. CASE Cleanup(p)
    <2>1. /\ d.new \in Artifacts /\ blob' \subseteq blob
          /\ doubted' \subseteq doubted \union {d.new}
          /\ Ends(p) /\ UNCHANGED <<org, people, spaces, artifact>>
      BY <1>0, <1>11 DEF Cleanup, At, Shape, d
    <2>2. Tables'
      BY <1>0, <2>1 DEF Tables, people, spaces
    <2> QED BY <1>00, <2>1, <2>2, EndIs, RowStep DEF After
  <1>12. CASE DeleteArtifact(p)
    <2>1. /\ d.new \in Artifacts
          /\ artifact' = [artifact EXCEPT ![d.new] = IF @ = None THEN None ELSE Artifact(@.stream, "deleted")]
          /\ Ends(p) /\ UNCHANGED <<org, people, spaces, blob, doubted>>
      BY <1>0, <1>12 DEF DeleteArtifact, At, Shape, d
    <2>2. artifact[d.new] # None => artifact[d.new].stream \in Streams
      BY <1>0, <2>1 DEF Tables, ArtifactRow
    <2>3. artifact' \in [Artifacts -> ArtifactRow \union {None}]
      BY <1>0, <2>1, <2>2 DEF Tables, Artifact, ArtifactRow
    <2>4. Tables'
      BY <1>0, <2>1, <2>3 DEF Tables, people, spaces
    <2> QED BY <1>00, <2>1, <2>4, EndIs, RowStep DEF After
  <1>13. CASE DeleteBlobs(p)
    <2>1. PICK gone \in SUBSET (d.found \intersect Artifacts) :
             blob' = blob \ gone /\ doubted' = doubted \union {f \in gone : artifact[f] # None}
      BY <1>13 DEF DeleteBlobs, d
    <2>2. d.pc = "deleteBlobs" /\ UNCHANGED <<org, people, spaces, artifact>> /\ "deleteOrg" \in Steps
      BY <1>13 DEF DeleteBlobs, At, d, Steps, Deletions
    <2>3. PICK c \in CallRow : Sets(p, c) /\ c.pc = "deleteOrg" /\ c.by = d.by
      BY <1>13, <2>2, GoesOn DEF DeleteBlobs, d
    <2>4. Shape(c)
      BY <1>0, <2>2, <2>3 DEF Shape
    <2>5. blob' \subseteq Artifacts /\ doubted' \subseteq Artifacts
      BY <1>0, <2>1 DEF Tables
    <2>6. Tables'
      BY <1>0, <2>2, <2>5 DEF Tables, people, spaces
    <2> QED BY <1>00, <2>3, <2>4, <2>6, RowStep
  <1>14. CASE DeleteOrg(p)
    <2>1. Tables' /\ Ends(p)
      BY <1>0, <1>14 DEF DeleteOrg, Tables
    <2> QED BY <1>00, <2>1, EndIs, RowStep DEF After
  <1> QED BY <1>1, <1>2, <1>3, <1>4, <1>5, <1>6, <1>7, <1>8, <1>9, <1>10, <1>11, <1>12, <1>13, <1>14 DEF Proceed

\* What a fault leaves of the calls.
LEMMA OutcomeIs ==
  ASSUME Shapely, NEW p \in Calls, InsertOutcome(p)
  PROVE  \E c \in CallRow : /\ Shape(c) /\ Sets(p, c)
                            /\ IF call[p].pc = "insert" THEN c.pc = "cleanup" /\ c.by = call[p].by /\ c.new = call[p].new
                                                        ELSE c = Idle
  <1>1. CASE call[p].pc = "insert"
    <2>1. "cleanup" \in Steps /\ Shape(call[p])
      BY DEF Steps, Shapely
    <2>2. PICK c \in CallRow : Sets(p, c) /\ c.pc = "cleanup" /\ c.by = call[p].by /\ c.new = call[p].new
      BY <1>1, <2>1, GoesOn DEF InsertOutcome, At
    <2>3. Shape(c)
      BY <1>1, <2>1, <2>2 DEF Shape
    <2> QED BY <1>1, <2>2, <2>3
  <1>2. CASE call[p].pc # "insert"
    BY <1>2, IdleIsRow DEF InsertOutcome, At, Ends
  <1> QED BY <1>1, <1>2

LEMMA FaultShapely ==
  ASSUME Shapely, NEW p \in Calls, Fails(p) \/ LosesAnswer(p)
  PROVE  Shapely'
  <1>1. Tables /\ Counts /\ Shape(call[p])
    BY TypesAre DEF Shapely
  <1>2. PICK c \in CallRow : Shape(c) /\ Sets(p, c)
    BY OutcomeIs DEF Fails, LosesAnswer
  <1>3. Counts'
    BY <1>1, SpacesAssumption DEF Fails, LosesAnswer, Fault, Counts, begun
  <1>4. CASE Fails(p)
    <2>1. Tables'
      BY <1>1, <1>4 DEF Fails, Tables, people, spaces, files
    <2> QED BY <1>2, <1>3, <2>1, RowStep
  <1>5. CASE LosesAnswer(p)
    <2>1. /\ call[p].new \in Artifacts /\ call[p].at \in Streams
          /\ artifact' = [artifact EXCEPT ![call[p].new] = Artifact(call[p].at, "live")]
          /\ UNCHANGED <<org, people, spaces, blob, doubted>>
      BY <1>1, <1>5 DEF LosesAnswer, At, Shape
    <2>2. Artifact(call[p].at, "live") \in ArtifactRow
      BY <2>1 DEF Artifact, ArtifactRow
    <2>3. Tables'
      BY <1>1, <2>1, <2>2 DEF Tables, people, spaces
    <2> QED BY <1>2, <1>3, <2>3, RowStep
  <1> QED BY <1>4, <1>5

LEMMA ShapelyStep == Shapely /\ [Next]_vars => Shapely'
  <1> SUFFICES ASSUME Shapely, [Next]_vars  PROVE Shapely'
    OBVIOUS
  <1>1. CASE Crash
    <2>1. Tables /\ Counts
      BY TypesAre DEF Shapely
    <2>2. Tables' /\ Counts'
      BY <1>1, <2>1, SpacesAssumption DEF Crash, Fault, Tables, Counts, people, spaces, files, begun
    <2>3. call' = [p \in Calls |-> Idle]
      BY <1>1 DEF Crash
    <2>4. call' \in [Calls -> CallRow] /\ \A p \in Calls : Shape(call'[p])
      BY <2>3, IdleIsRow
    <2>5. TypeOK'
      BY <2>2, <2>4 DEF TypeOK, Tables, Counts
    <2> QED BY <2>4, <2>5 DEF Shapely
  <1>2. CASE UNCHANGED vars
    <2>1. UNCHANGED <<org, people, spaces, files, call, begun, faults>>
      BY <1>2 DEF vars
    <2> QED BY <2>1 DEF people, spaces, files, begun, Shapely, TypeOK
  <1> QED BY <1>1, <1>2, BeginShapely, ProceedShapely, FaultShapely DEF Next

(***************************************************************************)
(* Ids are drawn once, and live artifacts keep their bytes.                *)
(***************************************************************************)
LEMMA DrawnInit == Init => DrawnInv /\ LiveArtifactsHaveBlobs
  <1> SUFFICES ASSUME Init  PROVE DrawnInv /\ LiveArtifactsHaveBlobs
    OBVIOUS
  <1>1. \A p \in Calls : call[p].pc = "idle"
    BY IdleIsRow DEF Init
  <1>2. (\A m \in Messages : message[m] = None) /\ \A f \in Artifacts : artifact[f] = None
    BY DEF Init
  <1> QED BY <1>1, <1>2 DEF DrawnInv, Fresh, Apart, Drawing, LiveArtifactsHaveBlobs

\* What a step may not do to the rows that other calls are about to write.
Undisturbed(p) ==
    \A q \in Calls \ {p} :
        /\ call[q].pc = "append" => message'[call[q].new] = None
        /\ call[q].pc \in {"put", "insert"} => artifact'[call[q].new] = None
        /\ call[q].pc = "insert" => call[q].new \in blob'

RowsDrawn ==
    /\ \A m \in Messages : message[m] # None => m \in drawn
    /\ \A f \in Artifacts : artifact[f] # None => f \in drawn

ApartFrom(p, c) == \A q \in Calls \ {p} : Apart(c, call[q]) /\ Apart(call[q], c)

LEMMA DrawnStep ==
  ASSUME Shapely, DrawnInv, NEW p \in Calls, NEW c \in CallRow, Sets(p, c), drawn \subseteq drawn',
         RowsDrawn', Undisturbed(p), Fresh(c)', ApartFrom(p, c)
  PROVE  DrawnInv'
  <1>1. call'[p] = c /\ \A q \in Calls \ {p} : call'[q] = call[q]
    BY RowsAre
  <1>2. ASSUME NEW q \in Calls \ {p}  PROVE Fresh(call[q])'
    <2>1. Fresh(call[q]) /\ call'[q] = call[q]
      BY <1>1 DEF DrawnInv
    <2> QED BY <2>1 DEF Fresh, Undisturbed
  <1>3. \A q \in Calls : Fresh(call[q])'
    <2>1. Fresh(call[p])'
      BY <1>1 DEF Fresh
    <2> QED BY <1>2, <2>1
  <1>4. ASSUME NEW q \in Calls, NEW r \in Calls, q # r  PROVE Apart(call'[q], call'[r])
    <2>1. q # p /\ r # p => Apart(call[q], call[r])
      BY <1>4 DEF DrawnInv
    <2> QED BY <1>1, <1>4, <2>1 DEF ApartFrom
  <1> QED BY <1>3, <1>4 DEF DrawnInv, RowsDrawn

LEMMA IdleDrawn == Fresh(Idle)' /\ \A p \in Calls : ApartFrom(p, Idle)
  BY IdleIsRow DEF Fresh, Apart, ApartFrom, Drawing

LEMMA SameDrawn ==
  ASSUME DrawnInv, UNCHANGED <<message, artifact, blob>>
  PROVE  \A p \in Calls : Undisturbed(p)
  BY DEF DrawnInv, Fresh, Undisturbed

\* A call that draws and goes on keeps its id.
LEMMA KeepsApart ==
  ASSUME DrawnInv, NEW p \in Calls, NEW c \in CallRow, c.pc \in {"insert", "cleanup"}, call[p].pc \in {"put", "insert"},
         c.new = call[p].new
  PROVE  ApartFrom(p, c)
  BY DEF DrawnInv, Apart, ApartFrom, Drawing

Kept == DrawnInv /\ LiveArtifactsHaveBlobs

LEMMA BeginKept ==
  ASSUME Shapely, Kept, NEW p \in Calls, NEW a \in Actors, Begin(p, a)
  PROVE  Kept'
  <1>1. PICK c : BeginsWith(p, c)
    BY BeginIs
  <1>2. /\ c \in CallRow /\ Shape(c) /\ Sets(p, c) /\ UNCHANGED <<org, people, spaces, files>>
        /\ c.pc \in Beginnings /\ drawn \subseteq drawn'
        /\ c.pc \in Drawing => c.new \notin drawn /\ c.new \in drawn'
        /\ c.pc = "deleteBlobs" =>
              \A x \in c.found : (x \in Artifacts /\ artifact[x] # None) \/ x \in Streams
    BY <1>1 DEF BeginsWith, Begins
  <1>3. UNCHANGED <<message, artifact, blob, doubted>>
    BY <1>2 DEF spaces, files
  <1>4. Artifacts \intersect Streams = {}
    BY SpacesAssumption DEF Streams
  <1>5. c.pc = "deleteBlobs" => \A f \in c.found \intersect Artifacts : artifact[f] # None
    BY <1>2, <1>4
  <1>6. RowsDrawn'
    BY <1>2, <1>3 DEF Kept, DrawnInv, RowsDrawn
  <1>7. Fresh(c)'
    <2>1. /\ c.pc = "append" => c.new \in Messages
          /\ c.pc \in {"put", "insert"} => c.new \in Artifacts
          /\ c.pc # "insert"
      BY <1>2 DEF Shape, Beginnings
    <2>2. c.pc = "deleteBlobs" => c.found \intersect Artifacts \subseteq drawn
      BY <1>5 DEF Kept, DrawnInv
    <2> QED BY <1>2, <1>3, <2>1, <2>2 DEF Kept, DrawnInv, Fresh, Drawing
  <1>8. ApartFrom(p, c)
    <2> SUFFICES ASSUME NEW q \in Calls \ {p}  PROVE Apart(c, call[q]) /\ Apart(call[q], c)
      BY DEF ApartFrom
    <2>1. Fresh(call[q]) /\ Shape(call[q])
      BY DEF Kept, DrawnInv, Shapely
    <2>2. c.pc \in Drawing /\ call[q].pc \in Drawing => c.new # call[q].new
      BY <1>2, <2>1 DEF Fresh
    <2>3. c.pc \in {"put", "insert"} /\ call[q].pc = "deleteBlobs" => c.new \notin call[q].found
      BY <1>2, <2>1 DEF Fresh, Shape, Drawing
    <2>4. call[q].pc \in {"put", "insert"} /\ c.pc = "deleteBlobs" => call[q].new \notin c.found
      BY <1>5, <2>1 DEF Fresh, Shape
    <2> QED BY <2>2, <2>3, <2>4 DEF Apart
  <1>9. DrawnInv'
    BY <1>2, <1>3, <1>6, <1>7, <1>8, SameDrawn, DrawnStep DEF Kept
  <1>10. LiveArtifactsHaveBlobs'
    BY <1>3 DEF Kept, LiveArtifactsHaveBlobs
  <1> QED BY <1>9, <1>10 DEF Kept

\* A call that ends without a word about messages, artifacts or bytes.
LEMMA EndKept ==
  ASSUME Shapely, Kept, NEW p \in Calls, Ends(p), UNCHANGED <<message, artifact, blob, doubted, drawn>>
  PROVE  Kept'
  <1>1. Undisturbed(p)
    BY SameDrawn DEF Kept
  <1>2. RowsDrawn'
    BY DEF Kept, DrawnInv, RowsDrawn
  <1>3. DrawnInv'
    BY <1>1, <1>2, IdleDrawn, IdleIsRow, DrawnStep DEF Ends, Kept
  <1> QED BY <1>3 DEF Kept, LiveArtifactsHaveBlobs

\* A call whose row says no more about what it draws.
LEMMA StillKept ==
  ASSUME Shapely, Kept, NEW p \in Calls, NEW c \in CallRow, Sets(p, c), c.pc \in {"deleteRows", "deleteOrg"},
         RowsDrawn', Undisturbed(p), UNCHANGED drawn
  PROVE  DrawnInv'
  <1>1. Fresh(c)' /\ ApartFrom(p, c)
    BY DEF Fresh, Apart, ApartFrom, Drawing
  <1> QED BY <1>1, DrawnStep DEF Kept

LEMMA ProceedKept ==
  ASSUME Shapely, Kept, NEW p \in Calls, Proceed(p)
  PROVE  Kept'
  <1> DEFINE d == call[p]
  <1>0. d \in CallRow /\ Shape(d) /\ Fresh(d) /\ Tables /\ DrawnInv /\ LiveArtifactsHaveBlobs
    BY TypesAre DEF Shapely, Kept, DrawnInv
  <1>00. ASSUME NEW q \in Calls \ {p}  PROVE Shape(call[q]) /\ Fresh(call[q]) /\ Apart(d, call[q]) /\ Apart(call[q], d)
    BY DEF Shapely, Kept, DrawnInv
  <1> HIDE DEF d
  <1>1. CASE CreateActor(p) \/ Personal(p) \/ CreateChannel(p) \/ AddMember(p) \/ RemoveMember(p) \/ CreateThread(p)
    <2>1. Ends(p) /\ UNCHANGED <<message, artifact, blob, doubted, drawn>>
      BY <1>1 DEF CreateActor, Personal, CreateChannel, AddMember, RemoveMember, CreateThread, spaces, files, begun
    <2> QED BY <2>1, EndKept
  <1>2. CASE AppendRow(p)
    <2>1. /\ d.pc = "append" /\ d.new \in Messages /\ message' = [message EXCEPT ![d.new] = d.at]
          /\ Ends(p) /\ UNCHANGED <<artifact, blob, doubted, drawn>> /\ d.new \in drawn
      BY <1>0, <1>2 DEF AppendRow, At, Shape, Fresh, Drawing, files, begun, d
    <2>2. RowsDrawn'
      BY <1>0, <2>1 DEF RowsDrawn, DrawnInv, Tables
    <2>3. Undisturbed(p)
      <3> SUFFICES ASSUME NEW q \in Calls \ {p}
                   PROVE  /\ call[q].pc = "append" => message'[call[q].new] = None
                          /\ call[q].pc \in {"put", "insert"} => artifact'[call[q].new] = None
                          /\ call[q].pc = "insert" => call[q].new \in blob'
        BY DEF Undisturbed
      <3>1. Shape(call[q]) /\ Fresh(call[q]) /\ Apart(d, call[q])
        BY <1>00
      <3>2. call[q].pc = "append" => call[q].new # d.new
        BY <2>1, <3>1 DEF Apart, Drawing
      <3> QED BY <1>0, <2>1, <3>1, <3>2 DEF Shape, Fresh, Tables
    <2>4. DrawnInv'
      BY <1>0, <2>1, <2>2, <2>3, IdleDrawn, IdleIsRow, DrawnStep DEF Ends
    <2> QED BY <1>0, <2>1, <2>4 DEF Kept, LiveArtifactsHaveBlobs
  <1>3. CASE SelectThreads(p)
    <2>1. UNCHANGED <<message, artifact, blob, doubted, drawn>> /\ d.pc = "selectThreads"
      BY <1>3 DEF SelectThreads, spaces, files, begun, At, d
    <2>2. \E c \in CallRow : c.pc = "deleteRows" /\ Sets(p, c)
      <3> DEFINE F == {d.at} \union {t \in Threads : thread[t] # None /\ thread[t].channel = d.at}
                 c == [d EXCEPT !.pc = "deleteRows", !.found = F]
      <3>1. F \in SUBSET Ids
        BY <1>0, <2>1 DEF Shape, Ids, Streams
      <3>2. Sets(p, c)
        BY <1>3 DEF SelectThreads, d
      <3>3. c \in CallRow /\ c.pc = "deleteRows"
        <4> HIDE DEF F
        <4> QED BY <1>0, <3>1 DEF CallRow, Steps, Deletions
      <3> HIDE DEF c
      <3> QED BY <3>2, <3>3
    <2>3. RowsDrawn' /\ Undisturbed(p)
      BY <1>0, <2>1, SameDrawn DEF RowsDrawn, DrawnInv
    <2>4. DrawnInv'
      BY <2>1, <2>2, <2>3, StillKept
    <2> QED BY <1>0, <2>1, <2>4 DEF Kept, LiveArtifactsHaveBlobs
  <1>4. CASE DeleteRows(p)
    <2>1. /\ \A m \in Messages : message'[m] \in {message[m], None}
          /\ \A f \in Artifacts : \/ artifact'[f] = artifact[f]
                                  \/ artifact[f] # None /\ artifact'[f].status = "deleted"
          /\ Ends(p) /\ UNCHANGED <<blob, doubted, drawn>>
      BY <1>0, <1>4 DEF DeleteRows, Without, Tables, Artifact, begun
    <2>2. RowsDrawn'
      BY <1>0, <2>1 DEF RowsDrawn, DrawnInv
    <2>3. Undisturbed(p)
      BY <1>00, <2>1 DEF Undisturbed, Fresh, Shape
    <2>4. DrawnInv'
      BY <1>0, <2>1, <2>2, <2>3, IdleDrawn, IdleIsRow, DrawnStep DEF Ends
    <2>5. LiveArtifactsHaveBlobs'
      BY <1>0, <2>1 DEF LiveArtifactsHaveBlobs
    <2> QED BY <2>4, <2>5 DEF Kept
  <1>5. CASE Put(p)
    <2>1. /\ d.pc = "put" /\ d.new \in Artifacts /\ blob' = blob \union {d.new} /\ "insert" \in Steps
          /\ UNCHANGED <<message, artifact, doubted, drawn>>
      BY <1>0, <1>5 DEF Put, At, Shape, spaces, begun, Steps, d
    <2>2. PICK c \in CallRow : Sets(p, c) /\ c.pc = "insert" /\ c.new = d.new
      BY <1>5, <2>1, GoesOn DEF Put, d
    <2>3. RowsDrawn'
      BY <1>0, <2>1 DEF RowsDrawn, DrawnInv
    <2>4. Undisturbed(p)
      BY <1>00, <2>1 DEF Undisturbed, Fresh
    <2>5. Fresh(c)'
      BY <1>0, <2>1, <2>2 DEF Fresh, Drawing
    <2>6. ApartFrom(p, c)
      BY <1>0, <2>1, <2>2, KeepsApart DEF d
    <2>7. DrawnInv'
      BY <1>0, <2>1, <2>2, <2>3, <2>4, <2>5, <2>6, DrawnStep
    <2>8. LiveArtifactsHaveBlobs'
      BY <1>0, <2>1 DEF LiveArtifactsHaveBlobs
    <2> QED BY <2>7, <2>8 DEF Kept
  <1>6. CASE InsertArtifact(p)
    <2>1. /\ d.pc = "insert" /\ d.new \in Artifacts /\ d.new \in drawn /\ d.new \in blob
          /\ artifact' = [artifact EXCEPT ![d.new] = Artifact(d.at, "live")]
          /\ Ends(p) /\ UNCHANGED <<message, blob, doubted, drawn>>
      BY <1>0, <1>6 DEF InsertArtifact, At, Shape, Fresh, Drawing, spaces, begun, d
    <2>2. RowsDrawn'
      BY <1>0, <2>1 DEF RowsDrawn, DrawnInv, Tables
    <2>3. ASSUME NEW q \in Calls \ {p}, call[q].pc \in {"put", "insert"}  PROVE artifact'[call[q].new] = None
      <3>1. Shape(call[q]) /\ Fresh(call[q]) /\ Apart(d, call[q])
        BY <1>00
      <3>2. call[q].new # d.new /\ call[q].new \in Artifacts
        BY <2>1, <2>3, <3>1 DEF Apart, Drawing, Shape
      <3> QED BY <1>0, <2>1, <2>3, <3>1, <3>2 DEF Fresh, Tables
    <2>4. Undisturbed(p)
      BY <1>00, <2>1, <2>3 DEF Undisturbed, Fresh
    <2>5. DrawnInv'
      BY <1>0, <2>1, <2>2, <2>4, IdleDrawn, IdleIsRow, DrawnStep DEF Ends
    <2>6. LiveArtifactsHaveBlobs'
      BY <1>0, <2>1 DEF LiveArtifactsHaveBlobs, Tables
    <2> QED BY <2>5, <2>6 DEF Kept
  <1>7. CASE Cleanup(p)
    <2>1. /\ d.pc = "cleanup" /\ d.new \in Artifacts /\ Ends(p) /\ UNCHANGED <<message, artifact, drawn>>
          /\ \/ blob' = blob \ {d.new}
                /\ doubted' = IF artifact[d.new] # None THEN doubted \union {d.new} ELSE doubted
             \/ UNCHANGED <<blob, doubted>>
      BY <1>0, <1>7 DEF Cleanup, At, Shape, spaces, begun, d
    <2>2. RowsDrawn'
      BY <1>0, <2>1 DEF RowsDrawn, DrawnInv
    <2>3. ASSUME NEW q \in Calls \ {p}, call[q].pc = "insert"  PROVE call[q].new \in blob'
      <3>1. Fresh(call[q]) /\ Apart(d, call[q])
        BY <1>00
      <3>2. call[q].new # d.new
        BY <2>1, <2>3, <3>1 DEF Apart, Drawing
      <3> QED BY <2>1, <2>3, <3>1, <3>2 DEF Fresh
    <2>4. Undisturbed(p)
      BY <1>00, <2>1, <2>3 DEF Undisturbed, Fresh
    <2>5. DrawnInv'
      BY <1>0, <2>1, <2>2, <2>4, IdleDrawn, IdleIsRow, DrawnStep DEF Ends
    <2>6. LiveArtifactsHaveBlobs'
      BY <1>0, <2>1 DEF LiveArtifactsHaveBlobs
    <2> QED BY <2>5, <2>6 DEF Kept
  <1>8. CASE DeleteArtifact(p)
    <2>1. /\ d.new \in Artifacts
          /\ artifact' = [artifact EXCEPT ![d.new] = IF @ = None THEN None ELSE Artifact(@.stream, "deleted")]
          /\ Ends(p) /\ UNCHANGED <<message, blob, doubted, drawn>>
      BY <1>0, <1>8 DEF DeleteArtifact, At, Shape, spaces, begun, d
    <2>2. \A f \in Artifacts : \/ artifact'[f] = artifact[f]
                               \/ artifact[f] # None /\ artifact'[f].status = "deleted"
      BY <1>0, <2>1 DEF Tables, Artifact
    <2>3. RowsDrawn'
      BY <1>0, <2>1, <2>2 DEF RowsDrawn, DrawnInv
    <2>4. Undisturbed(p)
      BY <1>00, <2>1, <2>2 DEF Undisturbed, Fresh, Shape
    <2>5. DrawnInv'
      BY <1>0, <2>1, <2>3, <2>4, IdleDrawn, IdleIsRow, DrawnStep DEF Ends
    <2>6. LiveArtifactsHaveBlobs'
      BY <1>0, <2>1, <2>2 DEF LiveArtifactsHaveBlobs
    <2> QED BY <2>5, <2>6 DEF Kept
  <1>9. CASE DeleteBlobs(p)
    <2>1. PICK gone \in SUBSET (d.found \intersect Artifacts) :
             blob' = blob \ gone /\ doubted' = doubted \union {f \in gone : artifact[f] # None}
      BY <1>9 DEF DeleteBlobs, d
    <2>2. d.pc = "deleteBlobs" /\ UNCHANGED <<message, artifact, drawn>> /\ "deleteOrg" \in Steps
      BY <1>9 DEF DeleteBlobs, At, d, spaces, begun, Steps, Deletions
    <2>3. \E c \in CallRow : Sets(p, c) /\ c.pc = "deleteOrg"
      BY <1>9, <2>2, GoesOn DEF DeleteBlobs, d
    <2>4. RowsDrawn'
      BY <1>0, <2>2 DEF RowsDrawn, DrawnInv
    <2>5. ASSUME NEW q \in Calls \ {p}, call[q].pc = "insert"  PROVE call[q].new \in blob'
      BY <1>00, <2>1, <2>2, <2>5 DEF Fresh, Apart
    <2>6. Undisturbed(p)
      BY <1>00, <2>2, <2>5 DEF Undisturbed, Fresh
    <2>7. DrawnInv'
      BY <2>2, <2>3, <2>4, <2>6, StillKept
    <2>8. LiveArtifactsHaveBlobs'
      BY <1>0, <2>1, <2>2 DEF LiveArtifactsHaveBlobs
    <2> QED BY <2>7, <2>8 DEF Kept
  <1>10. CASE DeleteOrg(p)
    <2>1. /\ \A m \in Messages : message'[m] = None
          /\ \A f \in Artifacts : artifact'[f] = None
          /\ Ends(p) /\ UNCHANGED <<blob, doubted, drawn>>
      BY <1>10 DEF DeleteOrg, begun
    <2>2. RowsDrawn' /\ LiveArtifactsHaveBlobs'
      BY <2>1 DEF RowsDrawn, LiveArtifactsHaveBlobs
    <2>3. Undisturbed(p)
      BY <1>00, <2>1 DEF Undisturbed, Fresh, Shape
    <2>4. DrawnInv'
      BY <1>0, <2>1, <2>2, <2>3, IdleDrawn, IdleIsRow, DrawnStep DEF Ends
    <2> QED BY <2>2, <2>4 DEF Kept
  <1> QED BY <1>1, <1>2, <1>3, <1>4, <1>5, <1>6, <1>7, <1>8, <1>9, <1>10 DEF Proceed

LEMMA FaultKept ==
  ASSUME Shapely, Kept, NEW p \in Calls, Fails(p) \/ LosesAnswer(p)
  PROVE  Kept'
  <1> DEFINE d == call[p]
  <1>0. Shape(d) /\ Fresh(d) /\ Tables /\ DrawnInv /\ LiveArtifactsHaveBlobs
    BY TypesAre DEF Shapely, Kept, DrawnInv
  <1>1. PICK c \in CallRow : /\ Shape(c) /\ Sets(p, c)
                             /\ IF d.pc = "insert" THEN c.pc = "cleanup" /\ c.new = d.new ELSE c = Idle
    BY OutcomeIs DEF Fails, LosesAnswer
  <1> HIDE DEF d
  <1>2. ApartFrom(p, c)
    <2>1. CASE d.pc = "insert"
      BY <1>0, <1>1, <2>1, KeepsApart DEF d
    <2>2. CASE d.pc # "insert"
      BY <1>1, <2>2, IdleDrawn
    <2> QED BY <2>1, <2>2
  <1>3. UNCHANGED <<message, blob, doubted, drawn>>
    BY DEF Fails, LosesAnswer, spaces, files, begun
  <1>4. Fresh(c)'
    <2>1. CASE d.pc = "insert"
      BY <1>0, <1>1, <1>3, <2>1 DEF Fresh, Drawing
    <2>2. CASE d.pc # "insert"
      BY <1>1, <2>2, IdleDrawn
    <2> QED BY <2>1, <2>2
  <1>5. CASE UNCHANGED artifact
    <2>1. RowsDrawn' /\ Undisturbed(p)
      BY <1>0, <1>3, <1>5, SameDrawn DEF RowsDrawn, DrawnInv
    <2>2. DrawnInv'
      BY <1>0, <1>1, <1>2, <1>3, <1>4, <2>1, DrawnStep
    <2> QED BY <1>0, <1>3, <1>5, <2>2 DEF Kept, LiveArtifactsHaveBlobs
  <1>6. CASE LosesAnswer(p)
    <2>1. /\ d.pc = "insert" /\ d.new \in Artifacts /\ d.new \in drawn /\ d.new \in blob
          /\ artifact' = [artifact EXCEPT ![d.new] = Artifact(d.at, "live")]
      BY <1>0, <1>6 DEF LosesAnswer, At, Shape, Fresh, Drawing, d
    <2>2. RowsDrawn'
      BY <1>0, <1>3, <2>1 DEF RowsDrawn, DrawnInv, Tables
    <2>3. ASSUME NEW q \in Calls \ {p}, call[q].pc \in {"put", "insert"}  PROVE artifact'[call[q].new] = None
      <3>1. Shape(call[q]) /\ Fresh(call[q]) /\ Apart(d, call[q])
        BY DEF Shapely, Kept, DrawnInv, d
      <3>2. call[q].new # d.new /\ call[q].new \in Artifacts
        BY <2>1, <2>3, <3>1 DEF Apart, Drawing, Shape
      <3> QED BY <1>0, <2>1, <2>3, <3>1, <3>2 DEF Fresh, Tables
    <2>4. \A q \in Calls \ {p} : Fresh(call[q])
      BY <1>0 DEF DrawnInv
    <2>5. Undisturbed(p)
      BY <1>3, <2>3, <2>4 DEF Undisturbed, Fresh
    <2>6. DrawnInv'
      BY <1>0, <1>1, <1>2, <1>3, <1>4, <2>2, <2>5, DrawnStep
    <2>7. LiveArtifactsHaveBlobs'
      BY <1>0, <1>3, <2>1 DEF LiveArtifactsHaveBlobs, Tables
    <2> QED BY <2>6, <2>7 DEF Kept
  <1> QED BY <1>5, <1>6 DEF Fails, files

LEMMA KeptStep == Shapely /\ Kept /\ [Next]_vars => Kept'
  <1> SUFFICES ASSUME Shapely, Kept, [Next]_vars  PROVE Kept'
    OBVIOUS
  <1>1. CASE Crash
    <2>1. call' = [p \in Calls |-> Idle] /\ UNCHANGED <<message, artifact, blob, doubted, drawn>>
      BY <1>1 DEF Crash, spaces, files, begun
    <2>2. \A p \in Calls : Fresh(Idle)' /\ call'[p] = Idle
      BY <2>1, IdleDrawn
    <2>3. \A p \in Calls : Fresh(call[p])'
      BY <2>2 DEF Fresh
    <2>4. \A p, q \in Calls : Apart(call'[p], call'[q])
      BY <2>2, IdleIsRow DEF Apart, Drawing
    <2>5. DrawnInv'
      BY <2>1, <2>3, <2>4 DEF Kept, DrawnInv
    <2> QED BY <2>1, <2>5 DEF Kept, LiveArtifactsHaveBlobs
  <1>2. CASE UNCHANGED vars
    <2>1. UNCHANGED <<message, artifact, blob, doubted, drawn, call>>
      BY <1>2 DEF vars, spaces, files, begun
    <2> QED BY <2>1 DEF Kept, DrawnInv, Fresh, LiveArtifactsHaveBlobs
  <1> QED BY <1>1, <1>2, BeginKept, ProceedKept, FaultKept DEF Next

\* registerArtifact, deleteArtifact, deleteChannel, deleteOrg: the bytes of a
\* live artifact are there, whatever fails in between, but for the two cases.
THEOREM BytesAreKept == Spec => []LiveArtifactsHaveBlobs
  <1>1. Init => Shapely /\ Kept
    BY ShapelyInit, DrawnInit DEF Kept
  <1>2. Shapely /\ Kept /\ [Next]_vars => (Shapely /\ Kept)'
    BY ShapelyStep, KeptStep
  <1>3. Spec => [](Shapely /\ Kept)
    BY <1>1, <1>2, PTL DEF Spec
  <1>4. Shapely /\ Kept => LiveArtifactsHaveBlobs
    BY DEF Kept
  <1> QED BY <1>3, <1>4, PTL

(***************************************************************************)
(* Deletions, when nothing overlaps with them.                             *)
(***************************************************************************)
\* What is there stays, as long as nobody deletes.
Grows ==
    /\ actor \subseteq actor'
    /\ \A s \in Streams : Found(s) => Found(s)'
    /\ \A m \in Messages : message[m] # None => message'[m] = message[m]

LEMMA FoundIs ==
  /\ \A c \in Channels : Found(c) <=> channel[c] # None
  /\ \A t \in Threads : Found(t) <=> thread[t] # None
  BY SpacesAssumption DEF Found

LEMMA FoundNext ==
  /\ \A c \in Channels : Found(c)' <=> channel'[c] # None
  /\ \A t \in Threads : Found(t)' <=> thread'[t] # None
  BY SpacesAssumption DEF Found

LEMMA CheckedStays ==
  ASSUME NEW c \in CallRow, Shape(c), Checked(c), Grows, c.pc \notin Deletions
  PROVE  Checked(c)'
  <1>1. c.pc \in {"addMember", "createThread"} => channel'[c.at] # None
    <2>1. \A x \in Channels : channel[x] # None => channel'[x] # None
      BY FoundIs, FoundNext DEF Grows, Streams
    <2> QED BY <2>1 DEF Shape, Checked
  <1>2. c.pc = "createThread" => \A m \in c.found : message'[m] = c.at
    BY SpacesAssumption DEF Shape, Checked, Grows
  <1>3. c.pc \in {"append", "put", "insert"} => Found(c.at)'
    BY DEF Shape, Checked, Grows
  <1> QED BY <1>1, <1>2, <1>3 DEF Checked, Deletions, Grows

LEMMA OrderStep ==
  ASSUME Shapely, OrderInv, NEW p \in Calls, NEW c \in CallRow, Sets(p, c), overlap' = overlap,
         call[p].pc # "idle", c.pc \in Deletions => call[p].pc \in Deletions,
         call[p].pc \in Deletions \/ Grows,
         ~overlap => Checked(c)' /\ RowsHold'
  PROVE  OrderInv'
  <1> SUFFICES ASSUME ~overlap  PROVE Alone' /\ RowsHold' /\ \A q \in Calls : Checked(call[q])'
    BY DEF OrderInv
  <1>1. call'[p] = c /\ \A q \in Calls \ {p} : call'[q] = call[q]
    BY RowsAre
  <1>2. Alone /\ RowsHold /\ \A q \in Calls : Checked(call[q])
    BY DEF OrderInv
  <1>3. Alone'
    BY <1>1, <1>2 DEF Alone
  <1>4. ASSUME NEW q \in Calls \ {p}  PROVE Checked(call[q])'
    <2>1. call'[q] = call[q] /\ call[q] \in CallRow /\ Shape(call[q]) /\ Checked(call[q])
      BY <1>1, <1>2 DEF Shapely, TypeOK
    <2>2. CASE call[p].pc \in Deletions
      <3>1. call[q].pc = "idle"
        BY <1>2, <2>2 DEF Alone
      <3> QED BY <2>1, <3>1 DEF Checked
    <2>3. CASE call[p].pc \notin Deletions
      <3>1. call[q].pc \notin Deletions /\ Grows
        BY <1>2, <2>3 DEF Alone
      <3>2. PICK e \in CallRow : e = call[q]
        BY <2>1
      <3>3. Checked(e)'
        BY <2>1, <3>1, <3>2, CheckedStays
      <3> QED BY <2>1, <3>2, <3>3 DEF Checked
    <2> QED BY <2>2, <2>3
  <1>5. Checked(call[p])'
    BY <1>1 DEF Checked
  <1> QED BY <1>3, <1>4, <1>5

LEMMA IdleChecked == Checked(Idle)'
  BY IdleIsRow DEF Checked

LEMMA EndOrder ==
  ASSUME Shapely, OrderInv, NEW p \in Calls, Ends(p), overlap' = overlap, call[p].pc # "idle",
         call[p].pc \in Deletions \/ Grows, ~overlap => RowsHold'
  PROVE  OrderInv'
  <1>1. Idle.pc \notin Deletions
    BY IdleIsRow DEF Deletions
  <1> QED BY <1>1, IdleIsRow, IdleChecked, OrderStep DEF Ends

\* Rows that stay as they are.
LEMMA RowsStay ==
  ASSUME UNCHANGED <<org, people, spaces, artifact>>
  PROVE  Grows /\ (RowsHold => RowsHold') /\ \A c : Checked(c) => Checked(c)'
  <1>1. UNCHANGED <<org, actor, personal, channel, thread, message, counter, member, artifact>>
    BY DEF people, spaces
  <1>2. \A s : Found(s)' <=> Found(s)
    BY <1>1 DEF Found
  <1>3. Grows
    BY <1>1, <1>2 DEF Grows
  <1>4. RowsHold => RowsHold'
    BY <1>1, <1>2 DEF RowsHold, ThreadHolds, MessageHolds, MemberHolds, ArtifactHolds, GoneHolds
  <1>5. \A c : Checked(c) => Checked(c)'
    BY <1>1, <1>2 DEF Checked, Lists
  <1> QED BY <1>3, <1>4, <1>5

LEMMA OrderInit == Init => OrderInv
  <1> SUFFICES ASSUME Init  PROVE OrderInv
    OBVIOUS
  <1>1. \A p \in Calls : call[p].pc = "idle"
    BY IdleIsRow DEF Init
  <1>2. Alone /\ \A p \in Calls : Checked(call[p])
    BY <1>1 DEF Alone, Checked, Deletions
  <1>3. RowsHold
    BY DEF Init, RowsHold, ThreadHolds, MessageHolds, MemberHolds, ArtifactHolds, GoneHolds
  <1> QED BY <1>2, <1>3 DEF OrderInv

LEMMA BeginOrder ==
  ASSUME Shapely, OrderInv, NEW p \in Calls, NEW a \in Actors, Begin(p, a)
  PROVE  OrderInv'
  <1>1. PICK c : BeginsWith(p, c)
    BY BeginIs
  <1>2. /\ c \in CallRow /\ Checked(c) /\ Sets(p, c) /\ UNCHANGED <<org, people, spaces, files>>
        /\ call[p].pc = "idle"
        /\ overlap' = (overlap \/ \E q \in Calls \ {p} :
                          call[q].pc # "idle" /\ {c.pc, call[q].pc} \intersect Deletions # {})
    BY <1>1 DEF BeginsWith, Begins
  <1> SUFFICES ASSUME ~overlap'  PROVE (Alone /\ RowsHold /\ \A q \in Calls : Checked(call[q]))'
    BY DEF OrderInv
  <1>3. ~overlap /\ \A q \in Calls \ {p} :
           call[q].pc # "idle" => c.pc \notin Deletions /\ call[q].pc \notin Deletions
    BY <1>2
  <1>4. Alone /\ RowsHold /\ \A q \in Calls : Checked(call[q])
    BY <1>3 DEF OrderInv
  <1>5. call'[p] = c /\ \A q \in Calls \ {p} : call'[q] = call[q]
    BY <1>2, RowsAre
  <1>6. Alone'
    BY <1>3, <1>4, <1>5 DEF Alone, Deletions
  <1>7. UNCHANGED <<org, people, spaces, artifact>>
    BY <1>2 DEF files
  <1>8. ASSUME NEW q \in Calls  PROVE Checked(call[q])'
    <2>1. PICK e : e = call'[q]
      OBVIOUS
    <2>2. Checked(e)
      BY <1>2, <1>4, <1>5, <2>1
    <2>3. Checked(e)'
      BY <1>7, <2>2, RowsStay
    <2> QED BY <2>1, <2>3 DEF Checked
  <1> QED BY <1>4, <1>6, <1>7, <1>8, RowsStay

\* An actor that is there has an organization.
LEMMA HasOrg ==
  ASSUME RowsHold, NEW a \in actor
  PROVE  org
  BY DEF RowsHold, GoneHolds

(***************************************************************************)
(* Two transactions on their own: the deletion of a channel's rows, and    *)
(* the row of an artifact.                                                 *)
(***************************************************************************)
LEMMA RowsAreTyped ==
  ASSUME Tables
  PROVE  /\ \A t \in Threads : thread[t] # None => /\ thread[t].channel \in Channels
                                                   /\ thread[t].parent \in Messages
         /\ \A m \in Messages : message[m] # None => message[m] \in Streams
         /\ \A f \in Artifacts : artifact[f] # None => artifact[f].stream \in Streams
  BY DEF Tables, ThreadRow, ArtifactRow

LEMMA RowsDeleted ==
  ASSUME Tables, RowsHold, NEW p \in Calls, NEW c, call[p] = c, c.at \in Channels, c.found = Lists(c), DeleteRows(p)
  PROVE  RowsHold'
  <1>1. /\ \A m \in Messages : message'[m] = IF message[m] # None /\ message[m] \in c.found THEN None ELSE message[m]
        /\ \A t \in Threads : thread'[t] = IF thread[t] # None /\ thread[t].channel = c.at THEN None ELSE thread[t]
        /\ \A f \in Artifacts : artifact'[f] = IF artifact[f] # None /\ artifact[f].stream \in c.found
                                               THEN Artifact(artifact[f].stream, "deleted") ELSE artifact[f]
    BY DEF DeleteRows, Without, Tables
  <1>2. /\ \A x \in Channels : channel'[x] = IF x = c.at THEN None ELSE channel[x]
        /\ member' = {m \in member : m[2] # c.at} /\ counter' = counter \ c.found
        /\ UNCHANGED <<org, actor, personal>>
    BY DEF DeleteRows, Tables, people
  <1>3. ASSUME NEW s \in Streams, Found(s), s \notin c.found  PROVE Found(s)'
    BY <1>1, <1>2, <1>3, FoundIs, FoundNext DEF Lists, Streams
  <1>4. \A t \in Threads : ThreadHolds(t)'
    <2> SUFFICES ASSUME NEW t \in Threads, thread'[t] # None
                 PROVE  channel'[thread'[t].channel] # None /\ message'[thread'[t].parent] = thread'[t].channel
      BY DEF ThreadHolds
    <2>1. thread'[t] = thread[t] /\ thread[t] # None /\ thread[t].channel # c.at
      BY <1>1
    <2>2. thread[t].channel \in Channels /\ thread[t].parent \in Messages /\ ThreadHolds(t)
      BY <2>1, RowsAreTyped DEF RowsHold
    <2>3. thread[t].channel \notin c.found
      BY <2>1, <2>2, SpacesAssumption DEF Lists
    <2> QED BY <1>1, <1>2, <2>1, <2>2, <2>3 DEF ThreadHolds
  <1>5. \A m \in Messages : MessageHolds(m)'
    BY <1>1, <1>2, <1>3, RowsAreTyped DEF RowsHold, MessageHolds
  <1>6. \A s \in counter' : Found(s)'
    BY <1>2, <1>3 DEF RowsHold, Tables
  <1>7. \A m \in member' : MemberHolds(m)'
    BY <1>2 DEF RowsHold, MemberHolds, Tables
  <1>8. \A f \in Artifacts : ArtifactHolds(f)'
    <2> SUFFICES ASSUME NEW f \in Artifacts, artifact'[f] # None
                 PROVE  org' /\ (artifact'[f].status = "live" => Found(artifact[f].stream)')
      BY DEF ArtifactHolds
    <2>1. artifact[f] # None
      BY <1>1
    <2>2. org' /\ ArtifactHolds(f) /\ artifact[f].stream \in Streams
      BY <1>2, <2>1, RowsAreTyped DEF RowsHold, ArtifactHolds
    <2>3. CASE artifact[f].stream \in c.found
      <3>1. artifact'[f] = Artifact(artifact[f].stream, "deleted")
        BY <1>1, <2>1, <2>3
      <3>2. artifact'[f].status = "deleted"
        BY <3>1 DEF Artifact
      <3> QED BY <2>2, <3>2
    <2>4. CASE artifact[f].stream \notin c.found
      <3>1. artifact'[f] = artifact[f]
        BY <1>1, <2>4
      <3>2. artifact[f].status = "live" => Found(artifact[f].stream)
        BY <2>1, <2>2 DEF ArtifactHolds
      <3>3. PICK s \in Streams : s = artifact[f].stream
        BY <2>2
      <3>4. Found(s) => Found(s)'
        BY <1>3, <2>4, <3>3
      <3>5. Found(artifact[f].stream)' <=> Found(s)'
        BY <3>1, <3>3 DEF Found
      <3> QED BY <2>2, <3>1, <3>2, <3>3, <3>4, <3>5
    <2> QED BY <2>3, <2>4
  <1>9. GoneHolds'
    BY <1>2 DEF RowsHold, GoneHolds
  <1> QED BY <1>4, <1>5, <1>6, <1>7, <1>8, <1>9 DEF RowsHold

LEMMA ArtifactInserted ==
  ASSUME Tables, NEW p \in Calls, NEW c, call[p] = c, c.pc = "insert", c.at \in Streams, c.new \in Artifacts,
         artifact' = [artifact EXCEPT ![c.new] = Artifact(c.at, "live")], UNCHANGED <<org, people, spaces>>
  PROVE  Grows /\ (RowsHold /\ Checked(c) => RowsHold')
  <1>1. UNCHANGED <<org, actor, personal, channel, thread, message, counter, member>>
    BY DEF people, spaces
  <1>2. \A s : Found(s)' <=> Found(s)
    BY <1>1 DEF Found
  <1>3. Grows
    BY <1>1, <1>2 DEF Grows
  <1>4. ASSUME RowsHold, Checked(c)  PROVE RowsHold'
    <2>1. org /\ Found(c.at)
      BY <1>4, HasOrg DEF Checked
    <2>2. \A f \in Artifacts : artifact'[f] = IF f = c.new THEN Artifact(c.at, "live") ELSE artifact[f]
      BY DEF Tables
    <2>3. \A f \in Artifacts : ArtifactHolds(f)'
      BY <1>1, <1>2, <1>4, <2>1, <2>2 DEF RowsHold, ArtifactHolds, Artifact
    <2> QED BY <1>1, <1>2, <1>4, <2>3 DEF RowsHold, ThreadHolds, MessageHolds, MemberHolds, GoneHolds
  <1> QED BY <1>3, <1>4

LEMMA ProceedOrder ==
  ASSUME Shapely, DrawnInv, OrderInv, NEW p \in Calls, Proceed(p)
  PROVE  OrderInv'
  <1> DEFINE d == call[p]
  <1>0. d \in CallRow /\ Shape(d) /\ Fresh(d) /\ Tables
    BY TypesAre DEF Shapely, DrawnInv
  <1>00. ~overlap => Alone /\ RowsHold /\ Checked(d)
    BY DEF OrderInv
  <1>000. overlap' = overlap /\ d.pc # "idle"
    BY DEF Proceed, CreateActor, Personal, CreateChannel, AddMember, RemoveMember, CreateThread,
          AppendRow, SelectThreads, DeleteRows, Put, InsertArtifact, Cleanup, DeleteArtifact, DeleteBlobs,
          DeleteOrg, begun, At
  <1>d. call[p] = d
    OBVIOUS
  <1> HIDE DEF d
  <1> USE <1>d
  <1>1. CASE CreateActor(p)
    <2>1. /\ d.new \in Actors /\ actor' = actor \union {d.new} /\ org /\ Ends(p)
          /\ UNCHANGED <<org, personal, channel, thread, message, counter, member, artifact>>
      BY <1>0, <1>1 DEF CreateActor, At, Shape, spaces, files
    <2>2. \A s : Found(s)' <=> Found(s)
      BY <2>1 DEF Found
    <2>3. Grows
      BY <2>1, <2>2 DEF Grows
    <2>4. RowsHold => RowsHold'
      BY <2>1, <2>2 DEF RowsHold, ThreadHolds, MessageHolds, MemberHolds, ArtifactHolds, GoneHolds
    <2> QED BY <1>00, <1>000, <2>1, <2>3, <2>4, EndOrder
  <1>2. CASE Personal(p)
    <2>1. /\ d.pc = "personal" /\ Ends(p)
          /\ UNCHANGED <<org, actor, channel, thread, message, counter, member, artifact>>
      BY <1>2 DEF Personal, At, spaces, files
    <2>2. \A s : Found(s)' <=> Found(s)
      BY <2>1 DEF Found
    <2>3. Grows
      BY <2>1, <2>2 DEF Grows
    <2>4. ASSUME ~overlap  PROVE RowsHold'
      <3>1. org
        BY <1>00, <2>1, <2>4, HasOrg DEF Checked
      <3> QED BY <1>00, <2>1, <2>2, <2>4, <3>1
            DEF RowsHold, ThreadHolds, MessageHolds, MemberHolds, ArtifactHolds, GoneHolds
    <2> QED BY <1>000, <2>1, <2>3, <2>4, EndOrder
  <1>3. CASE CreateChannel(p)
    <2>1. /\ d.pc = "createChannel" /\ d.new \in Channels /\ d.by \in Actors /\ d.vis # None
          /\ channel' = [channel EXCEPT ![d.new] = d.vis] /\ member' = member \union {<<d.by, d.new>>}
          /\ Ends(p) /\ UNCHANGED <<org, actor, personal, thread, message, counter, artifact>>
      BY <1>0, <1>3, NoneAssumption DEF CreateChannel, At, Shape, CallRow, people, files
    <2>2. \A x \in Channels : channel[x] # None => channel'[x] # None
      BY <1>0, <2>1 DEF Tables
    <2>3. channel'[d.new] # None
      BY <1>0, <2>1 DEF Tables
    <2>4. \A s \in Streams : Found(s) => Found(s)'
      BY <2>1, <2>2, FoundIs, FoundNext DEF Streams
    <2>5. Grows
      BY <2>1, <2>4 DEF Grows
    <2>6. ASSUME ~overlap  PROVE RowsHold'
      <3>1. org /\ d.by \in actor /\ RowsHold
        BY <1>00, <2>1, <2>6, HasOrg DEF Checked
      <3>2. \A t \in Threads : ThreadHolds(t)'
        BY <1>0, <2>1, <2>2, <3>1, RowsAreTyped DEF RowsHold, ThreadHolds
      <3>3. \A m \in Messages : MessageHolds(m)'
        BY <1>0, <2>1, <2>4, <3>1, SpacesAssumption DEF RowsHold, MessageHolds, Tables
      <3>4. \A s \in counter' : Found(s)'
        BY <1>0, <2>1, <2>4, <3>1 DEF RowsHold, Tables
      <3>5. \A m \in member' : MemberHolds(m)'
        BY <1>0, <2>1, <2>2, <2>3, <3>1 DEF RowsHold, MemberHolds, Tables
      <3>6. \A f \in Artifacts : ArtifactHolds(f)'
        <4>1. \A f \in Artifacts : artifact[f] # None => artifact[f].stream \in Streams
          BY <1>0, RowsAreTyped
        <4> QED BY <2>1, <2>4, <3>1, <4>1 DEF RowsHold, ArtifactHolds
      <3> QED BY <2>1, <3>1, <3>2, <3>3, <3>4, <3>5, <3>6 DEF RowsHold, GoneHolds
    <2> QED BY <1>000, <2>1, <2>5, <2>6, EndOrder
  <1>4. CASE AddMember(p) \/ RemoveMember(p)
    <2>1. /\ d.at \in Channels /\ d.new \in Actors
          /\ \/ d.pc = "addMember" /\ member' = member \union {<<d.new, d.at>>}
             \/ member' = member \ {<<d.new, d.at>>}
          /\ Ends(p) /\ UNCHANGED <<org, actor, personal, channel, thread, message, counter, artifact>>
      BY <1>0, <1>4 DEF AddMember, RemoveMember, At, Shape, people, files
    <2>2. \A s : Found(s)' <=> Found(s)
      BY <2>1 DEF Found
    <2>3. Grows
      BY <2>1, <2>2 DEF Grows
    <2>4. ASSUME ~overlap  PROVE RowsHold'
      <3>1. \A m \in member' : MemberHolds(m)'
        BY <1>00, <2>1, <2>4 DEF Checked, RowsHold, MemberHolds
      <3> QED BY <1>00, <2>1, <2>2, <2>4, <3>1
            DEF RowsHold, ThreadHolds, MessageHolds, ArtifactHolds, GoneHolds
    <2> QED BY <1>000, <2>1, <2>3, <2>4, EndOrder
  <1>5. CASE CreateThread(p)
    <2>1. PICK m \in d.found : thread' = [thread EXCEPT ![d.new] = Thread(d.at, m, d.vis)]
      BY <1>5 DEF CreateThread
    <2>2. /\ d.pc = "createThread" /\ d.at \in Channels /\ d.new \in Threads /\ m \in Messages
          /\ Ends(p) /\ UNCHANGED <<org, actor, personal, channel, message, counter, member, artifact>>
      BY <1>0, <1>5 DEF CreateThread, At, Shape, people, files
    <2>3. PICK row : row = Thread(d.at, m, d.vis)
      OBVIOUS
    <2>4. row.channel = d.at /\ row.parent = m /\ row # None
      <3>1. row \in ThreadRow
        BY <1>0, <2>2, <2>3 DEF Thread, ThreadRow, CallRow
      <3>2. row.channel = d.at /\ row.parent = m
        BY <2>3 DEF Thread
      <3> QED BY <3>1, <3>2, NoneAssumption
    <2>5. \A t \in Threads : thread'[t] = IF t = d.new THEN row ELSE thread[t]
      BY <1>0, <2>1, <2>2, <2>3 DEF Tables
    <2>6. \A s \in Streams : Found(s) => Found(s)'
      BY <2>2, <2>4, <2>5, FoundIs, FoundNext DEF Streams
    <2>7. Grows
      BY <2>2, <2>6 DEF Grows
    <2>8. ASSUME ~overlap  PROVE RowsHold'
      <3>1. channel[d.at] # None /\ message[m] = d.at /\ RowsHold
        BY <1>00, <2>1, <2>2, <2>8 DEF Checked
      <3>2. \A t \in Threads : ThreadHolds(t)'
        BY <2>2, <2>4, <2>5, <3>1 DEF RowsHold, ThreadHolds
      <3>3. \A x \in Messages : MessageHolds(x)'
        BY <1>0, <2>2, <2>6, <3>1 DEF RowsHold, MessageHolds, Tables
      <3>4. \A s \in counter' : Found(s)'
        BY <1>0, <2>2, <2>6, <3>1 DEF RowsHold, Tables
      <3>5. \A f \in Artifacts : ArtifactHolds(f)'
        <4>1. \A f \in Artifacts : artifact[f] # None => artifact[f].stream \in Streams
          BY <1>0, RowsAreTyped
        <4> QED BY <2>2, <2>6, <3>1, <4>1 DEF RowsHold, ArtifactHolds
      <3> QED BY <2>2, <3>1, <3>2, <3>3, <3>4, <3>5 DEF RowsHold, MemberHolds, GoneHolds
    <2> QED BY <1>000, <2>2, <2>7, <2>8, EndOrder
  <1>6. CASE AppendRow(p)
    <2>1. /\ d.pc = "append" /\ d.at \in Streams /\ d.new \in Messages /\ message[d.new] = None
          /\ message' = [message EXCEPT ![d.new] = d.at] /\ counter' = counter \union {d.at}
          /\ Ends(p) /\ UNCHANGED <<org, actor, personal, channel, thread, member, artifact>>
      BY <1>0, <1>6 DEF AppendRow, At, Shape, Fresh, people, files
    <2>2. \A s : Found(s)' <=> Found(s)
      BY <2>1 DEF Found
    <2>3. \A m \in Messages : message'[m] = IF m = d.new THEN d.at ELSE message[m]
      BY <1>0, <2>1 DEF Tables
    <2>4. Grows
      BY <2>1, <2>2, <2>3 DEF Grows
    <2>5. ASSUME ~overlap  PROVE RowsHold'
      <3>1. Found(d.at) /\ RowsHold
        BY <1>00, <2>1, <2>5 DEF Checked
      <3>2. \A m \in Messages : MessageHolds(m)'
        BY <2>1, <2>2, <2>3, <3>1 DEF RowsHold, MessageHolds
      <3>3. \A t \in Threads : ThreadHolds(t)'
        <4>1. \A t \in Threads : thread[t] # None => thread[t].parent \in Messages /\ thread[t].channel # None
          BY <1>0, RowsAreTyped, SpacesAssumption
        <4> QED BY <2>1, <2>3, <3>1, <4>1 DEF RowsHold, ThreadHolds
      <3> QED BY <2>1, <2>2, <3>1, <3>2, <3>3 DEF RowsHold, MemberHolds, ArtifactHolds, GoneHolds
    <2> QED BY <1>000, <2>1, <2>4, <2>5, EndOrder
  <1>7. CASE SelectThreads(p)
    <2> DEFINE c == [d EXCEPT !.pc = "deleteRows", !.found = Lists(d)]
    <2>1. d.pc = "selectThreads" /\ Sets(p, c) /\ UNCHANGED <<org, people, spaces, artifact>>
      BY <1>7 DEF SelectThreads, At, files, Lists
    <2>2. Lists(d) \in SUBSET Ids
      BY <1>0, <2>1 DEF Lists, Shape, Ids, Streams
    <2>3. c \in CallRow /\ c.pc = "deleteRows" /\ c.at = d.at /\ c.by = d.by /\ c.found = Lists(d)
      BY <1>0, <2>2 DEF CallRow, Steps, Deletions
    <2> HIDE DEF c
    <2>4. Lists(c) = Lists(d)
      BY <2>3 DEF Lists
    <2>5. ASSUME ~overlap  PROVE Checked(c)
      BY <1>00, <2>1, <2>3, <2>4, <2>5 DEF Checked
    <2>6. d.pc \in Deletions
      BY <2>1 DEF Deletions
    <2> QED BY <1>00, <1>000, <2>1, <2>3, <2>5, <2>6, RowsStay, OrderStep
  <1>8. CASE DeleteRows(p)
    <2>1. d.pc = "deleteRows" /\ d.pc \in Deletions /\ Ends(p) /\ d.at \in Channels
      BY <1>0, <1>8 DEF DeleteRows, At, Deletions, Shape
    <2>2. ~overlap => RowsHold /\ d.found = Lists(d)
      BY <1>00, <2>1 DEF Checked
    <2>3. ~overlap => RowsHold'
      BY <1>0, <1>8, <2>1, <2>2, RowsDeleted
    <2> QED BY <1>000, <2>1, <2>3, EndOrder
  <1>9. CASE Put(p)
    <2>1. d.pc = "put" /\ "insert" \in Steps /\ UNCHANGED <<org, people, spaces, artifact>>
      BY <1>9 DEF Put, At, Steps
    <2>2. PICK c \in CallRow : Sets(p, c) /\ c.pc = "insert" /\ c.by = d.by /\ c.at = d.at
      BY <1>9, <2>1, GoesOn DEF Put
    <2>3. ~overlap => Checked(c)
      BY <1>00, <2>1, <2>2 DEF Checked
    <2>4. c.pc \notin Deletions
      BY <2>2 DEF Deletions
    <2> QED BY <1>00, <1>000, <2>1, <2>2, <2>3, <2>4, RowsStay, OrderStep
  <1>10. CASE InsertArtifact(p)
    <2>1. /\ d.pc = "insert" /\ d.at \in Streams /\ d.new \in Artifacts /\ Ends(p)
          /\ artifact' = [artifact EXCEPT ![d.new] = Artifact(d.at, "live")] /\ UNCHANGED <<org, people, spaces>>
      BY <1>0, <1>10 DEF InsertArtifact, At, Shape
    <2>2. Grows /\ (RowsHold /\ Checked(d) => RowsHold')
      BY <1>0, <2>1, ArtifactInserted
    <2> QED BY <1>00, <1>000, <2>1, <2>2, EndOrder
  <1>11. CASE Cleanup(p)
    <2>1. Ends(p) /\ UNCHANGED <<org, people, spaces, artifact>>
      BY <1>11 DEF Cleanup
    <2> QED BY <1>00, <1>000, <2>1, RowsStay, EndOrder
  <1>12. CASE DeleteArtifact(p)
    <2>1. /\ d.new \in Artifacts
          /\ artifact' = [artifact EXCEPT ![d.new] = IF @ = None THEN None ELSE Artifact(@.stream, "deleted")]
          /\ Ends(p) /\ UNCHANGED <<org, actor, personal, channel, thread, message, counter, member>>
      BY <1>0, <1>12 DEF DeleteArtifact, At, Shape, people, spaces
    <2>2. \A f \in Artifacts : \/ artifact'[f] = artifact[f]
                               \/ artifact[f] # None /\ artifact'[f].status = "deleted"
      BY <1>0, <2>1 DEF Tables, Artifact
    <2>3. \A s : Found(s)' <=> Found(s)
      BY <2>1 DEF Found
    <2>4. Grows
      BY <2>1, <2>3 DEF Grows
    <2>5. RowsHold => RowsHold'
      BY <2>1, <2>2, <2>3 DEF RowsHold, ThreadHolds, MessageHolds, MemberHolds, ArtifactHolds, GoneHolds
    <2> QED BY <1>00, <1>000, <2>1, <2>4, <2>5, EndOrder
  <1>13. CASE DeleteBlobs(p)
    <2>1. /\ d.pc = "deleteBlobs" /\ UNCHANGED <<org, people, spaces, artifact>>
          /\ "deleteOrg" \in Steps /\ d.pc \in Deletions
      BY <1>13 DEF DeleteBlobs, At, Steps, Deletions
    <2>2. PICK c \in CallRow : Sets(p, c) /\ c.pc = "deleteOrg" /\ c.by = d.by /\ c.found = d.found
      BY <1>13, <2>1, GoesOn DEF DeleteBlobs
    <2>3. ~overlap => Checked(c)
      BY <1>00, <2>1, <2>2 DEF Checked
    <2> QED BY <1>00, <1>000, <2>1, <2>2, <2>3, RowsStay, OrderStep
  <1>14. CASE DeleteOrg(p)
    <2>1. /\ d.pc = "deleteOrg" /\ d.pc \in Deletions /\ Ends(p)
          /\ \A m \in Messages : message'[m] = None
          /\ \A f \in Artifacts : artifact'[f] = None
          /\ \A t \in Threads : thread'[t] = None
          /\ \A x \in Channels : channel'[x] = None
          /\ member' = {} /\ personal' = {} /\ counter' = counter \ d.found /\ actor' = {} /\ org' = FALSE
      BY <1>14 DEF DeleteOrg, At, Deletions
    <2>2. ASSUME ~overlap  PROVE RowsHold'
      <3>1. counter' = {}
        BY <1>0, <1>00, <2>1, <2>2 DEF Checked, RowsHold, Tables
      <3> QED BY <2>1, <3>1 DEF RowsHold, ThreadHolds, MessageHolds, MemberHolds, ArtifactHolds, GoneHolds
    <2> QED BY <1>000, <2>1, <2>2, EndOrder
  <1> QED BY <1>1, <1>2, <1>3, <1>4, <1>5, <1>6, <1>7, <1>8, <1>9, <1>10, <1>11, <1>12, <1>13, <1>14 DEF Proceed

LEMMA FaultOrder ==
  ASSUME Shapely, OrderInv, NEW p \in Calls, Fails(p) \/ LosesAnswer(p)
  PROVE  OrderInv'
  <1> DEFINE d == call[p]
  <1>0. d \in CallRow /\ Shape(d) /\ Tables /\ (~overlap => RowsHold /\ Checked(d))
    BY TypesAre DEF Shapely, OrderInv
  <1>1. PICK c \in CallRow : /\ Sets(p, c)
                             /\ IF d.pc = "insert" THEN c.pc = "cleanup" /\ c.by = d.by ELSE c = Idle
    BY OutcomeIs DEF Fails, LosesAnswer
  <1>2. overlap' = overlap /\ d.pc # "idle"
    BY DEF Fails, LosesAnswer, At, begun
  <1>3. c.pc \notin Deletions
    BY <1>1, IdleIsRow DEF Deletions
  <1>d. call[p] = d
    OBVIOUS
  <1> HIDE DEF d
  <1>4. CASE UNCHANGED <<org, people, spaces, artifact>>
    <2>1. ~overlap => Checked(c)
      BY <1>0, <1>1, IdleIsRow DEF Checked
    <2> QED BY <1>d, <1>0, <1>1, <1>2, <1>3, <1>4, <2>1, RowsStay, OrderStep
  <1>5. CASE LosesAnswer(p)
    <2>1. /\ d.pc = "insert" /\ d.at \in Streams /\ d.new \in Artifacts
          /\ artifact' = [artifact EXCEPT ![d.new] = Artifact(d.at, "live")] /\ UNCHANGED <<org, people, spaces>>
      BY <1>d, <1>0, <1>5 DEF LosesAnswer, At, Shape
    <2>2. Grows /\ (RowsHold /\ Checked(d) => RowsHold')
      BY <1>d, <1>0, <2>1, ArtifactInserted
    <2>3. ~overlap => Checked(c)'
      <3>1. c.pc = "cleanup" /\ c.by = d.by
        BY <1>1, <2>1
      <3>2. actor' = actor
        BY <2>1 DEF people
      <3> QED BY <1>0, <2>1, <3>1, <3>2 DEF Checked
    <2> QED BY <1>d, <1>0, <1>1, <1>2, <1>3, <2>2, <2>3, OrderStep
  <1> QED BY <1>4, <1>5 DEF Fails, files

LEMMA OrderInvStep == Shapely /\ DrawnInv /\ OrderInv /\ [Next]_vars => OrderInv'
  <1> SUFFICES ASSUME Shapely, DrawnInv, OrderInv, [Next]_vars  PROVE OrderInv'
    OBVIOUS
  <1>1. CASE Crash
    <2>1. call' = [p \in Calls |-> Idle] /\ UNCHANGED <<org, people, spaces, artifact, overlap>>
      BY <1>1 DEF Crash, files, begun
    <2>2. \A p \in Calls : call'[p] = Idle
      BY <2>1
    <2>3. Alone'
      BY <2>2, IdleIsRow DEF Alone
    <2>4. \A p \in Calls : Checked(call[p])'
      BY <2>2, IdleIsRow DEF Checked
    <2>5. RowsHold => RowsHold'
      BY <2>1, RowsStay
    <2> QED BY <2>1, <2>3, <2>4, <2>5 DEF OrderInv
  <1>2. CASE UNCHANGED vars
    <2>1. UNCHANGED <<org, people, spaces, artifact, call, overlap>>
      BY <1>2 DEF vars, files, begun
    <2>2. (RowsHold => RowsHold') /\ Alone' = Alone
      BY <2>1, RowsStay DEF Alone
    <2>3. ASSUME NEW p \in Calls, Checked(call[p])  PROVE Checked(call[p])'
      <3>1. PICK e : e = call[p]
        OBVIOUS
      <3>2. Checked(e)'
        BY <2>1, <2>3, <3>1, RowsStay
      <3> QED BY <2>1, <3>1, <3>2 DEF Checked
    <2> QED BY <2>1, <2>2, <2>3 DEF OrderInv
  <1> QED BY <1>1, <1>2, BeginOrder, ProceedOrder, FaultOrder DEF Next

LEMMA InvStep == Inv /\ [Next]_vars => Inv'
  BY ShapelyStep, KeptStep, OrderInvStep DEF Inv, Kept

THEOREM Invariance == Spec => []Inv
  <1>1. Init => Inv
    BY ShapelyInit, DrawnInit, OrderInit DEF Inv
  <1> QED BY <1>1, InvStep, PTL DEF Spec

\* deleteChannel and deleteOrg: unless another call overlaps with a deletion,
\* no row is left that refers to one that was deleted.
THEOREM DeletionsLeaveNothing == Spec => []NothingHangs
  <1>1. ASSUME Inv  PROVE NothingHangs
    <2>1. ASSUME ~overlap  PROVE RowsHold
      BY <1>1, <2>1 DEF Inv, OrderInv
    <2>2. DeletionIsComplete
      BY <2>1 DEF DeletionIsComplete, RowsHold, ThreadHolds, MessageHolds, MemberHolds, ArtifactHolds, GoneHolds
    <2> QED BY <1>1, <2>2 DEF NothingHangs, Inv, Shapely
  <1> QED BY <1>1, Invariance, PTL
=============================================================================
