---- MODULE Projections ----
(* What is derived from the event stream, and who may find it: the memory     *)
(* plugin (memory_units and their source edges), the search plugin            *)
(* (search_documents), redaction and promotion, and the routes that read them.*)
(* The bus (event-bus.ts) calls every listener when an event is published and *)
(* awaits none, so each event starts one job per listener and the jobs of     *)
(* different events run side by side.  A job is one action per query: nothing *)
(* here is a transaction.  A message is one text part, which the memory       *)
(* plugin splits into candidates; a text is a model value.  The row of a unit *)
(* and its edges are read together by loadMemoryById.                         *)
EXTENDS Naturals, FiniteSets, Sequences, Functions

CONSTANTS Actors, Channels, Threads, Messages,
          ChannelOf,      \* threads.channel_id
          ParentOf,       \* threads.parent_message_id
          Says,           \* the candidates of a message's text, in order
          Filler,         \* texts isFiller rejects
          Start,          \* channels, threads and actors that exist at first
          Open, Joined,   \* the public channels and the memberships at first
          MaxCalls,       \* of redactMessage and of the promote route
          MaxEvents,      \* commits, calls and faults in a behaviour
          MaxPending,     \* nothing commits while more events are unpublished
          MaxJobs,        \* no event is published while more jobs run
          MaxFaults,      \* crashes and failing queries
          None

Streams == Channels \cup Threads
Calls == 1..MaxCalls
Texts == UNION {Range(Says[m]) : m \in Messages}
Ids == Messages \X Texts    \* a unit's id: who brought the text first

(* A document as the search plugin stores it; from and text are what its      *)
(* title, body and metadata are made of.                                      *)
Docs == [stream : Streams \cup {None}, text : SUBSET Texts, from : SUBSET Messages,
         promoted : BOOLEAN]

(* chunkIntoCandidates of a text, without what isFiller rejects.              *)
Kept(m) ==
  LET kept[i \in 0 .. Len(Says[m])] ==
        IF i = 0 THEN <<>>
        ELSE IF Says[m][i] \in Filler THEN kept[i - 1] ELSE Append(kept[i - 1], Says[m][i])
  IN  kept[Len(Says[m])]

(* Channels, threads and actors are different things; a thread starts from a  *)
(* message, so that there is none at first; None is an absent value.          *)
ASSUME RowsAssumption ==
    /\ Channels \cap Threads = {} /\ Streams \cap Actors = {}
    /\ ChannelOf \in [Threads -> Channels] /\ ParentOf \in [Threads -> Messages]
    /\ Start \subseteq Channels \cup Actors /\ Open \subseteq Start \cap Channels
    /\ Joined \subseteq (Start \cap Channels) \X Actors
ASSUME NoneAssumption == None \notin Streams \cup Docs
ASSUME BoundsAssumption == MaxCalls \in Nat /\ MaxFaults \in Nat
ASSUME TextsAssumption == \A m \in Messages : Says[m] \in Seq(Range(Says[m]))

VARIABLES made,        \* rows of channels, threads and actors
          public,      \* streams whose visibility is "public"
          members,     \* memberships: <<channel, actor>>
          message,     \* "none", "live", or "redacted" once the parts are gone
          where,       \* messages.stream_id
          calls,       \* what each call found before its transaction
          unpublished, \* events that are committed and not yet published
          jobs,        \* listeners at work on an event
          units,       \* memory_units: id -> stream, text, promoted
          edges,       \* memory_source_messages: <<unit, message>>
          docs,        \* search_documents: <<kind, id>> -> document
          promotions,  \* units with a committed memory.promoted event
          up, faults,
          disturbed,   \* an event was published while a job was running, or a job
                       \* or an event was lost to a crash or an error
          missed       \* search lost one since the documents were last backfilled

rows == <<made, public, members, message, where>>
derived == <<units, edges, docs>>
seen == <<up, faults, missed>>
vars == <<rows, calls, unpublished, jobs, derived, promotions, disturbed, seen>>

Kinds == {"actor", "channel", "thread", "message", "memory"}
Event(type, of, by) == [type |-> type, of |-> of, by |-> by]
Job(who, e) == [who |-> who, ev |-> e, at |-> "start", todo |-> <<>>, left |-> {},
                row |-> None, out |-> <<>>, found |-> FALSE]
ChannelFor(s) == IF s \in Threads THEN ChannelOf[s] ELSE s

(* firstTextOfMessage and hydrateTextParts: a redacted message has no parts.  *)
TextOf(m) == IF message[m] = "live" THEN Says[m] ELSE <<>>

(* normalizeText, chunkIntoCandidates, isFiller.                              *)
Candidates(m) == IF message[m] = "live" THEN Kept(m) ELSE <<>>

Doc(stream, text, from, promoted) ==
    [stream |-> stream, text |-> text, from |-> from, promoted |-> promoted]
MessageDoc(m) == Doc(where[m], Range(TextOf(m)), {m}, FALSE)
ThingDoc(x) ==
    IF x \in Threads
    THEN LET said == Range(TextOf(ParentOf[x]))
         IN  Doc(x, said, IF said = {} THEN {} ELSE {ParentOf[x]}, FALSE)
    ELSE Doc(IF x \in Channels THEN x ELSE None, {}, {}, FALSE)
ThingKey(x) == <<CASE x \in Channels -> "channel" [] x \in Threads -> "thread"
                   [] OTHER -> "actor", x>>
MemoryDoc(stream, text, sources, promoted) == Doc(stream, {text}, sources, promoted)
Upsert(key, doc) == [key |-> key, doc |-> doc]
Delete(key) == [key |-> key, doc |-> None]

(* A row is written over the one with its key.                                *)
Put(table, key, row) == [k \in DOMAIN table \cup {key} |-> IF k = key THEN row ELSE table[k]]

SourcesOf(u) == {m \in Messages : <<u, m>> \in edges}
UnitsSaying(stream, text) ==
    {u \in DOMAIN units : units[u].stream = stream /\ units[u].text = text}

(* assertStreamReadable: public, or a member of the owning channel.           *)
CanRead(a, s) ==
    /\ s \in made
    /\ s \in public \/ <<ChannelFor(s), a>> \in members

(* setup of the search plugin: backfillExisting writes the documents of every *)
(* row again and deletes none; memory starts with what it has stored.         *)
Live == {m \in Messages : message[m] = "live" /\ Says[m] # <<>>}
ThingKeys == {ThingKey(x) : x \in made}
LiveKeys == {"message"} \X Live
(* mutant: messages are not written again                                     *)
MutantBackfilled ==
    [k \in ThingKeys \cup DOMAIN docs |-> IF k \in ThingKeys THEN ThingDoc(k[2]) ELSE docs[k]]
Backfilled ==
    [k \in ThingKeys \cup LiveKeys \cup DOMAIN docs |->
       IF k \in ThingKeys THEN ThingDoc(k[2])
       ELSE IF k \in LiveKeys THEN MessageDoc(k[2]) ELSE docs[k]]

Init ==
    /\ made = Start
    /\ public = Open
    /\ members = Joined
    /\ message = [m \in Messages |-> "none"] /\ where = [m \in Messages |-> None]
    /\ calls = [c \in Calls |-> [op |-> "idle", of |-> None]]
    /\ unpublished = {} /\ jobs = {}
    /\ units = <<>> /\ edges = {} /\ promotions = {}
    /\ docs = [k \in {ThingKey(x) : x \in Start} |-> ThingDoc(k[2])]
    /\ up = TRUE /\ faults = 0 /\ disturbed = FALSE /\ missed = FALSE

------------------------------------------------------------------------------
(* The core: calls commit a row change and an event; the event is published   *)
(* when the answer to COMMIT arrives.                                         *)

(* The bounds on what is begun, with the faults, and on what waits.           *)
Begun == Cardinality(made \ Start) + Cardinality({m \in Messages : message[m] # "none"})
           + Cardinality({c \in Calls : calls[c].op # "idle"}) + faults
MayBegin == up /\ Begun < MaxEvents
MayCommit == up /\ Cardinality(unpublished) < MaxPending

(* createActor, createChannel and createThread; a thread may be wider than    *)
(* its channel, and its creator need not be a member.                         *)
Create(x, shown) ==
    /\ MayBegin /\ MayCommit /\ x \notin made /\ (shown => x \in Streams)
    /\ x \in Threads => where[ParentOf[x]] = ChannelOf[x]
    /\ made' = made \cup {x}
    /\ public' = IF shown THEN public \cup {x} ELSE public
    /\ \E a \in Actors \cap made :
         members' = IF x \in Channels THEN members \cup {<<x, a>>} ELSE members
    /\ unpublished' = unpublished \cup {Event("created", x, None)}
    /\ UNCHANGED <<message, where, calls, jobs, derived, promotions, disturbed, seen>>

(* mutant: the row has no stream                                              *)
MutantAppends(m, s) ==
    /\ MayBegin /\ MayCommit /\ message[m] = "none" /\ s \in made
    /\ message' = [message EXCEPT ![m] = "live"]
    /\ unpublished' = unpublished \cup {Event("message.appended", m, None)}
    /\ UNCHANGED <<made, public, members, where, calls, jobs, derived, promotions,
                   disturbed, seen>>
Appends(m, s) ==
    /\ MayBegin /\ MayCommit /\ message[m] = "none" /\ s \in made
    /\ message' = [message EXCEPT ![m] = "live"] /\ where' = [where EXCEPT ![m] = s]
    /\ unpublished' = unpublished \cup {Event("message.appended", m, None)}
    /\ UNCHANGED <<made, public, members, calls, jobs, derived, promotions, disturbed, seen>>

Done == [op |-> "done", of |-> None]
Free(c) == MayBegin /\ calls[c].op = "idle" /\ \A d \in 1..(c - 1) : calls[d].op # "idle"

(* redactMessage reads the row; one that is redacted already ends the call.   *)
CheckRedact(c, m) ==
    /\ Free(c) /\ message[m] = "live"
    /\ calls' = [calls EXCEPT ![c] = [op |-> "redact", of |-> m]]
    /\ UNCHANGED <<rows, unpublished, jobs, derived, promotions, disturbed, seen>>

(* Its transaction does not look at redacted again: a second call redacts     *)
(* once more and emits once more.                                             *)
Redact(c) ==
    /\ MayCommit /\ calls[c].op = "redact"
    /\ message' = [message EXCEPT ![calls[c].of] = "redacted"]
    /\ unpublished' = unpublished \cup {Event("message.redacted", calls[c].of, c)}
    /\ calls' = [calls EXCEPT ![c] = Done]
    /\ UNCHANGED <<made, public, members, where, jobs, derived, promotions, disturbed, seen>>

(* POST /v1/memory/:id/promote: the unit is loaded, a promoted one is the     *)
(* answer, and the caller must be able to read the source.                    *)
CheckPromote(c, a, u) ==
    /\ Free(c) /\ a \in made
    /\ u \in DOMAIN units /\ ~units[u].promoted /\ CanRead(a, units[u].stream)
    /\ calls' = [calls EXCEPT ![c] = [op |-> "promote", of |-> u]]
    /\ UNCHANGED <<rows, unpublished, jobs, derived, promotions, disturbed, seen>>

(* recordMemoryPromotion only emits; the unit may be gone by now.             *)
Promote(c) ==
    /\ MayCommit /\ calls[c].op = "promote"
    /\ unpublished' = unpublished \cup {Event("memory.promoted", calls[c].of, c)}
    /\ promotions' = promotions \cup {calls[c].of}
    /\ calls' = [calls EXCEPT ![c] = Done]
    /\ UNCHANGED <<rows, jobs, derived, disturbed, seen>>

(* publish calls the listener of each plugin that handles the event's type.   *)
Listeners(e) ==
    CASE e.type = "created" -> {"search"}
      [] e.type = "memory.promoted" -> {"memory"}
      [] OTHER -> {"memory", "search"}

Publish(e) ==
    /\ up /\ Cardinality(jobs) + Cardinality(Listeners(e)) <= MaxJobs
    /\ unpublished' = unpublished \ {e}
    /\ jobs' = jobs \cup {Job(who, e) : who \in Listeners(e)}
    /\ disturbed' = (disturbed \/ jobs # {})
    /\ UNCHANGED <<rows, calls, derived, promotions, seen>>

------------------------------------------------------------------------------
(* The jobs.                                                                  *)

Frame == UNCHANGED <<rows, calls, unpublished, promotions, disturbed, seen>>
At(j, who, type, pc) == j.who = who /\ j.ev.type = type /\ j.at = pc
Goes(j, k) == jobs' = (jobs \ {j}) \cup {k}
Ends(j) == jobs' = jobs \ {j}

(* memory: ingestMessageAppended.                                             *)
Hydrate(j) ==
    LET wanted == Candidates(j.ev.of)
    IN  /\ At(j, "memory", "message.appended", "start")
        /\ IF wanted = <<>> THEN Ends(j)
                            ELSE Goes(j, [j EXCEPT !.at = "find", !.todo = wanted])
        /\ UNCHANGED derived /\ Frame

(* contentHash makes the organization, the stream and the text one key.       *)
Find(j) ==
    LET same == UnitsSaying(where[j.ev.of], Head(j.todo))
    IN  /\ At(j, "memory", "message.appended", "find")
        /\ IF same = {}
           THEN Goes(j, [j EXCEPT !.at = "insert", !.found = FALSE])
           ELSE \E u \in same :
                  Goes(j, [j EXCEPT !.at = "link", !.found = TRUE,
                                    !.row = [id |-> u, promoted |-> units[u].promoted,
                                             stream |-> units[u].stream]])
        /\ UNCHANGED derived /\ Frame

(* UNIQUE (org_id, source_stream_id, content_hash): another job's unit makes  *)
(* the INSERT throw, and the rest of the message is not ingested.             *)
InsertUnit(j) ==
    LET t == Head(j.todo)
        s == where[j.ev.of]
        u == <<j.ev.of, t>>
    IN  /\ At(j, "memory", "message.appended", "insert")
        /\ IF UnitsSaying(s, t) # {}
           THEN Ends(j) /\ UNCHANGED units
           ELSE /\ units' = Put(units, u, [stream |-> s, text |-> t, promoted |-> FALSE])
                /\ Goes(j, [j EXCEPT !.at = "link",
                                     !.row = [id |-> u, promoted |-> FALSE, stream |-> s]])
        /\ UNCHANGED <<edges, docs>> /\ Frame

(* The edge, ON CONFLICT DO NOTHING; then, for a unit that was there, its     *)
(* updated_at and its sources.  What is notified keeps the row SELECTed in    *)
(* Find.                                                                      *)
Noted(j, sources) ==
    LET rest == Tail(j.todo)
    IN  [j EXCEPT !.todo = rest, !.at = IF rest = <<>> THEN "upsert" ELSE "find",
                  !.out = Append(@, Upsert(<<"memory", j.row.id>>,
                                           MemoryDoc(j.row.stream, Head(j.todo), sources,
                                                     j.row.promoted)))]
Link(j) ==
    /\ At(j, "memory", "message.appended", "link")
    /\ edges' = edges \cup {<<j.row.id, j.ev.of>>}
    /\ Goes(j, IF j.found THEN [j EXCEPT !.at = "reload"] ELSE Noted(j, {j.ev.of}))
    /\ UNCHANGED <<units, docs>> /\ Frame

Reload(j) ==
    /\ At(j, "memory", "message.appended", "reload")
    /\ Goes(j, Noted(j, SourcesOf(j.row.id)))
    /\ UNCHANGED derived /\ Frame

(* memory: applyPromotion, an UPDATE that may find no row.                    *)
ApplyPromotion(j) ==
    LET u == j.ev.of
    IN  /\ At(j, "memory", "memory.promoted", "start")
        /\ units' = IF u \in DOMAIN units THEN [units EXCEPT ![u].promoted = TRUE] ELSE units
        /\ Goes(j, [j EXCEPT !.at = "load", !.row = u])
        /\ UNCHANGED <<edges, docs>> /\ Frame

(* memory: applyMessageRedaction.                                             *)
Linked(j) ==
    LET linked == {u \in Ids : <<u, j.ev.of>> \in edges}
    IN  /\ At(j, "memory", "message.redacted", "start")
        /\ IF linked = {} THEN Ends(j)
                          ELSE Goes(j, [j EXCEPT !.at = "unlink", !.left = linked])
        /\ UNCHANGED derived /\ Frame

Unlink(j) ==
    /\ At(j, "memory", "message.redacted", "unlink")
    /\ edges' = {e \in edges : e[2] # j.ev.of}
    /\ Goes(j, [j EXCEPT !.at = "count"])
    /\ UNCHANGED <<units, docs>> /\ Frame

(* mutant: the unit goes with the first of its messages                       *)
MutantCount(j) ==
    /\ At(j, "memory", "message.redacted", "count")
    /\ \E u \in j.left : Goes(j, [j EXCEPT !.row = u, !.left = @ \ {u}, !.at = "drop"])
    /\ UNCHANGED derived /\ Frame
Count(j) ==
    /\ At(j, "memory", "message.redacted", "count")
    /\ \E u \in j.left :
         Goes(j, [j EXCEPT !.row = u, !.left = @ \ {u},
                           !.at = IF SourcesOf(u) = {} THEN "drop" ELSE "load"])
    /\ UNCHANGED derived /\ Frame

Drop(j) ==
    /\ At(j, "memory", "message.redacted", "drop")
    /\ units' = [u \in DOMAIN units \ {j.row} |-> units[u]]
    /\ Goes(j, [j EXCEPT !.at = "upsert", !.out = <<Delete(<<"memory", j.row>>)>>])
    /\ UNCHANGED <<edges, docs>> /\ Frame

(* A job goes on to the next unit, or ends, when it has nothing to notify.    *)
Proceeds(j, out) ==
    CASE out # <<>> -> Goes(j, [j EXCEPT !.out = out, !.at = "upsert"])
      [] out = <<>> /\ j.left # {} -> Goes(j, [j EXCEPT !.out = out, !.at = "count"])
      [] OTHER -> Ends(j)

(* loadMemoryById and the notification of what it finds.                      *)
Load(j) ==
    LET u == j.row
    IN  /\ j.who = "memory" /\ j.at = "load"
        /\ Proceeds(j, IF u \in DOMAIN units
                       THEN <<Upsert(<<"memory", u>>,
                                     MemoryDoc(units[u].stream, units[u].text, SourcesOf(u),
                                               units[u].promoted))>>
                       ELSE <<>>)
        /\ UNCHANGED derived /\ Frame

(* search: indexMessage, indexThreadById, indexChannelById, indexActor, and   *)
(* applyMessageRedaction, which deletes the message document alone.  No other *)
(* job writes the document of a row, so that it is looked for with the row.   *)
Index(j) ==
    LET e == j.ev
        write == CASE e.type = "created" -> Upsert(ThingKey(e.of), ThingDoc(e.of))
                   [] e.type = "message.appended" -> Upsert(<<"message", e.of>>, MessageDoc(e.of))
                   [] OTHER -> Delete(<<"message", e.of>>)
    IN  /\ j.who = "search" /\ j.at = "start"
        /\ IF e.type = "message.appended" /\ TextOf(e.of) = <<>>
           THEN Ends(j)
           ELSE Goes(j, [j EXCEPT !.at = IF write.doc = None THEN "upsert" ELSE "write",
                                  !.found = write.key \in DOMAIN docs, !.out = <<write>>])
        /\ UNCHANGED derived /\ Frame

(* upsertDocument looks for the document; deleteDocument deletes it.          *)
Look(j) ==
    LET w == Head(j.out)
    IN  /\ j.at = "upsert"
        /\ IF w.doc = None
           THEN /\ docs' = [k \in DOMAIN docs \ {w.key} |-> docs[k]]
                /\ Proceeds(j, Tail(j.out))
           ELSE /\ Goes(j, [j EXCEPT !.at = "write", !.found = w.key \in DOMAIN docs])
                /\ UNCHANGED docs
        /\ UNCHANGED <<units, edges>> /\ Frame

(* An UPDATE of a document that is gone changes nothing, and an INSERT of one *)
(* that came meanwhile throws; the providers' errors are swallowed.           *)
Write(j) ==
    LET w == Head(j.out)
    IN  /\ j.at = "write"
        /\ docs' = IF j.found = (w.key \in DOMAIN docs) THEN Put(docs, w.key, w.doc) ELSE docs
        /\ Proceeds(j, Tail(j.out))
        /\ UNCHANGED <<units, edges>> /\ Frame

JobStep ==
    \E j \in jobs :
      \/ Hydrate(j) \/ Find(j) \/ InsertUnit(j) \/ Link(j) \/ Reload(j)
      \/ ApplyPromotion(j) \/ Linked(j) \/ Unlink(j) \/ Count(j) \/ Drop(j) \/ Load(j)
      \/ Index(j) \/ Look(j) \/ Write(j)

------------------------------------------------------------------------------
(* Faults.                                                                    *)

(* A query of a listener fails: the bus logs it, or the listener swallows it. *)
Breaks(j) ==
    /\ MayBegin /\ faults < MaxFaults
    /\ Ends(j)
    /\ faults' = faults + 1 /\ disturbed' = TRUE
    /\ missed' = (missed \/ j.who = "search")
    /\ UNCHANGED <<rows, calls, unpublished, derived, promotions, up>>

(* The process ends: jobs, unpublished events and calls are gone.             *)
Crash ==
    /\ MayBegin /\ faults < MaxFaults
    /\ up' = FALSE /\ faults' = faults + 1
    /\ disturbed' = (disturbed \/ jobs # {} \/ unpublished # {})
    /\ missed' = TRUE
    /\ jobs' = {} /\ unpublished' = {}
    /\ calls' = [c \in Calls |-> IF calls[c].op = "idle" THEN calls[c] ELSE Done]
    /\ UNCHANGED <<rows, derived, promotions>>

(* applyPluginsToApp awaits every setup before the server takes requests.     *)
Restart ==
    /\ ~up
    /\ up' = TRUE /\ missed' = FALSE
    /\ docs' = Backfilled
    /\ UNCHANGED <<rows, calls, unpublished, jobs, units, edges, promotions, disturbed,
                   faults>>

Next ==
    \/ \E x \in Streams \cup Actors, shown \in BOOLEAN : Create(x, shown)
    \/ \E m \in Messages, s \in Streams : Appends(m, s)
    \/ \E c \in Calls, m \in Messages : CheckRedact(c, m)
    \/ \E c \in Calls, a \in Actors, u \in DOMAIN units : CheckPromote(c, a, u)
    \/ \E c \in Calls : Redact(c) \/ Promote(c)
    \/ \E e \in unpublished : Publish(e)
    \/ JobStep
    \/ \E j \in jobs : Breaks(j)
    \/ Crash \/ Restart

Spec == Init /\ [][Next]_vars

------------------------------------------------------------------------------
(* The routes that read.  A query is the set of texts its tokens match.       *)

(* GET /v1/streams/:id/messages: listMessages, the parts of live messages.    *)
Listed(a, s) == IF CanRead(a, s) THEN {m \in Live : where[m] = s} ELSE {}

(* isVisibleToPrincipal: an actor's document and a promoted memory's need an  *)
(* actor of the organization, the others a stream it may read.                *)
Visible(a, key) ==
    \/ key[1] = "actor"
    \/ key[1] = "memory" /\ docs[key].promoted
    \/ docs[key].stream # None /\ CanRead(a, docs[key].stream)

(* scoreDoc is positive for a document that matches a token.                  *)
ScoredDocs(q) == {key \in DOMAIN docs : docs[key].text \cap q # {}}

(* GET /v1/search and /v1/search/suggest, the latter without texts of         *)
(* messages and memory.                                                       *)
SearchHits(a, q) == {key \in ScoredDocs(q) : a \in made /\ Visible(a, key)}
Suggestions(a, q) ==
    {key \in SearchHits(a, q) : key[1] \in {"actor", "channel", "thread"}}

(* GET /v1/memory with a stream, with promoted=true, and by id.               *)
Promoted == {u \in DOMAIN units : units[u].promoted}
UnitsOf(s) == {u \in DOMAIN units : units[u].stream = s}
MemoryOfStream(a, s) == IF CanRead(a, s) THEN UnitsOf(s) ELSE {}
MemoryById(a) ==
    {u \in DOMAIN units : IF units[u].promoted THEN a \in made ELSE CanRead(a, units[u].stream)}

(* mutant: every stream of the organization                                   *)
MutantVisibleStreams(a) == Streams \cap made

(* visibleStreamIdsFor: the channels the actor may read and every thread in   *)
(* them, whatever the thread's own visibility.                                *)
VisibleStreams(a) ==
    LET readable == {ch \in Channels \cap made : CanRead(a, ch)}
    IN  readable \cup {th \in Threads \cap made : ChannelOf[th] \in readable}

(* scoreUnit adds a bonus for recency to every unit younger than thirty days, *)
(* so that a query with a token finds units it does not match.                *)
ScoredUnits(q) == IF q = {} THEN {} ELSE DOMAIN units

(* GET /v1/memory/search.                                                     *)
MemoryHits(a, q) ==
    IF a \notin made THEN {}
    ELSE {u \in ScoredUnits(q) : units[u].promoted \/ units[u].stream \in VisibleStreams(a)}

------------------------------------------------------------------------------
(* What holds.                                                                *)

Keys == Kinds \X (Actors \cup Streams \cup Messages \cup Ids)

(* Every variable has its type: units have one id each, documents one key,    *)
(* and no two listeners hold the same job.                                    *)
TypeOK ==
    /\ made \subseteq Streams \cup Actors
    /\ public \subseteq made
    /\ members \subseteq Channels \X Actors
    /\ message \in [Messages -> {"none", "live", "redacted"}]
    /\ \A m \in Messages : where[m] \in Streams <=> message[m] # "none"
    /\ DOMAIN calls = Calls
    /\ \A j \in jobs : j.who \in Listeners(j.ev) /\ j.left \subseteq Ids
    /\ DOMAIN units \subseteq Ids
    /\ \A u \in DOMAIN units : units[u] \in [stream : Streams, text : Texts, promoted : BOOLEAN]
    /\ edges \subseteq Ids \X Messages
    /\ \A k \in DOMAIN docs : k[1] \in Kinds /\ docs[k] \in Docs
    /\ promotions \subseteq Ids
    /\ up \in BOOLEAN /\ faults \in 0..MaxFaults
    /\ disturbed \in BOOLEAN /\ missed \in BOOLEAN

Quiet == up /\ jobs = {} /\ unpublished = {}
Told(m) == Range(Candidates(m))

(* Events handled one after the other leave exactly what the log says: a unit *)
(* for each text of a live message in each stream, edges to the live messages *)
(* that say it, and documents that agree with both (memory.ts, search.ts).    *)
CalmlyDerived ==
    Quiet /\ ~disturbed =>
        /\ {<<units[u].stream, units[u].text>> : u \in DOMAIN units}
             = UNION {{where[m]} \X Told(m) : m \in Messages}
        /\ edges = {e \in (DOMAIN units) \X Messages :
                      units[e[1]].stream = where[e[2]] /\ units[e[1]].text \in Told(e[2])}
        /\ \A u, v \in DOMAIN units :
             u # v => units[u].stream # units[v].stream \/ units[u].text # units[v].text
        /\ {k[2] : k \in {k \in DOMAIN docs : k[1] = "memory"}} = DOMAIN units
        /\ \A u \in DOMAIN units :
             docs[<<"memory", u>>] = MemoryDoc(units[u].stream, units[u].text, SourcesOf(u),
                                               units[u].promoted)
        /\ {k[2] : k \in {k \in DOMAIN docs : k[1] = "message"}} = Live
        /\ Promoted = promotions \cap DOMAIN units

(* Whatever the order the listeners run in, and after a restart too: when no  *)
(* listener is at work, every live message and every row has its document     *)
(* (setup and onEvent of search.ts).                                          *)
LiveIsFound ==
    Quiet /\ ~missed =>
        /\ \A m \in Live : <<"message", m>> \in DOMAIN docs /\ docs[<<"message", m>>] = MessageDoc(m)
        /\ \A x \in made : ThingKey(x) \in DOMAIN docs

(* The text of m may be shown to a: it can read the stream m is in.           *)
MayRead(a, m) == CanRead(a, where[m])
(* A public thread of a private channel takes its title from a message of the *)
(* channel; memory search lists private threads with their channel.           *)
WiderThread(s) == s \in Threads /\ (s \in public) # (ChannelOf[s] \in public)

(* Nobody is shown a text of a stream they cannot read, unless its unit was   *)
(* promoted by a committed memory.promoted event or the stream is a thread    *)
(* more or less visible than its channel (the routes of memory.ts and         *)
(* search.ts, recordMemoryPromotion).                                         *)
ShownIsReadable ==
    \A a \in Actors :
      /\ \A key \in SearchHits(a, Texts) :
           \/ key[1] = "memory" /\ key[2] \in promotions
           \/ \A m \in docs[key].from : MayRead(a, m) \/ WiderThread(docs[key].stream)
      /\ \A u \in ((UNION {MemoryOfStream(a, s) : s \in Streams}) \cup MemoryById(a)
                   \cup MemoryHits(a, Texts)) \ promotions :
           \A m \in SourcesOf(u) \cup {u[1]} : MayRead(a, m) \/ WiderThread(units[u].stream)
====
