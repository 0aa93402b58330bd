---- MODULE ProjectionsProofs ----
(* Theorems about Projections, for every value of its constants. *)
EXTENDS Projections, WellFoundedInduction, TLAPS

Stages == {"start", "find", "insert", "link", "reload", "upsert", "write", "load",
           "unlink", "count", "drop"}

(* A row as Find has read it; what a listener has to write. *)
Found == [id : Ids, promoted : BOOLEAN, stream : Streams]
Writes == [key : Keys, doc : Docs \cup {None}]
EventTypes == {"created", "message.appended", "message.redacted", "memory.promoted"}
Events == [type : EventTypes, of : Streams \cup Actors \cup Messages \cup Ids,
           by : Calls \cup {None}]
JobRows(j) == [who : {"memory", "search"}, ev : Events, at : Stages, todo : Seq(Texts),
         left : SUBSET Ids, row : {j.row}, out : Seq(Writes), found : {j.found}]
CallRows == [op : {"idle", "redact", "promote", "done"}, of : Messages \cup Ids \cup {None}]

(* The rows of the core: a stream that holds a message exists. *)
RowsOK ==
  /\ made \subseteq Streams \cup Actors /\ public \subseteq made
  /\ members \subseteq (made \cap Channels) \X Actors
  /\ message \in [Messages -> {"none", "live", "redacted"}]
  /\ where \in [Messages -> (made \cap Streams) \cup {None}]
  /\ \A m \in Messages : where[m] = None <=> message[m] = "none"
  /\ \A x \in Threads \cap made : where[ParentOf[x]] = ChannelOf[x]

CallsOK ==
  /\ calls \in [Calls -> CallRows]
  /\ \A c \in Calls :
       /\ calls[c].op = "redact" => calls[c].of \in Messages /\ message[calls[c].of] # "none"
       /\ calls[c].op = "promote" => calls[c].of \in Ids

(* An event is about what has been committed. *)
EventOK(e) ==
  /\ e \in Events
  /\ e.type = "created" => e.of \in made
  /\ e.type = "message.appended" => e.of \in Messages /\ message[e.of] # "none"
  /\ e.type = "message.redacted" => e.of \in Messages /\ message[e.of] = "redacted"
  /\ e.type = "memory.promoted" => e.of \in promotions

(* what a document says of where its text is from *)
DocOK(key, doc) ==
  /\ doc \in Docs
  /\ key[1] \in {"actor", "channel"} => doc.from = {}
  /\ key[1] = "thread" =>
       doc.stream \in Threads \cap made /\ doc.from \subseteq {ParentOf[doc.stream]}
  /\ key[1] \in {"message", "memory"} =>
       doc.stream # None /\ \A m \in doc.from : where[m] = doc.stream
  /\ key[1] = "memory" /\ doc.promoted => key[2] \in promotions

UnitOK(u, unit) ==
  /\ unit \in [stream : Streams, text : Texts, promoted : BOOLEAN]
  /\ unit.stream = where[u[1]]
  /\ unit.promoted => u \in promotions

(* The tables of the plugins: a unit is of the stream of its messages. *)
StoreOK ==
  /\ DOMAIN units \subseteq Ids /\ \A u \in DOMAIN units : UnitOK(u, units[u])
  /\ edges \subseteq Ids \X Messages
  /\ \A e \in edges : where[e[1][1]] # None /\ where[e[1][1]] = where[e[2]]
  /\ DOMAIN docs \subseteq Keys /\ \A k \in DOMAIN docs : DocOK(k, docs[k])
  /\ promotions \subseteq Ids

FoundOK(j) ==
  /\ j.row \in Found /\ j.ev.of \in Messages
  /\ j.row.stream = where[j.row.id[1]] /\ j.row.stream = where[j.ev.of]
  /\ j.row.promoted => j.row.id \in promotions

OutOK(out) ==
  /\ out \in Seq(Writes)
  /\ \A i \in DOMAIN out : out[i].doc # None => DocOK(out[i].key, out[i].doc)

(* A job at each query. *)
JobOK(j) ==
  /\ j \in JobRows(j)
  /\ EventOK(j.ev)
  /\ j.who \in Listeners(j.ev)
  /\ OutOK(j.out)
  /\ j.at \in {"find", "insert", "link", "reload"} =>
       j.ev.type = "message.appended" /\ j.todo # <<>>
  /\ j.at \in {"link", "reload"} => FoundOK(j)
  /\ j.at = "drop" => j.row \in Ids
  /\ j.who = "memory" /\ j.at = "load" => j.row \in Ids
  /\ j.at \in {"upsert", "write"} => j.out # <<>>
  /\ j.at = "write" => Head(j.out).doc # None

FlagsOK ==
  /\ up \in BOOLEAN /\ faults \in 0..MaxFaults /\ disturbed \in BOOLEAN /\ missed \in BOOLEAN

SourcesInv ==
  /\ RowsOK /\ CallsOK /\ StoreOK /\ FlagsOK
  /\ \A e \in unpublished : EventOK(e)
  /\ \A j \in jobs : JobOK(j)

\* Kept is a recursive function: that there is one, and what it returns, is an
\* induction on the length of the text, done with the least counterexample.
Sifted(s, f, i) ==
  IF i = 0 THEN <<>> ELSE IF s[i] \in Filler THEN f[i - 1] ELSE Append(f[i - 1], s[i])
Sifts(s, n, f) == f = [i \in 0 .. n |-> Sifted(s, f, i)]

LEMMA LeastNat == ASSUME NEW T \in SUBSET Nat, T # {}  PROVE  \E m \in T : \A k \in T : m <= k
<1> DEFINE R == {ss \in Nat \X Nat : ss[1] < ss[2]}
<1>1. IsWellFoundedOn(R, Nat)
  BY NatLessThanWellFounded DEF OpToRel
<1>2. \A x, y \in Nat : x < y => <<x, y>> \in R
  OBVIOUS
<1> HIDE DEF R
<1>3. PICK x \in T : \A y \in T : <<y, x>> \notin R
  BY <1>1, WFMin
<1>4. \A y \in T : ~(y < x)
  BY <1>2, <1>3
<1> QED BY <1>4

LEMMA SiftsIntoTexts ==
  ASSUME NEW T, NEW s \in Seq(T), NEW n \in 0 .. Len(s), NEW f, Sifts(s, n, f)
  PROVE  \A i \in 0 .. n : f[i] \in Seq(T)
<1> DEFINE Bad == {i \in 0 .. n : f[i] \notin Seq(T)}
<1> SUFFICES ASSUME Bad # {}  PROVE FALSE
  OBVIOUS
<1>0. Bad \in SUBSET Nat
  OBVIOUS
<1> HIDE DEF Bad
<1>1. PICK i \in Bad : \A j \in Bad : i <= j
  BY <1>0, LeastNat
<1> USE DEF Bad
<1>2. i \in 0 .. n /\ f[i] = Sifted(s, f, i) /\ f[i] \notin Seq(T)
  BY DEF Sifts
<1>3. i # 0
  BY <1>2 DEF Sifted
<1>4. f[i - 1] \in Seq(T)
  BY <1>1, <1>2, <1>3
<1>5. s[i] \in T
  BY <1>2, <1>3
<1> QED BY <1>2, <1>3, <1>4, <1>5 DEF Sifted

LEMMA SifterExists ==
  ASSUME NEW T, NEW s \in Seq(T), NEW n \in 0 .. Len(s)
  PROVE  \E f : Sifts(s, n, f)
<1> DEFINE Bad == {k \in Nat : k <= Len(s) /\ ~\E f : Sifts(s, k, f)}
<1> SUFFICES Bad = {}
  OBVIOUS
<1> SUFFICES ASSUME Bad # {}  PROVE FALSE
  OBVIOUS
<1>1. PICK k \in Bad : \A j \in Bad : k <= j
  BY LeastNat
<1>2. k # 0
  <2>1. Sifts(s, 0, [i \in 0 .. 0 |-> <<>>])
    BY DEF Sifts, Sifted
  <2> QED BY <2>1
<1>3. PICK g : Sifts(s, k - 1, g)
  BY <1>1, <1>2
<1> DEFINE h == [i \in 0 .. k |-> IF i = k THEN Sifted(s, g, k) ELSE g[i]]
<1>4. \A i \in 0 .. k : h[i] = Sifted(s, h, i)
  <2> SUFFICES ASSUME NEW i \in 0 .. k  PROVE h[i] = Sifted(s, h, i)
    OBVIOUS
  <2>1. i # 0 => h[i - 1] = g[i - 1]
    OBVIOUS
  <2>2. Sifted(s, h, i) = Sifted(s, g, i)
    BY <2>1 DEF Sifted
  <2>3. i # k => g[i] = Sifted(s, g, i)
    BY <1>3 DEF Sifts
  <2> QED BY <2>2, <2>3
<1>5. h = [i \in 0 .. k |-> Sifted(s, h, i)]
  BY <1>4
<1> HIDE DEF h
<1>6. Sifts(s, k, h)
  BY <1>5 DEF Sifts
<1> QED BY <1>6

LEMMA KeptIsText ==
  ASSUME NEW m \in Messages
  PROVE  Kept(m) \in Seq(Range(Says[m]))
<1> DEFINE s == Says[m]
<1> DEFINE n == Len(s)
<1> DEFINE kept == CHOOSE f : f = [i \in 0 .. n |-> Sifted(s, f, i)]
<1>1. s \in Seq(Range(s)) /\ n \in 0 .. n
  BY TextsAssumption
<1>2. \E f : f = [i \in 0 .. n |-> Sifted(s, f, i)]
  BY <1>1, SifterExists DEF Sifts
<1>3. kept = [i \in 0 .. n |-> Sifted(s, kept, i)]
  BY <1>2
<1>4. Kept(m) = kept[n]
  BY DEF Kept, Sifted
<1> HIDE DEF kept
<1>5. Sifts(s, n, kept)
  BY <1>3 DEF Sifts
<1> QED BY <1>1, <1>4, <1>5, SiftsIntoTexts

LEMMA TextFacts ==
  \A m \in Messages : Kept(m) \in Seq(Texts) /\ Range(Says[m]) \subseteq Texts
  BY KeptIsText, TextsAssumption DEF Texts

LEMMA KeyFacts ==
  /\ \A x \in Streams \cup Actors : ThingKey(x) \in Keys /\ ThingKey(x)[2] = x
  /\ \A x \in Streams \cup Actors : ThingKey(x)[1] \in {"channel", "thread", "actor"}
  /\ \A x \in Streams \cup Actors : ThingKey(x)[1] = "thread" <=> x \in Threads
  /\ \A m \in Messages : <<"message", m>> \in Keys
  /\ \A u \in Ids : <<"memory", u>> \in Keys
  BY RowsAssumption DEF ThingKey, Keys, Kinds, Streams

(* What is in the log stays in it. *)
Grows ==
  /\ made \subseteq made' /\ promotions \subseteq promotions'
  /\ \A m \in Messages : where[m] # None => where'[m] = where[m]
  /\ \A m \in Messages : message[m] # "none" => message'[m] # "none"
  /\ \A m \in Messages : message[m] = "redacted" => message'[m] = "redacted"

LEMMA EventStays ==
  ASSUME NEW e, EventOK(e), Grows
  PROVE  EventOK(e)'
  BY DEF EventOK, Grows

LEMMA DocStays ==
  ASSUME NEW key, NEW doc, DocOK(key, doc), Grows
  PROVE  DocOK(key, doc)'
  BY DEF DocOK, Grows, Docs

LEMMA OutStays ==
  ASSUME NEW out, OutOK(out), Grows
  PROVE  OutOK(out)'
  BY DocStays DEF OutOK

LEMMA JobStays ==
  ASSUME NEW j, JobOK(j), Grows
  PROVE  JobOK(j)'
  <1>1. EventOK(j.ev)' /\ OutOK(j.out)'
    BY EventStays, OutStays DEF JobOK
  <1>2. FoundOK(j) => FoundOK(j)'
    <2> SUFFICES ASSUME FoundOK(j)  PROVE FoundOK(j)'
      OBVIOUS
    <2>1. j.row.id \in Ids /\ j.row.stream \in Streams
      BY DEF FoundOK, Found
    <2>2. j.row.id[1] \in Messages /\ j.row.stream # None
      BY <2>1, NoneAssumption DEF Ids
    <2>3. where'[j.row.id[1]] = where[j.row.id[1]] /\ where'[j.ev.of] = where[j.ev.of]
      BY <2>2 DEF FoundOK, Grows
    <2>4. j.row.promoted => j.row.id \in promotions'
      BY DEF FoundOK, Grows
    <2> QED BY <2>3, <2>4 DEF FoundOK
  <1> QED BY <1>1, <1>2 DEF JobOK

LEMMA StoreStays ==
  ASSUME StoreOK, Grows, UNCHANGED derived, promotions' \subseteq Ids
  PROVE  StoreOK'
  <1>1. \A k \in DOMAIN docs' : DocOK(k, docs[k])'
    BY DocStays DEF StoreOK, derived
  <1>2. \A u \in DOMAIN units' : UnitOK(u, units[u])'
    BY NoneAssumption DEF StoreOK, derived, UnitOK, Grows, Ids
  <1>3. \A e \in edges' : where'[e[1][1]] # None /\ where'[e[1][1]] = where'[e[2]]
    BY DEF StoreOK, derived, Grows, Ids
  <1> QED BY <1>1, <1>2, <1>3 DEF StoreOK, derived

------------------------------------------------------------------------------
(* The rows and the calls.                                                    *)
LEMMA ThingsDoc ==
  ASSUME RowsOK, NEW x \in made
  PROVE  DocOK(ThingKey(x), ThingDoc(x))
  <1>0. x \in Streams \cup Actors /\ ThingKey(x) \in Keys
    BY KeyFacts DEF RowsOK
  <1>1. CASE x \in Threads
    <2>1. ParentOf[x] \in Messages
      BY <1>1, RowsAssumption
    <2>2. Range(TextOf(ParentOf[x])) \subseteq Texts
      BY <2>1, TextFacts DEF TextOf, Range
    <2> QED BY <1>0, <1>1, <2>1, <2>2, KeyFacts DEF ThingDoc, Doc, DocOK, Docs, Streams
  <1>2. CASE x \notin Threads
    BY <1>0, <1>2, KeyFacts DEF ThingDoc, Doc, DocOK, Docs, Streams
  <1> QED BY <1>1, <1>2

LEMMA MessagesDoc ==
  ASSUME RowsOK, NEW m \in Messages, message[m] # "none"
  PROVE  DocOK(<<"message", m>>, MessageDoc(m))
  <1>1. Range(TextOf(m)) \subseteq Texts
    BY TextFacts DEF TextOf, Range
  <1>2. where[m] \in Streams /\ where[m] # None
    BY DEF RowsOK
  <1> QED BY <1>1, <1>2 DEF MessageDoc, Doc, DocOK, Docs

LEMMA InitSources == Init => SourcesInv
  <1> SUFFICES ASSUME Init  PROVE SourcesInv
    OBVIOUS
  <1>1. RowsOK
    BY RowsAssumption DEF Init, RowsOK, Streams
  <1>2. CallsOK
    BY DEF Init, CallsOK, CallRows
  <1>3. StoreOK
    <2>1. DOMAIN units = {} /\ edges = {} /\ promotions = {}
      BY DEF Init
    <2>2. \A x \in made : ThingKey(x) \in Keys /\ ThingKey(x)[2] = x
      BY <1>1, KeyFacts DEF RowsOK
    <2>3. \A k \in DOMAIN docs : \E x \in made : k = ThingKey(x) /\ docs[k] = ThingDoc(x)
      BY <2>2 DEF Init
    <2>4. \A k \in DOMAIN docs : k \in Keys /\ DocOK(k, docs[k])
      BY <2>2, <2>3, <1>1, ThingsDoc
    <2> QED BY <2>1, <2>4 DEF StoreOK
  <1>4. FlagsOK
    <2>1. faults \in 0..MaxFaults
      BY BoundsAssumption DEF Init
    <2> QED BY <2>1 DEF Init, FlagsOK
  <1> QED BY <1>1, <1>2, <1>3, <1>4 DEF SourcesInv, Init

(* A step of the core: the rows grow, one event is committed, nothing derived changes. *)
LEMMA CommitSources ==
  ASSUME SourcesInv, NEW e, RowsOK', CallsOK', Grows, EventOK(e)', promotions' \subseteq Ids,
         unpublished' = unpublished \cup {e} \/ unpublished' = unpublished,
         UNCHANGED <<jobs, derived, disturbed, seen>>
  PROVE  SourcesInv'
  <1>1. \A f \in unpublished' : EventOK(f)'
    BY EventStays DEF SourcesInv
  <1>2. \A j \in jobs' : JobOK(j)'
    BY JobStays DEF SourcesInv
  <1>3. StoreOK' /\ FlagsOK'
    BY StoreStays DEF SourcesInv, FlagsOK, seen
  <1> QED BY <1>1, <1>2, <1>3 DEF SourcesInv

LEMMA CreateSources ==
  ASSUME SourcesInv, NEW x \in Streams \cup Actors, NEW shown \in BOOLEAN, Create(x, shown)
  PROVE  SourcesInv'
  <1>1. PICK a \in Actors \cap made :
               members' = IF x \in Channels THEN members \cup {<<x, a>>} ELSE members
    BY DEF Create
  <1>2. RowsOK'
    BY <1>1 DEF SourcesInv, RowsOK, Create
  <1>3. Grows /\ promotions' \subseteq Ids
    BY DEF Create, Grows, SourcesInv, StoreOK
  <1>4. CallsOK'
    BY DEF Create, CallsOK, SourcesInv
  <1>5. EventOK(Event("created", x, None))'
    BY DEF Create, EventOK, Event, Events, EventTypes
  <1> QED BY <1>2, <1>3, <1>4, <1>5, CommitSources DEF Create

LEMMA AppendsSources ==
  ASSUME SourcesInv, NEW m \in Messages, NEW s \in Streams, Appends(m, s)
  PROVE  SourcesInv'
  <1>1. RowsOK'
    <2>1. \A x \in Threads \cap made : where'[ParentOf[x]] = ChannelOf[x]
      <3> TAKE x \in Threads \cap made
      <3>1. where[ParentOf[x]] # None /\ ParentOf[x] \in Messages
        BY RowsAssumption, NoneAssumption DEF SourcesInv, RowsOK, Streams
      <3> QED BY <3>1 DEF SourcesInv, RowsOK, Appends
    <2> QED BY <2>1, NoneAssumption DEF SourcesInv, RowsOK, Appends
  <1>2. Grows /\ promotions' \subseteq Ids
    BY DEF Appends, Grows, SourcesInv, RowsOK, StoreOK
  <1>3. CallsOK'
    BY DEF Appends, CallsOK, SourcesInv, RowsOK
  <1>4. EventOK(Event("message.appended", m, None))'
    BY DEF Appends, EventOK, Event, Events, EventTypes, SourcesInv, RowsOK
  <1> QED BY <1>1, <1>2, <1>3, <1>4, CommitSources DEF Appends

LEMMA RedactSources ==
  ASSUME SourcesInv, NEW c \in Calls, Redact(c)
  PROVE  SourcesInv'
  <1>0. PICK m \in Messages : m = calls[c].of /\ message[m] # "none"
    BY DEF SourcesInv, CallsOK, Redact
  <1>1. RowsOK'
    BY <1>0 DEF SourcesInv, RowsOK, Redact
  <1>2. Grows /\ promotions' \subseteq Ids
    BY <1>0 DEF Redact, Grows, SourcesInv, RowsOK, StoreOK
  <1>3. CallsOK'
    BY <1>0 DEF Redact, CallsOK, CallRows, SourcesInv, RowsOK, Done
  <1>4. EventOK(Event("message.redacted", m, c))'
    BY <1>0 DEF Redact, EventOK, Event, Events, EventTypes, SourcesInv, RowsOK
  <1> QED BY <1>0, <1>1, <1>2, <1>3, <1>4, CommitSources DEF Redact

LEMMA PromoteSources ==
  ASSUME SourcesInv, NEW c \in Calls, Promote(c)
  PROVE  SourcesInv'
  <1>0. PICK u \in Ids : u = calls[c].of
    BY DEF SourcesInv, CallsOK, Promote
  <1>1. RowsOK'
    BY DEF SourcesInv, RowsOK, Promote, rows
  <1>2. Grows /\ promotions' \subseteq Ids
    BY <1>0 DEF Promote, Grows, SourcesInv, StoreOK, rows
  <1>3. CallsOK'
    BY DEF Promote, CallsOK, CallRows, SourcesInv, Done, rows
  <1>4. EventOK(Event("memory.promoted", u, c))'
    BY <1>0 DEF Promote, EventOK, Event, Events, EventTypes
  <1> QED BY <1>0, <1>1, <1>2, <1>3, <1>4, CommitSources DEF Promote

LEMMA CheckSources ==
  ASSUME SourcesInv, NEW c \in Calls,
         \/ \E m \in Messages : CheckRedact(c, m)
         \/ \E a \in Actors, u \in DOMAIN units : CheckPromote(c, a, u)
  PROVE  SourcesInv'
  <1>1. UNCHANGED <<rows, unpublished, jobs, derived, promotions, disturbed, seen>>
    BY DEF CheckRedact, CheckPromote
  <1>2. RowsOK' /\ StoreOK' /\ FlagsOK'
    <2>1. Grows
      BY <1>1 DEF Grows, rows
    <2> QED BY <1>1, <2>1, StoreStays DEF SourcesInv, RowsOK, FlagsOK, rows, seen, StoreOK
  <1>3. CallsOK'
    BY <1>1 DEF SourcesInv, CallsOK, CallRows, CheckRedact, CheckPromote, StoreOK, RowsOK, rows
  <1>4. Grows
    BY <1>1 DEF Grows, rows
  <1> QED BY <1>1, <1>2, <1>3, <1>4, EventStays, JobStays DEF SourcesInv

------------------------------------------------------------------------------
(* The jobs.                                                                  *)
LEMMA PublishSources ==
  ASSUME SourcesInv, NEW e \in unpublished, Publish(e)
  PROVE  SourcesInv'
  <1>1. Grows
    BY DEF Publish, Grows, rows
  <1>2. \A who \in Listeners(e) : JobOK(Job(who, e))
    <2> TAKE who \in Listeners(e)
    <2>1. Job(who, e) \in JobRows(Job(who, e))
      BY DEF Job, JobRows, SourcesInv, EventOK, Stages, Listeners
    <2> QED BY <2>1 DEF Job, JobOK, SourcesInv, OutOK
  <1>3. \A j \in jobs' : JobOK(j)'
    BY <1>1, <1>2, JobStays DEF Publish, SourcesInv
  <1>4. RowsOK' /\ CallsOK' /\ StoreOK' /\ FlagsOK'
    BY <1>1, StoreStays DEF Publish, SourcesInv, RowsOK, CallsOK, FlagsOK, rows, seen, StoreOK
  <1>5. \A f \in unpublished' : EventOK(f)'
    BY <1>1, EventStays DEF Publish, SourcesInv
  <1> QED BY <1>3, <1>4, <1>5 DEF SourcesInv

(* A step of a job changes what is derived, and leaves the job at a next stage. *)
LEMMA StepSources ==
  ASSUME SourcesInv, Frame, StoreOK', \A k \in jobs' : k \in jobs \/ JobOK(k)
  PROVE  SourcesInv'
  <1>1. Grows
    BY DEF Frame, Grows, rows
  <1>2. \A j \in jobs' : JobOK(j)'
    BY <1>1, JobStays DEF SourcesInv
  <1>3. \A f \in unpublished' : EventOK(f)'
    BY <1>1, EventStays DEF Frame, SourcesInv
  <1>4. RowsOK' /\ CallsOK' /\ FlagsOK'
    BY DEF Frame, SourcesInv, RowsOK, CallsOK, FlagsOK, rows, seen
  <1> QED BY <1>2, <1>3, <1>4 DEF SourcesInv

LEMMA TailOK ==
  ASSUME NEW out, OutOK(out), out # <<>>
  PROVE  OutOK(Tail(out)) /\ Head(out) \in Writes
         /\ (Head(out).doc # None => DocOK(Head(out).key, Head(out).doc))
  BY DEF OutOK

LEMMA OneOK ==
  ASSUME NEW w \in Writes, w.doc # None => DocOK(w.key, w.doc)
  PROVE  OutOK(<<w>>)
  BY DEF OutOK

LEMMA AppendOK ==
  ASSUME NEW out, OutOK(out), NEW w \in Writes, w.doc # None => DocOK(w.key, w.doc)
  PROVE  OutOK(Append(out, w))
  <1>1. Append(out, w) \in Seq(Writes) /\ DOMAIN Append(out, w) = 1..(Len(out) + 1)
    BY DEF OutOK
  <1>2. \A i \in 1..(Len(out) + 1) : Append(out, w)[i] = IF i = Len(out) + 1 THEN w ELSE out[i]
    BY DEF OutOK
  <1>3. \A i \in 1..(Len(out) + 1) : i # Len(out) + 1 => i \in DOMAIN out
    BY DEF OutOK
  <1> QED BY <1>1, <1>2, <1>3 DEF OutOK

LEMMA ProceedsSources ==
  ASSUME NEW j \in jobs, JobOK(j), NEW out, OutOK(out), Proceeds(j, out)
  PROVE  \A k \in jobs' : k \in jobs \/ JobOK(k)
  <1>1. CASE out # <<>>
    <2> DEFINE k == [j EXCEPT !.out = out, !.at = "upsert"]
    <2>1. jobs' = (jobs \ {j}) \cup {k}
      BY <1>1 DEF Proceeds, Goes
    <2>2. /\ k \in JobRows(k) /\ k.ev = j.ev /\ k.who = j.who /\ k.out = out
          /\ k.at = "upsert" /\ k.row = j.row
      BY DEF JobOK, JobRows, OutOK, Stages
    <2>3. JobOK(k)
      BY <1>1, <2>2 DEF JobOK
    <2> QED BY <2>1, <2>3
  <1>2. CASE out = <<>> /\ j.left # {}
    <2> DEFINE k == [j EXCEPT !.out = out, !.at = "count"]
    <2>1. jobs' = (jobs \ {j}) \cup {k}
      BY <1>2 DEF Proceeds, Goes
    <2>2. /\ k \in JobRows(k) /\ k.ev = j.ev /\ k.who = j.who /\ k.out = out
          /\ k.at = "count" /\ k.row = j.row
      BY DEF JobOK, JobRows, OutOK, Stages
    <2>3. JobOK(k)
      BY <2>2 DEF JobOK
    <2> QED BY <2>1, <2>3
  <1>3. CASE out = <<>> /\ j.left = {}
    BY <1>3 DEF Proceeds, Ends
  <1> QED BY <1>1, <1>2, <1>3

LEMMA StoreFrame ==
  ASSUME StoreOK, Frame, UNCHANGED derived
  PROVE  StoreOK'
  BY StoreStays DEF Frame, Grows, rows, StoreOK

LEMMA HydrateSources ==
  ASSUME SourcesInv, NEW j \in jobs, Hydrate(j)
  PROVE  SourcesInv'
  <1> DEFINE wanted == Candidates(j.ev.of)
             k == [j EXCEPT !.at = "find", !.todo = wanted]
  <1>1. JobOK(j) /\ j.at = "start" /\ j.ev.type = "message.appended" /\ j.ev.of \in Messages
    BY DEF SourcesInv, Hydrate, At, JobOK, EventOK
  <1>2. CASE wanted = <<>>
    BY <1>2, StoreFrame, StepSources DEF Hydrate, Ends, SourcesInv
  <1>3. CASE wanted # <<>>
    <2>1. wanted \in Seq(Texts)
      BY <1>1, TextFacts DEF Candidates
    <2>2. /\ k \in JobRows(k) /\ k.ev = j.ev /\ k.who = j.who /\ k.out = j.out
          /\ k.at = "find" /\ k.todo = wanted
      BY <1>1, <2>1 DEF JobOK, JobRows, Stages
    <2>3. JobOK(k)
      BY <1>1, <1>3, <2>2 DEF JobOK
    <2>4. jobs' = (jobs \ {j}) \cup {k}
      BY <1>3 DEF Hydrate, Goes
    <2> QED BY <2>3, <2>4, StoreFrame, StepSources DEF Hydrate, SourcesInv
  <1> QED BY <1>2, <1>3

LEMMA FindSources ==
  ASSUME SourcesInv, NEW j \in jobs, Find(j)
  PROVE  SourcesInv'
  <1> DEFINE same == UnitsSaying(where[j.ev.of], Head(j.todo))
  <1>1. /\ JobOK(j) /\ j.at = "find" /\ j.ev.type = "message.appended" /\ j.ev.of \in Messages
        /\ j.todo # <<>>
    BY DEF SourcesInv, Find, At, JobOK, EventOK
  <1>2. CASE same = {}
    <2> DEFINE k == [j EXCEPT !.at = "insert", !.found = FALSE]
    <2>1. /\ k \in JobRows(k) /\ k.ev = j.ev /\ k.who = j.who /\ k.out = j.out
          /\ k.at = "insert" /\ k.todo = j.todo
      BY <1>1 DEF JobOK, JobRows, Stages
    <2>2. JobOK(k)
      BY <1>1, <2>1 DEF JobOK
    <2>3. jobs' = (jobs \ {j}) \cup {k}
      BY <1>2 DEF Find, Goes
    <2> QED BY <2>2, <2>3, StoreFrame, StepSources DEF Find, SourcesInv
  <1>3. CASE same # {}
    <2>1. PICK u \in same : Goes(j, [j EXCEPT !.at = "link", !.found = TRUE,
                                              !.row = [id |-> u, promoted |-> units[u].promoted,
                                                       stream |-> units[u].stream]])
      BY <1>3 DEF Find
    <2> DEFINE r == [id |-> u, promoted |-> units[u].promoted, stream |-> units[u].stream]
               k == [j EXCEPT !.at = "link", !.found = TRUE, !.row = r]
    <2>2. u \in DOMAIN units /\ u \in Ids /\ UnitOK(u, units[u]) /\ units[u].stream = where[j.ev.of]
      BY DEF UnitsSaying, SourcesInv, StoreOK
    <2>3. r \in Found /\ r.stream = where[u[1]] /\ (r.promoted => u \in promotions)
      BY <2>2 DEF Found, UnitOK
    <2>4. /\ k \in JobRows(k) /\ k.ev = j.ev /\ k.who = j.who /\ k.out = j.out
          /\ k.at = "link" /\ k.todo = j.todo /\ k.row = r
      BY <1>1 DEF JobOK, JobRows, Stages
    <2>5. FoundOK(k)
      BY <1>1, <2>2, <2>3, <2>4 DEF FoundOK
    <2>6. JobOK(k)
      BY <1>1, <2>4, <2>5 DEF JobOK
    <2>7. jobs' = (jobs \ {j}) \cup {k}
      BY <2>1 DEF Goes
    <2> QED BY <2>6, <2>7, StoreFrame, StepSources DEF Find, SourcesInv
  <1> QED BY <1>2, <1>3

LEMMA InsertSources ==
  ASSUME SourcesInv, NEW j \in jobs, InsertUnit(j)
  PROVE  SourcesInv'
  <1> DEFINE t == Head(j.todo)
             s == where[j.ev.of]
             u == <<j.ev.of, t>>
             unit == [stream |-> s, text |-> t, promoted |-> FALSE]
             r == [id |-> u, promoted |-> FALSE, stream |-> s]
             k == [j EXCEPT !.at = "link", !.row = r]
  <1>1. /\ JobOK(j) /\ j.at = "insert" /\ j.ev.type = "message.appended" /\ j.ev.of \in Messages
        /\ message[j.ev.of] # "none" /\ j.todo # <<>> /\ j.todo \in Seq(Texts)
    BY DEF SourcesInv, InsertUnit, At, JobOK, EventOK, JobRows
  <1>2. CASE UnitsSaying(s, t) # {}
    BY <1>2, StoreFrame, StepSources DEF InsertUnit, Ends, SourcesInv, derived
  <1>3. CASE UnitsSaying(s, t) = {}
    <2>1. t \in Texts /\ u \in Ids /\ s \in Streams
      BY <1>1 DEF Ids, SourcesInv, RowsOK
    <2>2. units' = Put(units, u, unit) /\ jobs' = (jobs \ {j}) \cup {k}
      BY <1>3 DEF InsertUnit, Goes
    <2>3. StoreOK'
      <3>1. UnitOK(u, unit)
        BY <2>1 DEF UnitOK
      <3>2. \A v \in DOMAIN units' : v \in Ids /\ UnitOK(v, units'[v])
        BY <2>1, <2>2, <3>1 DEF Put, SourcesInv, StoreOK
      <3>3. UNCHANGED <<where, promotions, edges, docs, made>>
        BY DEF InsertUnit, Frame, rows
      <3> QED BY <3>2, <3>3 DEF SourcesInv, StoreOK, UnitOK, DocOK
    <2>4. /\ k \in JobRows(k) /\ k.ev = j.ev /\ k.who = j.who /\ k.out = j.out
          /\ k.at = "link" /\ k.todo = j.todo /\ k.row = r
      BY <1>1 DEF JobOK, JobRows, Stages
    <2>5. FoundOK(k)
      BY <1>1, <2>1, <2>4 DEF FoundOK, Found
    <2>6. JobOK(k)
      BY <1>1, <2>4, <2>5 DEF JobOK
    <2> QED BY <2>2, <2>3, <2>6, StepSources DEF InsertUnit
  <1> QED BY <1>2, <1>3

LEMMA NotedSources ==
  ASSUME SourcesInv, NEW j \in jobs, JobOK(j), j.at \in {"link", "reload"},
         NEW sources \in SUBSET Messages, \A m \in sources : where[m] = j.row.stream
  PROVE  JobOK(Noted(j, sources))
  <1> DEFINE w == Upsert(<<"memory", j.row.id>>,
                         MemoryDoc(j.row.stream, Head(j.todo), sources, j.row.promoted))
             k == Noted(j, sources)
  <1>1. /\ j.todo # <<>> /\ j.todo \in Seq(Texts) /\ FoundOK(j) /\ OutOK(j.out)
        /\ j.ev.type = "message.appended"
    BY DEF JobOK, JobRows
  <1>2. w \in Writes /\ DocOK(w.key, w.doc)
    BY <1>1, KeyFacts, NoneAssumption
       DEF Upsert, MemoryDoc, Doc, Writes, FoundOK, Found, DocOK, Docs
  <1>3. OutOK(Append(j.out, w)) /\ Append(j.out, w) # <<>> /\ Head(Append(j.out, w)) \in Writes
    BY <1>1, <1>2, AppendOK, TailOK DEF OutOK
  <1>4. Tail(j.todo) \in Seq(Texts)
    BY <1>1
  <1>5. /\ k.ev = j.ev /\ k.who = j.who /\ k.out = Append(j.out, w) /\ k.row = j.row
        /\ k.todo = Tail(j.todo) /\ k.at = IF Tail(j.todo) = <<>> THEN "upsert" ELSE "find"
        /\ k \in JobRows(k)
    BY <1>3, <1>4 DEF Noted, JobOK, JobRows, Stages, OutOK
  <1> QED BY <1>1, <1>3, <1>5 DEF JobOK

LEMMA LinkSources ==
  ASSUME SourcesInv, NEW j \in jobs, Link(j)
  PROVE  SourcesInv'
  <1>1. /\ JobOK(j) /\ j.at = "link" /\ j.ev.type = "message.appended" /\ j.ev.of \in Messages
        /\ FoundOK(j)
    BY DEF SourcesInv, Link, At, JobOK, EventOK
  <1>2. StoreOK'
    <2>1. j.row.id \in Ids /\ where[j.row.id[1]] = where[j.ev.of] /\ where[j.ev.of] # None
      BY <1>1, NoneAssumption DEF FoundOK, Found
    <2>2. edges' = edges \cup {<<j.row.id, j.ev.of>>} /\ UNCHANGED <<units, docs, where, made, promotions>>
      BY DEF Link, Frame, rows
    <2> QED BY <1>1, <2>1, <2>2 DEF SourcesInv, StoreOK, UnitOK, DocOK
  <1>3. CASE j.found
    <2> DEFINE k == [j EXCEPT !.at = "reload"]
    <2>1. /\ k \in JobRows(k) /\ k.ev = j.ev /\ k.who = j.who /\ k.out = j.out
          /\ k.at = "reload" /\ k.todo = j.todo /\ k.row = j.row
      BY <1>1 DEF JobOK, JobRows, Stages
    <2>2. JobOK(k)
      BY <1>1, <2>1 DEF JobOK, FoundOK
    <2>3. jobs' = (jobs \ {j}) \cup {k}
      BY <1>3 DEF Link, Goes
    <2> QED BY <1>2, <2>2, <2>3, StepSources DEF Link
  <1>4. CASE ~j.found
    <2>1. JobOK(Noted(j, {j.ev.of}))
      BY <1>1, NotedSources DEF FoundOK
    <2>2. jobs' = (jobs \ {j}) \cup {Noted(j, {j.ev.of})}
      BY <1>4 DEF Link, Goes
    <2> QED BY <1>2, <2>1, <2>2, StepSources DEF Link
  <1> QED BY <1>3, <1>4

LEMMA SourcesAgree ==
  ASSUME SourcesInv, NEW u \in Ids
  PROVE  /\ SourcesOf(u) \in SUBSET Messages
         /\ \A m \in SourcesOf(u) : where[m] = where[u[1]] /\ where[m] # None
  BY DEF SourcesOf, SourcesInv, StoreOK

LEMMA ReloadSources ==
  ASSUME SourcesInv, NEW j \in jobs, Reload(j)
  PROVE  SourcesInv'
  <1>1. JobOK(j) /\ j.at = "reload" /\ j.row.id \in Ids /\ j.row.stream = where[j.row.id[1]]
    BY DEF SourcesInv, Reload, At, JobOK, FoundOK, Found
  <1>2. JobOK(Noted(j, SourcesOf(j.row.id)))
    BY <1>1, NotedSources, SourcesAgree
  <1>3. jobs' = (jobs \ {j}) \cup {Noted(j, SourcesOf(j.row.id))}
    BY DEF Reload, Goes
  <1> QED BY <1>2, <1>3, StoreFrame, StepSources DEF Reload, SourcesInv

LEMMA PromotionSources ==
  ASSUME SourcesInv, NEW j \in jobs, ApplyPromotion(j)
  PROVE  SourcesInv'
  <1> DEFINE u == j.ev.of
             k == [j EXCEPT !.at = "load", !.row = u]
  <1>1. JobOK(j) /\ j.at = "start" /\ j.ev.type = "memory.promoted" /\ u \in promotions /\ u \in Ids
    BY DEF SourcesInv, ApplyPromotion, At, JobOK, EventOK, StoreOK
  <1>2. StoreOK'
    <2>1. \A v \in DOMAIN units' : v \in DOMAIN units /\ UnitOK(v, units'[v])
      BY <1>1 DEF ApplyPromotion, SourcesInv, StoreOK, UnitOK
    <2>2. UNCHANGED <<edges, docs, where, made, promotions>>
      BY DEF ApplyPromotion, Frame, rows
    <2> QED BY <2>1, <2>2 DEF SourcesInv, StoreOK, UnitOK, DocOK
  <1>3. /\ k \in JobRows(k) /\ k.ev = j.ev /\ k.who = j.who /\ k.out = j.out
        /\ k.at = "load" /\ k.row = u
    BY <1>1 DEF JobOK, JobRows, Stages
  <1>4. JobOK(k)
    BY <1>1, <1>3 DEF JobOK
  <1>5. jobs' = (jobs \ {j}) \cup {k}
    BY DEF ApplyPromotion, Goes
  <1> QED BY <1>2, <1>4, <1>5, StepSources DEF ApplyPromotion

LEMMA LinkedSources ==
  ASSUME SourcesInv, NEW j \in jobs, Linked(j)
  PROVE  SourcesInv'
  <1> DEFINE linked == {u \in Ids : <<u, j.ev.of>> \in edges}
             k == [j EXCEPT !.at = "unlink", !.left = linked]
  <1>1. JobOK(j)
    BY DEF SourcesInv
  <1>2. CASE linked = {}
    BY <1>2, StoreFrame, StepSources DEF Linked, Ends, SourcesInv
  <1>3. CASE linked # {}
    <2>1. k \in JobRows(k) /\ k.ev = j.ev /\ k.who = j.who /\ k.out = j.out /\ k.at = "unlink"
      BY <1>1 DEF JobOK, JobRows, Stages
    <2>2. JobOK(k)
      BY <1>1, <2>1 DEF JobOK
    <2>3. jobs' = (jobs \ {j}) \cup {k}
      BY <1>3 DEF Linked, Goes
    <2> QED BY <2>2, <2>3, StoreFrame, StepSources DEF Linked, SourcesInv
  <1> QED BY <1>2, <1>3

LEMMA UnlinkSources ==
  ASSUME SourcesInv, NEW j \in jobs, Unlink(j)
  PROVE  SourcesInv'
  <1> DEFINE k == [j EXCEPT !.at = "count"]
  <1>1. JobOK(j)
    BY DEF SourcesInv
  <1>2. k \in JobRows(k) /\ k.ev = j.ev /\ k.who = j.who /\ k.out = j.out /\ k.at = "count"
    BY <1>1 DEF JobOK, JobRows, Stages
  <1>3. JobOK(k)
    BY <1>1, <1>2 DEF JobOK
  <1>4. jobs' = (jobs \ {j}) \cup {k}
    BY DEF Unlink, Goes
  <1>5. StoreOK'
    BY DEF Unlink, Frame, rows, SourcesInv, StoreOK, UnitOK, DocOK
  <1> QED BY <1>3, <1>4, <1>5, StepSources DEF Unlink

LEMMA CountSources ==
  ASSUME SourcesInv, NEW j \in jobs, Count(j)
  PROVE  SourcesInv'
  <1>1. JobOK(j)
    BY DEF SourcesInv
  <1>2. PICK u \in j.left : Goes(j, [j EXCEPT !.row = u, !.left = @ \ {u},
                                              !.at = IF SourcesOf(u) = {} THEN "drop" ELSE "load"])
    BY DEF Count
  <1> DEFINE at == IF SourcesOf(u) = {} THEN "drop" ELSE "load"
             k == [j EXCEPT !.row = u, !.left = @ \ {u}, !.at = at]
  <1>3. u \in Ids
    BY <1>1 DEF JobOK, JobRows
  <1>4. /\ k \in JobRows(k) /\ k.ev = j.ev /\ k.who = j.who /\ k.out = j.out
        /\ k.row = u /\ k.at \in {"drop", "load"}
    BY <1>1 DEF JobOK, JobRows, Stages
  <1>5. JobOK(k)
    BY <1>1, <1>3, <1>4 DEF JobOK
  <1>6. jobs' = (jobs \ {j}) \cup {k}
    BY <1>2 DEF Goes
  <1> QED BY <1>5, <1>6, StoreFrame, StepSources DEF Count, SourcesInv

LEMMA DropSources ==
  ASSUME SourcesInv, NEW j \in jobs, Drop(j)
  PROVE  SourcesInv'
  <1> DEFINE w == Delete(<<"memory", j.row>>)
             k == [j EXCEPT !.at = "upsert", !.out = <<w>>]
  <1>1. JobOK(j) /\ j.row \in Ids
    BY DEF SourcesInv, Drop, At, JobOK
  <1>2. w \in Writes /\ w.doc = None
    BY <1>1, KeyFacts DEF Delete, Writes
  <1>3. OutOK(<<w>>) /\ <<w>> # <<>>
    BY <1>2, OneOK
  <1>4. k \in JobRows(k) /\ k.ev = j.ev /\ k.who = j.who /\ k.out = <<w>> /\ k.at = "upsert"
    BY <1>1, <1>3 DEF JobOK, JobRows, Stages, OutOK
  <1>5. JobOK(k)
    BY <1>1, <1>3, <1>4 DEF JobOK
  <1>6. jobs' = (jobs \ {j}) \cup {k}
    BY DEF Drop, Goes
  <1>7. StoreOK'
    BY DEF Drop, Frame, rows, SourcesInv, StoreOK, UnitOK, DocOK
  <1> QED BY <1>5, <1>6, <1>7, StepSources DEF Drop

LEMMA LoadSources ==
  ASSUME SourcesInv, NEW j \in jobs, Load(j)
  PROVE  SourcesInv'
  <1> DEFINE u == j.row
             w == Upsert(<<"memory", u>>, MemoryDoc(units[u].stream, units[u].text, SourcesOf(u),
                                                    units[u].promoted))
  <1>1. JobOK(j) /\ u \in Ids
    BY DEF SourcesInv, Load, JobOK
  <1>2. CASE u \in DOMAIN units
    <2>1. UnitOK(u, units[u])
      BY <1>2 DEF SourcesInv, StoreOK
    <2>2. w \in Writes /\ DocOK(w.key, w.doc)
      BY <1>1, <2>1, KeyFacts, SourcesAgree, NoneAssumption
         DEF Upsert, MemoryDoc, Doc, Writes, DocOK, Docs, UnitOK
    <2>3. OutOK(<<w>>)
      BY <2>2, OneOK
    <2> QED BY <1>1, <1>2, <2>3, ProceedsSources, StoreFrame, StepSources DEF Load, SourcesInv
  <1>3. CASE u \notin DOMAIN units
    <2>1. OutOK(<<>>)
      BY DEF OutOK
    <2> QED BY <1>1, <1>3, <2>1, ProceedsSources, StoreFrame, StepSources DEF Load, SourcesInv
  <1> QED BY <1>2, <1>3

LEMMA IndexSources ==
  ASSUME SourcesInv, NEW j \in jobs, Index(j)
  PROVE  SourcesInv'
  <1> DEFINE e == j.ev
             write == CASE e.type = "created" -> Upsert(ThingKey(e.of), ThingDoc(e.of))
                        [] e.type = "message.appended" -> Upsert(<<"message", e.of>>, MessageDoc(e.of))
                        [] OTHER -> Delete(<<"message", e.of>>)
  <1>1. JobOK(j) /\ EventOK(e) /\ j.who = "search" /\ j.who \in Listeners(e) /\ RowsOK
    BY DEF SourcesInv, Index, JobOK
  <1>2. write \in Writes /\ (write.doc # None => DocOK(write.key, write.doc))
    <2>1. CASE e.type = "created"
      <3>1. e.of \in made /\ e.of \in Streams \cup Actors
        BY <1>1, <2>1 DEF EventOK, RowsOK
      <3>2. DocOK(ThingKey(e.of), ThingDoc(e.of)) /\ ThingKey(e.of) \in Keys
        BY <1>1, <3>1, ThingsDoc, KeyFacts
      <3> QED BY <2>1, <3>2 DEF Upsert, Writes, DocOK
    <2>2. CASE e.type = "message.appended"
      <3>1. DocOK(<<"message", e.of>>, MessageDoc(e.of)) /\ <<"message", e.of>> \in Keys
        BY <1>1, <2>2, MessagesDoc, KeyFacts DEF EventOK
      <3> QED BY <2>2, <3>1 DEF Upsert, Writes, DocOK
    <2>3. CASE e.type = "message.redacted"
      <3>1. <<"message", e.of>> \in Keys
        BY <1>1, <2>3, KeyFacts DEF EventOK
      <3> QED BY <2>3, <3>1 DEF Delete, Writes
    <2> QED BY <1>1, <2>1, <2>2, <2>3 DEF Listeners, EventOK, Events, EventTypes
  <1>3. CASE e.type = "message.appended" /\ TextOf(e.of) = <<>>
    BY <1>3, StoreFrame, StepSources DEF Index, Ends, SourcesInv
  <1>4. CASE ~(e.type = "message.appended" /\ TextOf(e.of) = <<>>)
    <2> DEFINE at == IF write.doc = None THEN "upsert" ELSE "write"
               k == [j EXCEPT !.at = at, !.found = write.key \in DOMAIN docs, !.out = <<write>>]
    <2>1. OutOK(<<write>>) /\ <<write>> # <<>> /\ Head(<<write>>) = write
      BY <1>2, OneOK
    <2>2. /\ k \in JobRows(k) /\ k.ev = j.ev /\ k.who = "search" /\ k.out = <<write>>
          /\ k.at = at
      <3> HIDE DEF write
      <3> QED BY <1>1, <2>1 DEF JobOK, JobRows, Stages, OutOK
    <2>3. JobOK(k)
      BY <1>1, <2>1, <2>2 DEF JobOK
    <2>4. jobs' = (jobs \ {j}) \cup {k}
      BY <1>4 DEF Index, Goes
    <2> QED BY <2>3, <2>4, StoreFrame, StepSources DEF Index, SourcesInv
  <1> QED BY <1>3, <1>4

LEMMA LookSources ==
  ASSUME SourcesInv, NEW j \in jobs, Look(j)
  PROVE  SourcesInv'
  <1> DEFINE w == Head(j.out)
  <1>1. JobOK(j) /\ j.at = "upsert" /\ OutOK(j.out) /\ j.out # <<>>
    BY DEF SourcesInv, Look, JobOK
  <1>2. CASE w.doc = None
    <2>1. StoreOK'
      BY <1>2 DEF Look, Frame, rows, SourcesInv, StoreOK, UnitOK, DocOK
    <2>2. OutOK(Tail(j.out)) /\ Proceeds(j, Tail(j.out))
      BY <1>1, <1>2, TailOK DEF Look
    <2> QED BY <1>1, <2>1, <2>2, ProceedsSources, StepSources DEF Look
  <1>3. CASE w.doc # None
    <2> DEFINE k == [j EXCEPT !.at = "write", !.found = w.key \in DOMAIN docs]
    <2>1. /\ k \in JobRows(k) /\ k.ev = j.ev /\ k.who = j.who /\ k.out = j.out
          /\ k.at = "write"
      BY <1>1 DEF JobOK, JobRows, Stages
    <2>2. JobOK(k)
      BY <1>1, <1>3, <2>1 DEF JobOK
    <2>3. jobs' = (jobs \ {j}) \cup {k}
      BY <1>3 DEF Look, Goes
    <2>4. UNCHANGED derived
      BY <1>3 DEF Look, derived
    <2> QED BY <2>2, <2>3, <2>4, StoreFrame, StepSources DEF Look, SourcesInv
  <1> QED BY <1>2, <1>3

LEMMA WriteSources ==
  ASSUME SourcesInv, NEW j \in jobs, Write(j)
  PROVE  SourcesInv'
  <1> DEFINE w == Head(j.out)
  <1>1. JobOK(j) /\ j.at = "write" /\ OutOK(j.out) /\ j.out # <<>> /\ w.doc # None
    BY DEF SourcesInv, Write, JobOK
  <1>2. w.key \in Keys /\ DocOK(w.key, w.doc) /\ OutOK(Tail(j.out))
    BY <1>1, TailOK DEF Writes
  <1>3. StoreOK'
    BY <1>2 DEF Write, Put, Frame, rows, SourcesInv, StoreOK, UnitOK, DocOK
  <1> QED BY <1>1, <1>2, <1>3, ProceedsSources, StepSources DEF Write

LEMMA FaultSources ==
  ASSUME SourcesInv, Crash \/ \E j \in jobs : Breaks(j)
  PROVE  SourcesInv'
  <1>1. Grows /\ jobs' \subseteq jobs /\ unpublished' \subseteq unpublished
    BY DEF Crash, Breaks, Grows, rows, Ends
  <1>2. FlagsOK'
    <2>1. faults' = faults + 1 /\ faults < MaxFaults /\ faults \in Nat
      BY DEF Crash, Breaks, SourcesInv, FlagsOK
    <2>2. faults' \in 0..MaxFaults
      BY <2>1, BoundsAssumption
    <2> QED BY <2>2 DEF Crash, Breaks, SourcesInv, FlagsOK
  <1>3. RowsOK' /\ StoreOK'
    BY <1>1, StoreStays DEF Crash, Breaks, SourcesInv, RowsOK, rows, StoreOK
  <1>4. CallsOK'
    BY DEF Crash, Breaks, SourcesInv, CallsOK, CallRows, Done, rows
  <1> QED BY <1>1, <1>2, <1>3, <1>4, EventStays, JobStays DEF SourcesInv

LEMMA RestartSources ==
  ASSUME SourcesInv, Restart
  PROVE  SourcesInv'
  <1>1. Grows
    BY DEF Restart, Grows, rows
  <1>2. \A k \in DOMAIN Backfilled : k \in Keys /\ DocOK(k, Backfilled[k])
    <2> TAKE k \in DOMAIN Backfilled
    <2>1. CASE k \in ThingKeys
      <3>1. PICK x \in made : k = ThingKey(x)
        BY <2>1 DEF ThingKeys
      <3>2. k \in Keys /\ k[2] = x
        BY <3>1, KeyFacts DEF SourcesInv, RowsOK
      <3> QED BY <2>1, <3>1, <3>2, ThingsDoc DEF Backfilled, SourcesInv
    <2>2. CASE k \notin ThingKeys /\ k \in LiveKeys
      <3>1. PICK m \in Messages : k = <<"message", m>> /\ message[m] # "none"
        BY <2>2 DEF LiveKeys, Live
      <3>2. k[2] = m /\ k \in Keys
        BY <3>1, KeyFacts
      <3> QED BY <2>2, <3>1, <3>2, MessagesDoc DEF Backfilled, SourcesInv
    <2>3. CASE k \notin ThingKeys /\ k \notin LiveKeys
      BY <2>3 DEF Backfilled, SourcesInv, StoreOK
    <2> QED BY <2>1, <2>2, <2>3
  <1>3. StoreOK'
    BY <1>2 DEF Restart, rows, SourcesInv, StoreOK, UnitOK, DocOK
  <1>4. RowsOK' /\ CallsOK' /\ FlagsOK'
    BY DEF Restart, SourcesInv, RowsOK, CallsOK, FlagsOK, rows
  <1> QED BY <1>1, <1>3, <1>4, EventStays, JobStays DEF SourcesInv, Restart

LEMMA SourcesStay == SourcesInv /\ [Next]_vars => SourcesInv'
  <1> SUFFICES ASSUME SourcesInv, [Next]_vars  PROVE SourcesInv'
    OBVIOUS
  <1>1. CASE UNCHANGED vars
    <2>1. Grows /\ UNCHANGED <<rows, derived, jobs, unpublished, calls, promotions, seen, disturbed>>
      BY <1>1 DEF vars, Grows, rows
    <2>2. RowsOK' /\ CallsOK' /\ FlagsOK' /\ StoreOK'
      BY <2>1, StoreStays DEF SourcesInv, RowsOK, CallsOK, FlagsOK, rows, seen, StoreOK
    <2> QED BY <2>1, <2>2, EventStays, JobStays DEF SourcesInv
  <1>2. CASE JobStep
    <2>1. PICK j \in jobs :
            \/ Hydrate(j) \/ Find(j) \/ InsertUnit(j) \/ Link(j) \/ Reload(j)
            \/ ApplyPromotion(j) \/ Linked(j) \/ Unlink(j) \/ Count(j) \/ Drop(j) \/ Load(j)
            \/ Index(j) \/ Look(j) \/ Write(j)
      BY <1>2 DEF JobStep
    <2> QED BY <2>1, HydrateSources, FindSources, InsertSources, LinkSources, ReloadSources,
               PromotionSources, LinkedSources, UnlinkSources, CountSources, DropSources,
               LoadSources, IndexSources, LookSources, WriteSources
  <1>3. CASE \E x \in Streams \cup Actors, shown \in BOOLEAN : Create(x, shown)
    BY <1>3, CreateSources
  <1>4. CASE \E m \in Messages, s \in Streams : Appends(m, s)
    BY <1>4, AppendsSources
  <1>5. CASE \/ \E c \in Calls, m \in Messages : CheckRedact(c, m)
             \/ \E c \in Calls, a \in Actors, u \in DOMAIN units : CheckPromote(c, a, u)
    BY <1>5, CheckSources
  <1>6. CASE \E c \in Calls : Redact(c) \/ Promote(c)
    BY <1>6, RedactSources, PromoteSources
  <1>7. CASE \E e \in unpublished : Publish(e)
    BY <1>7, PublishSources
  <1>8. CASE Crash \/ \E j \in jobs : Breaks(j)
    BY <1>8, FaultSources
  <1>9. CASE Restart
    BY <1>9, RestartSources
  <1> QED BY <1>1, <1>2, <1>3, <1>4, <1>5, <1>6, <1>7, <1>8, <1>9 DEF Next

(* Every variable has its type: one row for each unit, one document for each   *)
(* key, and every job waits for a listener its event has (event-bus.ts).      *)
THEOREM TypeCorrect == Spec => []TypeOK
  <1>1. SourcesInv => TypeOK
    <2> SUFFICES ASSUME SourcesInv  PROVE TypeOK
      OBVIOUS
    <2>1. \A m \in Messages : where[m] \in Streams <=> message[m] # "none"
      BY NoneAssumption DEF SourcesInv, RowsOK
    <2>2. \A j \in jobs : j.who \in Listeners(j.ev) /\ j.left \subseteq Ids
      BY DEF SourcesInv, JobOK, JobRows
    <2>3. \A u \in DOMAIN units : units[u] \in [stream : Streams, text : Texts, promoted : BOOLEAN]
      BY DEF SourcesInv, StoreOK, UnitOK
    <2>4. \A k \in DOMAIN docs : k[1] \in Kinds /\ docs[k] \in Docs
      BY DEF SourcesInv, StoreOK, DocOK, Keys
    <2>5. faults \in 0..MaxFaults /\ DOMAIN calls = Calls /\ members \subseteq Channels \X Actors
      BY DEF SourcesInv, FlagsOK, CallsOK, RowsOK
    <2> QED BY <2>1, <2>2, <2>3, <2>4, <2>5
            DEF TypeOK, SourcesInv, RowsOK, StoreOK, FlagsOK
  <1> QED BY <1>1, InitSources, SourcesStay, PTL DEF Spec

------------------------------------------------------------------------------
(* Who is shown what.                                                         *)

LEMMA ReadsEither ==
  ASSUME RowsOK, NEW a \in Actors, NEW x \in Threads \cap made, ChannelOf[x] \in made,
         ~WiderThread(x)
  PROVE  CanRead(a, x) <=> CanRead(a, ChannelOf[x])
  BY RowsAssumption DEF CanRead, ChannelFor, WiderThread

LEMMA DocsShown ==
  ASSUME SourcesInv, NEW a \in Actors, NEW key \in SearchHits(a, Texts),
         ~(key[1] = "memory" /\ key[2] \in promotions), NEW m \in docs[key].from
  PROVE  MayRead(a, m) \/ WiderThread(docs[key].stream)
  <1>1. key \in DOMAIN docs /\ DocOK(key, docs[key]) /\ Visible(a, key) /\ RowsOK
    BY DEF SearchHits, ScoredDocs, SourcesInv, StoreOK
  <1>2. key[1] \in {"thread", "message", "memory"}
    BY <1>1 DEF SourcesInv, StoreOK, Keys, Kinds, DocOK
  <1>3. CanRead(a, docs[key].stream)
    BY <1>1, <1>2 DEF Visible, DocOK
  <1>4. CASE key[1] = "thread"
    <2> DEFINE x == docs[key].stream
    <2>1. x \in Threads \cap made /\ where[m] = ChannelOf[x]
      BY <1>1, <1>4 DEF DocOK, RowsOK
    <2>2. ChannelOf[x] \in made
      BY <2>1, <1>1, RowsAssumption, NoneAssumption DEF RowsOK, Streams, DocOK, Docs
    <2> QED BY <1>1, <1>3, <2>1, <2>2, ReadsEither DEF MayRead
  <1>5. CASE key[1] # "thread"
    BY <1>1, <1>2, <1>3, <1>5 DEF DocOK, MayRead
  <1> QED BY <1>4, <1>5

LEMMA UnitsShown ==
  ASSUME SourcesInv, NEW a \in Actors,
         NEW u \in (UNION {MemoryOfStream(a, s) : s \in Streams}) \cup MemoryById(a)
                   \cup MemoryHits(a, Texts),
         u \notin promotions, NEW m \in SourcesOf(u) \cup {u[1]}
  PROVE  MayRead(a, m) \/ WiderThread(units[u].stream)
  <1> DEFINE s == units[u].stream
  <1>0. \/ u \in DOMAIN units /\ CanRead(a, s)
        \/ u \in DOMAIN units /\ (~units[u].promoted => CanRead(a, s))
        \/ u \in DOMAIN units /\ (~units[u].promoted => s \in VisibleStreams(a))
    <2> DEFINE Streamed == UNION {MemoryOfStream(a, t) : t \in Streams}
    <2>0. u \in Streamed \cup MemoryById(a) \cup MemoryHits(a, Texts)
      OBVIOUS
    <2> HIDE DEF Streamed
    <2>1. CASE u \in Streamed
      <3>1. PICK t \in Streams : u \in MemoryOfStream(a, t)
        BY <2>1 DEF Streamed
      <3>2. CanRead(a, t) /\ u \in UnitsOf(t)
        BY <3>1 DEF MemoryOfStream
      <3> QED BY <3>2 DEF UnitsOf
    <2>2. CASE u \in MemoryById(a)
      BY <2>2 DEF MemoryById
    <2>3. CASE u \in MemoryHits(a, Texts)
      <3>1. u \in ScoredUnits(Texts) /\ (units[u].promoted \/ s \in VisibleStreams(a))
        BY <2>3 DEF MemoryHits
      <3>2. u \in DOMAIN units
        BY <3>1 DEF ScoredUnits
      <3> QED BY <3>1, <3>2
    <2> QED BY <2>0, <2>1, <2>2, <2>3
  <1>1. u \in DOMAIN units /\ u \in Ids /\ UnitOK(u, units[u]) /\ RowsOK
    BY <1>0 DEF SourcesInv, StoreOK
  <1>2. s \in Streams /\ ~units[u].promoted /\ where[m] = s
    BY <1>1, SourcesAgree DEF UnitOK
  <1>3. CanRead(a, s) \/ s \in VisibleStreams(a)
    BY <1>0, <1>2
  <1>4. CASE CanRead(a, s)
    BY <1>2, <1>4 DEF MayRead
  <1>5. CASE s \in VisibleStreams(a)
    BY <1>1, <1>2, <1>5, ReadsEither DEF VisibleStreams, MayRead
  <1> QED BY <1>3, <1>4, <1>5

(* Whatever overlaps, fails or crashes, the routes of memory.ts and search.ts  *)
(* show nobody a text of a stream they cannot read, but for promoted units and *)
(* threads more or less visible than their channel.                           *)
THEOREM AlwaysReadable == Spec => []ShownIsReadable
  <1>1. SourcesInv => ShownIsReadable
    BY DocsShown, UnitsShown DEF ShownIsReadable
  <1> QED BY <1>1, InitSources, SourcesStay, PTL DEF Spec

------------------------------------------------------------------------------
(* Every live message is found.                                               *)

(* What a live message's document says. *)
Said(m) == Doc(where[m], Range(Says[m]), {m}, FALSE)

(* Which documents a job writes and deletes. *)
WritesOnly(j) ==
  /\ j.who = "memory" => \A i \in DOMAIN j.out : j.out[i].key[1] = "memory"
  /\ j.who = "search" =>
       /\ j.at \in {"start", "upsert", "write"} /\ j.left = {}
       /\ j.at # "start" => Len(j.out) = 1
       /\ j.at = "upsert" => /\ j.ev.type = "message.redacted"
                             /\ Head(j.out) = Delete(<<"message", j.ev.of>>)
       /\ j.at = "write" =>
            \/ j.ev.type = "created" /\ Head(j.out).key = ThingKey(j.ev.of)
            \/ /\ j.ev.type = "message.appended"
               /\ Head(j.out) = Upsert(<<"message", j.ev.of>>, Said(j.ev.of))

Pending(type, of) == \E e \in unpublished : e.type = type /\ e.of = of

(* A job that is going to write the document of `of', and finds it as it was. *)
Indexes(j, type, of, key) ==
  /\ j.who = "search" /\ j.ev.type = type /\ j.ev.of = of
  /\ j.at = "start" \/ (j.at = "write" /\ j.found = (key \in DOMAIN docs))

IsFound(m) ==
  <<"message", m>> \in DOMAIN docs /\ docs[<<"message", m>>] = MessageDoc(m)

Findable ==
  /\ \A m \in Live : \/ IsFound(m) \/ Pending("message.appended", m)
                     \/ \E j \in jobs : Indexes(j, "message.appended", m, <<"message", m>>)
  /\ \A x \in made : \/ ThingKey(x) \in DOMAIN docs \/ Pending("created", x)
                     \/ \E j \in jobs : Indexes(j, "created", x, ThingKey(x))

FoundInv ==
  /\ SourcesInv
  /\ \A j \in jobs : WritesOnly(j)
  /\ ~missed => Findable

LEMMA SaidStays ==
  ASSUME SourcesInv, Grows, NEW j \in jobs, j.ev.type = "message.appended"
  PROVE  Said(j.ev.of)' = Said(j.ev.of)
  <1>1. j.ev.of \in Messages /\ message[j.ev.of] # "none"
    BY DEF SourcesInv, JobOK, EventOK
  <1>2. where'[j.ev.of] = where[j.ev.of]
    BY <1>1 DEF Grows, SourcesInv, RowsOK
  <1> QED BY <1>2 DEF Said, Doc

LEMMA OnlyStays ==
  ASSUME SourcesInv, Grows, NEW j \in jobs, WritesOnly(j)
  PROVE  WritesOnly(j)'
  <1>1. j.ev.type = "message.appended" => Said(j.ev.of)' = Said(j.ev.of)
    BY SaidStays
  <1> QED BY <1>1 DEF WritesOnly, ThingKey, Upsert, Delete

LEMMA SaidFrame ==
  ASSUME Frame, NEW j, WritesOnly(j)
  PROVE  WritesOnly(j)'
  <1>1. UNCHANGED where
    BY DEF Frame, rows
  <1> QED BY <1>1 DEF WritesOnly, ThingKey, Upsert, Delete, Said, Doc

LEMMA MemoryOnly ==
  ASSUME NEW k, k.who = "memory", \A i \in DOMAIN k.out : k.out[i].key[1] = "memory"
  PROVE  WritesOnly(k)
  BY DEF WritesOnly

LEMMA SameOnly ==
  ASSUME NEW j, WritesOnly(j), j.who = "memory", NEW k, k.who = "memory", k.out = j.out
  PROVE  WritesOnly(k)
  BY DEF WritesOnly

LEMMA ProceedsOnly ==
  ASSUME NEW j \in jobs, JobOK(j), j.who = "memory", NEW out,
         \A i \in DOMAIN out : out[i].key[1] = "memory", Proceeds(j, out)
  PROVE  \A k \in jobs' : k \in jobs \/ WritesOnly(k)
  <1>1. CASE out # <<>>
    <2> DEFINE k == [j EXCEPT !.out = out, !.at = "upsert"]
    <2>1. k.who = "memory" /\ k.out = out
      BY DEF JobOK, JobRows
    <2> QED BY <1>1, <2>1, MemoryOnly DEF Proceeds, Goes
  <1>2. CASE out = <<>> /\ j.left # {}
    <2> DEFINE k == [j EXCEPT !.out = out, !.at = "count"]
    <2>1. k.who = "memory" /\ k.out = out
      BY DEF JobOK, JobRows
    <2>2. jobs' = (jobs \ {j}) \cup {k}
      BY <1>2 DEF Proceeds, Goes
    <2>3. WritesOnly(k)
      BY <2>1, MemoryOnly
    <2> QED BY <2>2, <2>3
  <1>3. CASE out = <<>> /\ j.left = {}
    BY <1>3 DEF Proceeds, Ends
  <1> QED BY <1>1, <1>2, <1>3

LEMMA NotedOnly ==
  ASSUME NEW j, JobOK(j), j.who = "memory", WritesOnly(j), NEW sources
  PROVE  WritesOnly(Noted(j, sources))
  <1> DEFINE w == Upsert(<<"memory", j.row.id>>,
                         MemoryDoc(j.row.stream, Head(j.todo), sources, j.row.promoted))
             k == Noted(j, sources)
  <1>1. w.key[1] = "memory" /\ k.who = "memory" /\ k.out = Append(j.out, w)
    BY DEF Upsert, Noted, JobOK, JobRows
  <1>2. DOMAIN Append(j.out, w) = 1..(Len(j.out) + 1)
        /\ \A i \in 1..(Len(j.out) + 1) :
             Append(j.out, w)[i] = IF i = Len(j.out) + 1 THEN w ELSE j.out[i]
    BY DEF JobOK, OutOK
  <1>3. \A i \in 1..(Len(j.out) + 1) : i # Len(j.out) + 1 => i \in DOMAIN j.out
    BY DEF JobOK, OutOK
  <1> QED BY <1>1, <1>2, <1>3 DEF WritesOnly

LEMMA IngestOnly ==
  ASSUME SourcesInv, NEW j \in jobs, WritesOnly(j),
         \/ Hydrate(j) \/ Find(j) \/ InsertUnit(j) \/ ApplyPromotion(j) \/ Linked(j)
         \/ Unlink(j) \/ Count(j) \/ Link(j) \/ Reload(j)
  PROVE  \A k \in jobs' : k \in jobs \/ WritesOnly(k)
  <1>1. JobOK(j) /\ j.who = "memory"
    BY DEF SourcesInv, Hydrate, Find, InsertUnit, ApplyPromotion, Linked, Unlink, Count, Link,
           Reload, At
  <1>2. CASE Hydrate(j)
    <2> DEFINE k == [j EXCEPT !.at = "find", !.todo = Candidates(j.ev.of)]
    <2>1. k.who = "memory" /\ k.out = j.out
      BY <1>1 DEF JobOK, JobRows
    <2> QED BY <1>1, <1>2, <2>1, SameOnly DEF Hydrate, Goes, Ends
  <1>3. CASE Find(j)
    <2>1. CASE UnitsSaying(where[j.ev.of], Head(j.todo)) = {}
      <3> DEFINE k == [j EXCEPT !.at = "insert", !.found = FALSE]
      <3>1. k.who = "memory" /\ k.out = j.out
        BY <1>1 DEF JobOK, JobRows
      <3> QED BY <1>1, <1>3, <2>1, <3>1, SameOnly DEF Find, Goes
    <2>2. CASE UnitsSaying(where[j.ev.of], Head(j.todo)) # {}
      <3> PICK u \in UnitsSaying(where[j.ev.of], Head(j.todo)) :
                 Goes(j, [j EXCEPT !.at = "link", !.found = TRUE,
                                   !.row = [id |-> u, promoted |-> units[u].promoted,
                                            stream |-> units[u].stream]])
        BY <1>3, <2>2 DEF Find
      <3> DEFINE row == [id |-> u, promoted |-> units[u].promoted, stream |-> units[u].stream]
                 k == [j EXCEPT !.at = "link", !.found = TRUE, !.row = row]
      <3>1. k.who = "memory" /\ k.out = j.out
        BY <1>1 DEF JobOK, JobRows
      <3> QED BY <1>1, <3>1, SameOnly DEF Goes
    <2> QED BY <2>1, <2>2
  <1>4. CASE InsertUnit(j)
    <2> DEFINE row == [id |-> <<j.ev.of, Head(j.todo)>>, promoted |-> FALSE,
                       stream |-> where[j.ev.of]]
               k == [j EXCEPT !.at = "link", !.row = row]
    <2>1. k.who = "memory" /\ k.out = j.out
      BY <1>1 DEF JobOK, JobRows
    <2> QED BY <1>1, <1>4, <2>1, SameOnly DEF InsertUnit, Goes, Ends
  <1>5. CASE ApplyPromotion(j)
    BY <1>1, <1>5 DEF ApplyPromotion, Goes, JobOK, JobRows, WritesOnly
  <1>6. CASE Linked(j)
    <2> DEFINE k == [j EXCEPT !.at = "unlink", !.left = {u \in Ids : <<u, j.ev.of>> \in edges}]
    <2>1. k.who = "memory" /\ k.out = j.out
      BY <1>1 DEF JobOK, JobRows
    <2> QED BY <1>1, <1>6, <2>1, SameOnly DEF Linked, Goes, Ends
  <1>7. CASE Unlink(j)
    BY <1>1, <1>7 DEF Unlink, Goes, JobOK, JobRows, WritesOnly
  <1>8. CASE Count(j)
    BY <1>1, <1>8 DEF Count, Goes, JobOK, JobRows, WritesOnly
  <1>9. CASE Link(j)
    <2>1. CASE j.found
      BY <1>1, <1>9, <2>1 DEF Link, Goes, JobOK, JobRows, WritesOnly
    <2>2. CASE ~j.found
      BY <1>1, <1>9, <2>2, NotedOnly DEF Link, Goes
    <2> QED BY <2>1, <2>2
  <1>10. CASE Reload(j)
    BY <1>1, <1>10, NotedOnly DEF Reload, Goes
  <1> QED BY <1>2, <1>3, <1>4, <1>5, <1>6, <1>7, <1>8, <1>9, <1>10

LEMMA LoadOnly ==
  ASSUME SourcesInv, NEW j \in jobs, WritesOnly(j), Drop(j) \/ Load(j)
  PROVE  \A k \in jobs' : k \in jobs \/ WritesOnly(k)
  <1>1. JobOK(j) /\ j.who = "memory"
    BY DEF SourcesInv, Drop, Load, At
  <1>2. CASE Drop(j)
    <2> DEFINE w == Delete(<<"memory", j.row>>)
               k == [j EXCEPT !.at = "upsert", !.out = <<w>>]
    <2>1. k.who = "memory" /\ k.out = <<w>> /\ w.key[1] = "memory"
      BY <1>1 DEF JobOK, JobRows, Delete
    <2>2. \A i \in DOMAIN k.out : k.out[i].key[1] = "memory"
      BY <2>1
    <2>3. WritesOnly(k)
      BY <2>1, <2>2, MemoryOnly
    <2> QED BY <1>2, <2>3 DEF Drop, Goes
  <1>3. CASE Load(j)
    <2> DEFINE u == j.row
               w == Upsert(<<"memory", u>>, MemoryDoc(units[u].stream, units[u].text, SourcesOf(u),
                                                      units[u].promoted))
               out == IF u \in DOMAIN units THEN <<w>> ELSE <<>>
    <2>1. Proceeds(j, out)
      BY <1>3 DEF Load
    <2>2. w.key[1] = "memory"
      BY DEF Upsert
    <2>3. \A i \in DOMAIN out : out[i].key[1] = "memory"
      BY <2>2
    <2> HIDE DEF out
    <2> QED BY <1>1, <2>1, <2>3, ProceedsOnly
  <1> QED BY <1>2, <1>3

LEMMA WriteOnly ==
  ASSUME SourcesInv, NEW j \in jobs, WritesOnly(j), Look(j) \/ Write(j)
  PROVE  \A k \in jobs' : k \in jobs \/ WritesOnly(k)
  <1>1. JobOK(j) /\ OutOK(j.out) /\ j.out # <<>> /\ j.who \in {"memory", "search"}
    BY DEF SourcesInv, Look, Write, JobOK, JobRows
  <1>2. CASE Proceeds(j, Tail(j.out))
    <2>1. OutOK(Tail(j.out))
      BY <1>1, TailOK
    <2>2. CASE j.who = "memory"
      <3>1. \A i \in DOMAIN Tail(j.out) : Tail(j.out)[i].key[1] = "memory"
        BY <1>1, <2>2 DEF WritesOnly, OutOK
      <3> QED BY <1>1, <1>2, <2>1, <2>2, <3>1, ProceedsOnly
    <2>3. CASE j.who = "search"
      <3>1. Tail(j.out) = <<>> /\ j.left = {}
        BY <1>1, <2>3 DEF WritesOnly, OutOK, Look, Write
      <3> QED BY <1>2, <3>1 DEF Proceeds, Ends
    <2> QED BY <1>1, <2>2, <2>3
  <1>3. CASE ~Proceeds(j, Tail(j.out))
    <2>1. /\ jobs' = (jobs \ {j}) \cup {[j EXCEPT !.at = "write", !.found = Head(j.out).key \in DOMAIN docs]}
          /\ Head(j.out).doc # None
      BY <1>3 DEF Look, Write, Goes
    <2>2. j.who = "memory"
      BY <1>1, <1>3, <2>1 DEF WritesOnly, Look, Write, Delete
    <2> QED BY <1>1, <2>1, <2>2 DEF JobOK, JobRows, WritesOnly
  <1> QED BY <1>2, <1>3

LEMMA IndexOnly ==
  ASSUME SourcesInv, NEW j \in jobs, WritesOnly(j), Index(j)
  PROVE  \A k \in jobs' : k \in jobs \/ WritesOnly(k)
  <1> DEFINE e == j.ev
             write == CASE e.type = "created" -> Upsert(ThingKey(e.of), ThingDoc(e.of))
                        [] e.type = "message.appended" -> Upsert(<<"message", e.of>>, MessageDoc(e.of))
                        [] OTHER -> Delete(<<"message", e.of>>)
             k == [j EXCEPT !.at = IF write.doc = None THEN "upsert" ELSE "write",
                            !.found = write.key \in DOMAIN docs, !.out = <<write>>]
  <1>1. JobOK(j) /\ EventOK(e) /\ j.who = "search" /\ j.who \in Listeners(e) /\ RowsOK
        /\ j.left = {}
    BY DEF SourcesInv, Index, JobOK, WritesOnly
  <1>2. CASE e.type = "message.appended" /\ TextOf(e.of) = <<>>
    BY <1>2 DEF Index, Ends
  <1>3. CASE ~(e.type = "message.appended" /\ TextOf(e.of) = <<>>)
    <2>1. /\ k.who = "search" /\ k.ev = e /\ k.left = {} /\ k.out = <<write>>
          /\ k.at = IF write.doc = None THEN "upsert" ELSE "write"
      <3> HIDE DEF write
      <3> QED BY <1>1 DEF JobOK, JobRows
    <2>2. jobs' = (jobs \ {j}) \cup {k}
      BY <1>3 DEF Index, Goes
    <2>3. CASE e.type = "created"
      <3>1. write = Upsert(ThingKey(e.of), ThingDoc(e.of)) /\ ThingDoc(e.of) # None
        BY <1>1, <2>3, ThingsDoc, NoneAssumption DEF EventOK, DocOK
      <3>2. write.doc # None /\ write.key = ThingKey(e.of)
        BY <3>1 DEF Upsert
      <3> HIDE DEF write
      <3>3. Len(k.out) = 1 /\ Head(k.out) = write
        BY <2>1
      <3>4. WritesOnly(k)
        BY <2>1, <2>3, <3>2, <3>3 DEF WritesOnly
      <3> QED BY <2>2, <3>4
    <2>4. CASE e.type = "message.appended"
      <3>1. write = Upsert(<<"message", e.of>>, MessageDoc(e.of)) /\ MessageDoc(e.of) # None
        BY <1>1, <2>4, MessagesDoc, NoneAssumption DEF EventOK, DocOK
      <3>2. MessageDoc(e.of) = Said(e.of)
        BY <1>3, <2>4 DEF MessageDoc, Said, TextOf
      <3>3. write.doc # None /\ write = Upsert(<<"message", e.of>>, Said(e.of))
        BY <3>1, <3>2 DEF Upsert
      <3> HIDE DEF write
      <3>4. Len(k.out) = 1 /\ Head(k.out) = write
        BY <2>1
      <3>5. WritesOnly(k)
        BY <2>1, <2>4, <3>3, <3>4 DEF WritesOnly
      <3> QED BY <2>2, <3>5
    <2>5. CASE e.type = "message.redacted"
      <3>1. write = Delete(<<"message", e.of>>) /\ write.doc = None
        BY <2>5 DEF Delete
      <3> HIDE DEF write
      <3>2. Len(k.out) = 1 /\ Head(k.out) = write
        BY <2>1
      <3>3. WritesOnly(k)
        BY <2>1, <2>5, <3>1, <3>2 DEF WritesOnly
      <3> QED BY <2>2, <3>3
    <2> QED BY <1>1, <2>3, <2>4, <2>5 DEF Listeners, EventOK, Events, EventTypes
  <1> QED BY <1>2, <1>3

LEMMA OnlyStep ==
  ASSUME SourcesInv, \A j \in jobs : WritesOnly(j), [Next]_vars
  PROVE  \A j \in jobs' : WritesOnly(j)'
  <1>1. CASE JobStep
    <2>1. PICK j \in jobs :
            \/ Hydrate(j) \/ Find(j) \/ InsertUnit(j) \/ Link(j) \/ Reload(j)
            \/ ApplyPromotion(j) \/ Linked(j) \/ Unlink(j) \/ Count(j) \/ Drop(j) \/ Load(j)
            \/ Index(j) \/ Look(j) \/ Write(j)
      BY <1>1 DEF JobStep
    <2>2. \A k \in jobs' : k \in jobs \/ WritesOnly(k)
      BY <2>1, IngestOnly, LoadOnly, WriteOnly, IndexOnly
    <2>3. Frame
      BY <2>1 DEF Hydrate, Find, InsertUnit, Link, Reload, ApplyPromotion, Linked, Unlink, Count,
                  Drop, Load, Index, Look, Write
    <2> QED BY <2>2, <2>3, SaidFrame
  <1>2. CASE \E e \in unpublished : Publish(e)
    <2>1. PICK e \in unpublished : Publish(e)
      BY <1>2
    <2>2. \A who \in Listeners(e) : WritesOnly(Job(who, e))
      BY DEF Job, WritesOnly, Listeners
    <2>3. UNCHANGED where /\ \A k \in jobs' : k \in jobs \/ WritesOnly(k)
      BY <2>1, <2>2 DEF Publish, rows
    <2> QED BY <2>3 DEF WritesOnly, ThingKey, Upsert, Delete, Said, Doc
  <1>3. CASE ~JobStep /\ ~ \E e \in unpublished : Publish(e)
    <2>1. jobs' \subseteq jobs
      BY <1>3 DEF Next, Create, Appends, CheckRedact, CheckPromote, Redact, Promote, Breaks, Ends,
                  Crash, Restart, vars
    <2>2. Grows
      <3>1. CASE \E x \in Streams \cup Actors, shown \in BOOLEAN : Create(x, shown)
        BY <3>1 DEF Create, Grows
      <3>2. CASE \E m \in Messages, s \in Streams : Appends(m, s)
        BY <3>2 DEF Appends, Grows, SourcesInv, RowsOK
      <3>3. CASE \E c \in Calls : Redact(c)
        BY <3>3 DEF Redact, Grows, SourcesInv, RowsOK, CallsOK
      <3>4. CASE UNCHANGED rows /\ promotions \subseteq promotions'
        BY <3>4 DEF Grows, rows
      <3> QED BY <1>3, <3>1, <3>2, <3>3, <3>4
              DEF Next, CheckRedact, CheckPromote, Promote, Breaks, Crash, Restart, vars
    <2> QED BY <2>1, <2>2, OnlyStays
  <1> QED BY <1>1, <1>2, <1>3

LEMMA FoundAtFirst == Init => FoundInv
  <1> SUFFICES ASSUME Init  PROVE FoundInv
    OBVIOUS
  <1>1. SourcesInv /\ RowsOK
    BY InitSources DEF SourcesInv
  <1>2. \A x \in made : ThingKey(x) \in DOMAIN docs
    BY DEF Init
  <1>3. Live = {}
    BY DEF Init, Live
  <1> QED BY <1>1, <1>2, <1>3 DEF FoundInv, Findable, Init

(* The core commits: what is new has its event. *)
LEMMA CommitFinds ==
  ASSUME SourcesInv, Findable, UNCHANGED <<jobs, docs>>, unpublished \subseteq unpublished', Grows,
         \A m \in Live' : m \in Live \/ Pending("message.appended", m)',
         \A x \in made' : x \in made \/ Pending("created", x)'
  PROVE  Findable'
  <1>1. \A type, of : Pending(type, of) => Pending(type, of)'
    BY DEF Pending
  <1>2. \A j, type, of, key : Indexes(j, type, of, key) => Indexes(j, type, of, key)'
    BY DEF Indexes
  <1>3. \A m \in Live : m \in Live' /\ IsFound(m) => IsFound(m)'
    <2> SUFFICES ASSUME NEW m \in Live, m \in Live', IsFound(m)  PROVE IsFound(m)'
      OBVIOUS
    <2>1. m \in Messages /\ message[m] = "live" /\ message'[m] = "live"
      BY DEF Live
    <2>2. where'[m] = where[m]
      BY <2>1 DEF Grows, SourcesInv, RowsOK
    <2> QED BY <2>1, <2>2 DEF IsFound, MessageDoc, Doc, TextOf
  <1>4. \A m \in Live' : \/ IsFound(m)' \/ Pending("message.appended", m)'
                         \/ \E j \in jobs' : Indexes(j, "message.appended", m, <<"message", m>>)'
    BY <1>1, <1>2, <1>3 DEF Findable
  <1>5. \A x \in made' : \/ (ThingKey(x) \in DOMAIN docs)' \/ Pending("created", x)'
                         \/ \E j \in jobs' : Indexes(j, "created", x, ThingKey(x))'
    BY <1>1, <1>2 DEF Findable, ThingKey
  <1> QED BY <1>4, <1>5 DEF Findable

LEMMA PublishFinds ==
  ASSUME SourcesInv, Findable, NEW e \in unpublished, Publish(e)
  PROVE  Findable'
  <1>0. UNCHANGED <<message, where, docs, made>> /\ jobs \subseteq jobs' /\ unpublished' = unpublished \ {e}
        /\ jobs' = jobs \cup {Job(who, e) : who \in Listeners(e)}
    BY DEF Publish, rows, derived
  <1>1. \A m \in Messages : (IsFound(m) => IsFound(m)')
    BY <1>0 DEF IsFound, MessageDoc, Doc, TextOf
  <1>2. \A j, type, of, key : Indexes(j, type, of, key) => Indexes(j, type, of, key)'
    BY <1>0 DEF Indexes
  <1>3. ASSUME NEW type \in {"created", "message.appended"}, NEW of, NEW key, Pending(type, of)
        PROVE  Pending(type, of)' \/ \E j \in jobs' : Indexes(j, type, of, key)'
    <2>1. CASE e.type = type /\ e.of = of
      <3>1. "search" \in Listeners(e)
        BY <2>1 DEF Listeners
      <3>2. Indexes(Job("search", e), type, of, key)'
        BY <2>1 DEF Indexes, Job
      <3> QED BY <1>0, <3>1, <3>2
    <2>2. CASE ~(e.type = type /\ e.of = of)
      BY <1>0, <1>3, <2>2 DEF Pending
    <2> QED BY <2>1, <2>2
  <1>4. \A m \in Live' : \/ IsFound(m)' \/ Pending("message.appended", m)'
                         \/ \E j \in jobs' : Indexes(j, "message.appended", m, <<"message", m>>)'
    <2> TAKE m \in Live'
    <2>1. m \in Live /\ m \in Messages
      BY <1>0 DEF Live
    <2> QED BY <1>0, <1>1, <1>2, <1>3, <2>1 DEF Findable
  <1>5. \A x \in made' : \/ (ThingKey(x) \in DOMAIN docs)' \/ Pending("created", x)'
                         \/ \E j \in jobs' : Indexes(j, "created", x, ThingKey(x))'
    <2> TAKE x \in made'
    <2>1. x \in made /\ ThingKey(x)' = ThingKey(x)
      BY <1>0 DEF ThingKey
    <2> QED BY <1>0, <1>2, <1>3, <2>1 DEF Findable
  <1> QED BY <1>4, <1>5 DEF Findable

(* A step that leaves the other documents as they are, and every job that may be the one. *)
LEMMA StepFinds ==
  ASSUME SourcesInv, Findable, UNCHANGED <<message, where, made, unpublished>>,
         \A m \in Live, j \in jobs : Indexes(j, "message.appended", m, <<"message", m>>) =>
            IsFound(m)' \/ \E k \in jobs' : Indexes(k, "message.appended", m, <<"message", m>>)',
         \A m \in Live : IsFound(m) => IsFound(m)',
         \A x \in made, j \in jobs : Indexes(j, "created", x, ThingKey(x)) =>
            \/ ThingKey(x) \in DOMAIN docs'
            \/ \E k \in jobs' : Indexes(k, "created", x, ThingKey(x))',
         \A x \in made : ThingKey(x) \in DOMAIN docs => ThingKey(x) \in DOMAIN docs'
  PROVE  Findable'
  <1>1. \A type, of : Pending(type, of) => Pending(type, of)'
    BY DEF Pending
  <1>2. Live' = Live /\ \A x : ThingKey(x)' = ThingKey(x)
    BY DEF Live, ThingKey
  <1>3. \A m \in Live' : \/ IsFound(m)' \/ Pending("message.appended", m)'
                         \/ \E j \in jobs' : Indexes(j, "message.appended", m, <<"message", m>>)'
    BY <1>1, <1>2 DEF Findable
  <1>4. \A x \in made' : \/ (ThingKey(x) \in DOMAIN docs)' \/ Pending("created", x)'
                         \/ \E j \in jobs' : Indexes(j, "created", x, ThingKey(x))'
    BY <1>1, <1>2 DEF Findable
  <1> QED BY <1>3, <1>4 DEF Findable

(* The documents of rows and messages keep their keys. *)
Untouched == \A k \in Keys : k[1] # "memory" =>
               /\ k \in DOMAIN docs <=> k \in DOMAIN docs'
               /\ k \in DOMAIN docs => docs'[k] = docs[k]

LEMMA MemoryFinds ==
  ASSUME SourcesInv, Findable, UNCHANGED <<message, where, made, unpublished>>, Untouched,
         NEW j \in jobs, j.who = "memory", jobs \ {j} \subseteq jobs'
  PROVE  Findable'
  <1>1. \A x \in made : ThingKey(x) \in Keys /\ ThingKey(x)[1] # "memory"
    BY KeyFacts DEF SourcesInv, RowsOK
  <1>2. \A m \in Messages : <<"message", m>> \in Keys /\ <<"message", m>>[1] # "memory"
    BY KeyFacts
  <1>3. \A m \in Live : IsFound(m) => IsFound(m)'
    BY <1>2 DEF IsFound, MessageDoc, Doc, TextOf, Live, Untouched
  <1>4. ASSUME NEW k \in jobs, NEW type, NEW of, NEW key \in Keys, key[1] # "memory",
               Indexes(k, type, of, key)
        PROVE  k \in jobs' /\ Indexes(k, type, of, key)'
    <2>1. k # j
      BY <1>4 DEF Indexes
    <2>2. key \in DOMAIN docs <=> key \in DOMAIN docs'
      BY <1>4 DEF Untouched
    <2> QED BY <1>4, <2>1, <2>2 DEF Indexes
  <1>5. \A x \in made : ThingKey(x) \in DOMAIN docs => ThingKey(x) \in DOMAIN docs'
    BY <1>1 DEF Untouched
  <1>6. \A m \in Live, k \in jobs : Indexes(k, "message.appended", m, <<"message", m>>) =>
            IsFound(m)' \/ \E l \in jobs' : Indexes(l, "message.appended", m, <<"message", m>>)'
    BY <1>2, <1>4 DEF Live
  <1>7. \A x \in made, k \in jobs : Indexes(k, "created", x, ThingKey(x)) =>
            \/ ThingKey(x) \in DOMAIN docs'
            \/ \E l \in jobs' : Indexes(l, "created", x, ThingKey(x))'
    BY <1>1, <1>4
  <1> QED BY <1>3, <1>5, <1>6, <1>7, StepFinds

LEMMA CoreFinds ==
  ASSUME SourcesInv, Findable,
         \/ \E x \in Streams \cup Actors, shown \in BOOLEAN : Create(x, shown)
         \/ \E m \in Messages, s \in Streams : Appends(m, s)
         \/ \E c \in Calls, m \in Messages : CheckRedact(c, m)
         \/ \E c \in Calls, a \in Actors, u \in DOMAIN units : CheckPromote(c, a, u)
         \/ \E c \in Calls : Redact(c) \/ Promote(c)
  PROVE  Findable'
  <1>1. CASE \E x \in Streams \cup Actors, shown \in BOOLEAN : Create(x, shown)
    <2>1. PICK x \in Streams \cup Actors, shown \in BOOLEAN : Create(x, shown)
      BY <1>1
    <2>2. Grows /\ UNCHANGED <<message, where, jobs, docs>> /\ unpublished \subseteq unpublished'
          /\ Event("created", x, None) \in unpublished' /\ made' = made \cup {x}
      BY <2>1 DEF Create, Grows, derived
    <2>3. Live' = Live
      BY <2>2 DEF Live
    <2>4. Pending("created", x)'
      BY <2>2 DEF Pending, Event
    <2> QED BY <2>2, <2>3, <2>4, CommitFinds
  <1>2. CASE \E m \in Messages, s \in Streams : Appends(m, s)
    <2>1. PICK m \in Messages, s \in Streams : Appends(m, s)
      BY <1>2
    <2>2. Grows /\ UNCHANGED <<jobs, docs, made>> /\ unpublished \subseteq unpublished'
          /\ Event("message.appended", m, None) \in unpublished'
      BY <2>1 DEF Appends, Grows, derived, SourcesInv, RowsOK
    <2>3. \A n \in Live' : n \in Live \/ n = m
      BY <2>1 DEF Live, Appends, SourcesInv, RowsOK
    <2>4. Pending("message.appended", m)'
      BY <2>2 DEF Pending, Event
    <2> QED BY <2>2, <2>3, <2>4, CommitFinds
  <1>3. CASE \E c \in Calls : Redact(c)
    <2>1. PICK c \in Calls : Redact(c)
      BY <1>3
    <2>2. Grows /\ UNCHANGED <<jobs, docs, made>> /\ unpublished \subseteq unpublished'
      BY <2>1 DEF Redact, Grows, derived, SourcesInv, RowsOK, CallsOK
    <2>3. \A n \in Live' : n \in Live
      BY <2>1 DEF Live, Redact, SourcesInv, RowsOK, CallsOK
    <2> QED BY <2>2, <2>3, CommitFinds
  <1>4. CASE UNCHANGED <<rows, jobs, derived>> /\ unpublished \subseteq unpublished' /\ promotions \subseteq promotions'
    <2>1. Grows /\ Live' = Live /\ UNCHANGED <<jobs, docs, made>>
      BY <1>4 DEF Grows, Live, rows, derived
    <2> QED BY <1>4, <2>1, CommitFinds
  <1> QED BY <1>1, <1>2, <1>3, <1>4 DEF CheckRedact, CheckPromote, Promote

LEMMA FrameRows ==
  ASSUME Frame
  PROVE  UNCHANGED <<message, where, made, unpublished, missed>>
  BY DEF Frame, rows, seen

LEMMA MemoryKeeps ==
  ASSUME SourcesInv, NEW j \in jobs, WritesOnly(j), j.who = "memory", Look(j) \/ Write(j)
  PROVE  Untouched
  <1>1. j.out # <<>> /\ j.out \in Seq(Writes)
    BY DEF SourcesInv, JobOK, JobRows, Look, Write
  <1>2. Head(j.out).key[1] = "memory"
    BY <1>1 DEF WritesOnly
  <1>3. CASE Look(j)
    BY <1>2, <1>3 DEF Look, Untouched
  <1>4. CASE Write(j)
    BY <1>2, <1>4 DEF Write, Put, Untouched
  <1> QED BY <1>3, <1>4

LEMMA MemoryStepFinds ==
  ASSUME SourcesInv, Findable, NEW j \in jobs, WritesOnly(j), j.who = "memory",
         \/ Hydrate(j) \/ Find(j) \/ InsertUnit(j) \/ Link(j) \/ Reload(j)
         \/ ApplyPromotion(j) \/ Linked(j) \/ Unlink(j) \/ Count(j) \/ Drop(j) \/ Load(j)
         \/ Look(j) \/ Write(j)
  PROVE  Findable'
  <1>1. Frame
    BY DEF Hydrate, Find, InsertUnit, Link, Reload, ApplyPromotion, Linked, Unlink, Count, Drop,
           Load, Look, Write
  <1>2. jobs \ {j} \subseteq jobs'
    BY DEF Hydrate, Find, InsertUnit, Link, Reload, ApplyPromotion, Linked, Unlink, Count, Drop,
           Load, Look, Write, Goes, Ends, Proceeds
  <1>3. Untouched
    <2>1. CASE Look(j) \/ Write(j)
      BY <2>1, MemoryKeeps
    <2>2. CASE ~(Look(j) \/ Write(j))
      <3>1. UNCHANGED docs
        BY <2>2 DEF Hydrate, Find, InsertUnit, Link, Reload, ApplyPromotion, Linked, Unlink, Count,
                    Drop, Load, derived
      <3> QED BY <3>1 DEF Untouched
    <2> QED BY <2>1, <2>2
  <1> QED BY <1>1, <1>2, <1>3, FrameRows, MemoryFinds

LEMMA SearchStart ==
  ASSUME SourcesInv, Findable, NEW j \in jobs, Index(j)
  PROVE  Findable'
  <1> DEFINE e == j.ev
             write == CASE e.type = "created" -> Upsert(ThingKey(e.of), ThingDoc(e.of))
                        [] e.type = "message.appended" -> Upsert(<<"message", e.of>>, MessageDoc(e.of))
                        [] OTHER -> Delete(<<"message", e.of>>)
             k == [j EXCEPT !.at = IF write.doc = None THEN "upsert" ELSE "write",
                            !.found = write.key \in DOMAIN docs, !.out = <<write>>]
  <1>0. JobOK(j) /\ EventOK(e) /\ j.who = "search" /\ RowsOK
    BY DEF SourcesInv, Index, JobOK
  <1>1. UNCHANGED <<message, where, made, unpublished, docs>>
    BY FrameRows DEF Index, derived
  <1>2. \A m \in Messages : IsFound(m) => IsFound(m)'
    BY <1>1 DEF IsFound, MessageDoc, Doc, TextOf
  <1>3. ASSUME NEW i \in jobs, NEW type \in {"created", "message.appended"}, NEW of, NEW key,
               type = "message.appended" => of \in Live /\ key = <<"message", of>>,
               type = "created" => key = ThingKey(of),
               Indexes(i, type, of, key)
        PROVE  \E l \in jobs' : Indexes(l, type, of, key)'
    <2>1. CASE i # j
      BY <1>1, <1>3, <2>1 DEF Index, Goes, Ends, Indexes
    <2>2. CASE i = j
      <3>1. e.type = type /\ e.of = of
        BY <1>3, <2>2 DEF Indexes
      <3>2. write.key = key /\ write.doc # None
        <4>1. CASE type = "created"
          <5>1. write = Upsert(ThingKey(of), ThingDoc(of)) /\ ThingDoc(of) # None
            BY <1>0, <3>1, <4>1, ThingsDoc, NoneAssumption DEF EventOK, DocOK
          <5> QED BY <1>3, <4>1, <5>1 DEF Upsert
        <4>2. CASE type = "message.appended"
          <5>1. write = Upsert(<<"message", of>>, MessageDoc(of)) /\ MessageDoc(of) # None
            BY <1>0, <3>1, <4>2, MessagesDoc, NoneAssumption DEF EventOK, DocOK
          <5> QED BY <1>3, <4>2, <5>1 DEF Upsert
        <4> QED BY <1>3, <4>1, <4>2
      <3>3. ~(e.type = "message.appended" /\ TextOf(e.of) = <<>>)
        BY <1>3, <3>1 DEF Live, TextOf
      <3>4. jobs' = (jobs \ {j}) \cup {k}
        BY <3>3 DEF Index, Goes
      <3> HIDE DEF write
      <3>5. k.who = "search" /\ k.ev = e /\ k.at = "write" /\ k.found = (key \in DOMAIN docs)
        BY <1>0, <3>2 DEF JobOK, JobRows
      <3>6. PICK l \in jobs' : l = k
        BY <3>4
      <3>7. l.who = "search" /\ l.ev = e /\ l.at = "write" /\ l.found = (key \in DOMAIN docs)
        BY <3>5, <3>6
      <3>8. Indexes(l, type, of, key)'
        BY <1>1, <3>1, <3>7 DEF Indexes
      <3> QED BY <3>8
    <2> QED BY <2>1, <2>2
  <1> QED BY <1>1, <1>2, <1>3, StepFinds DEF Live

LEMMA SearchLook ==
  ASSUME SourcesInv, Findable, NEW j \in jobs, WritesOnly(j), j.who = "search", Look(j)
  PROVE  Findable'
  <1>1. /\ j.at = "upsert" /\ j.ev.type = "message.redacted"
        /\ Head(j.out) = Delete(<<"message", j.ev.of>>) /\ message[j.ev.of] = "redacted"
    BY DEF Look, WritesOnly, SourcesInv, JobOK, EventOK
  <1>2. docs' = [k \in DOMAIN docs \ {<<"message", j.ev.of>>} |-> docs[k]]
    BY <1>1 DEF Look, Delete
  <1>3. UNCHANGED <<message, where, made, unpublished>> /\ jobs \ {j} \subseteq jobs'
    BY FrameRows DEF Look, Goes, Ends, Proceeds
  <1>4. \A m \in Live : m # j.ev.of
    BY <1>1 DEF Live
  <1>5. \A m \in Live : IsFound(m) => IsFound(m)'
    BY <1>2, <1>3, <1>4 DEF IsFound, MessageDoc, Doc, TextOf
  <1>6. \A x \in made : ThingKey(x) # <<"message", j.ev.of>>
    BY KeyFacts DEF SourcesInv, RowsOK
  <1>7. \A x \in made : ThingKey(x) \in DOMAIN docs <=> ThingKey(x) \in DOMAIN docs'
    BY <1>2, <1>6
  <1>8. \A m \in Live : <<"message", m>> \in DOMAIN docs <=> <<"message", m>> \in DOMAIN docs'
    BY <1>2, <1>4
  <1>9. ASSUME NEW i \in jobs, NEW type \in {"created", "message.appended"}, NEW of, NEW key,
               key \in DOMAIN docs <=> key \in DOMAIN docs', Indexes(i, type, of, key)
        PROVE  i \in jobs' /\ Indexes(i, type, of, key)'
    <2>1. i # j
      BY <1>1, <1>9 DEF Indexes
    <2> QED BY <1>3, <1>9, <2>1 DEF Indexes
  <1> QED BY <1>3, <1>5, <1>7, <1>8, <1>9, StepFinds

LEMMA SearchWrite ==
  ASSUME SourcesInv, Findable, NEW j \in jobs, WritesOnly(j), j.who = "search", Write(j)
  PROVE  Findable'
  <1> DEFINE w == Head(j.out)
  <1>0. JobOK(j) /\ RowsOK /\ EventOK(j.ev) /\ j.at = "write"
    BY DEF SourcesInv, JobOK, Write
  <1>1. UNCHANGED <<message, where, made, unpublished>> /\ jobs \ {j} \subseteq jobs'
    BY FrameRows DEF Write, Goes, Ends, Proceeds
  <1>2. \/ j.ev.type = "created" /\ w.key = ThingKey(j.ev.of)
        \/ j.ev.type = "message.appended" /\ w = Upsert(<<"message", j.ev.of>>, Said(j.ev.of))
    BY <1>0 DEF WritesOnly
  <1>3. CASE j.found # (w.key \in DOMAIN docs)
    <2>1. docs' = docs
      BY <1>3 DEF Write
    <2>2. ASSUME NEW i \in jobs, NEW type \in {"created", "message.appended"}, NEW of, NEW key,
                 type = "message.appended" => key = <<"message", of>>,
                 type = "created" => key = ThingKey(of), Indexes(i, type, of, key)
          PROVE  i \in jobs' /\ Indexes(i, type, of, key)'
      <3>1. i # j
        <4> SUFFICES ASSUME i = j  PROVE FALSE
          OBVIOUS
        <4>1. w.key = key
          BY <1>2, <2>2 DEF Indexes, Upsert
        <4>2. j.found = (key \in DOMAIN docs)
          BY <1>0, <2>2 DEF Indexes
        <4> QED BY <1>3, <4>1, <4>2
      <3> QED BY <1>1, <2>1, <2>2, <3>1 DEF Indexes
    <2>3. \A m \in Live : IsFound(m) => IsFound(m)'
      BY <1>1, <2>1 DEF IsFound, MessageDoc, Doc, TextOf
    <2> QED BY <1>1, <2>1, <2>2, <2>3, StepFinds
  <1>4. CASE j.found = (w.key \in DOMAIN docs)
    <2>1. docs' = Put(docs, w.key, w.doc)
      BY <1>4 DEF Write
    <2>2. /\ DOMAIN docs' = DOMAIN docs \cup {w.key} /\ docs'[w.key] = w.doc
          /\ \A k \in DOMAIN docs : k # w.key => docs'[k] = docs[k]
      BY <2>1 DEF Put
    <2>3. \A m \in Live : w.key = <<"message", m>> => w.doc = MessageDoc(m)
      <3> SUFFICES ASSUME NEW m \in Live, w.key = <<"message", m>>  PROVE w.doc = MessageDoc(m)
        OBVIOUS
      <3>1. j.ev.type = "message.appended" /\ w = Upsert(<<"message", j.ev.of>>, Said(j.ev.of))
        BY <1>0, <1>2, KeyFacts DEF EventOK, RowsOK
      <3>2. m = j.ev.of /\ w.doc = Said(m)
        BY <3>1 DEF Upsert
      <3> QED BY <3>2 DEF Said, MessageDoc, TextOf, Live
    <2>4. \A m \in Live : w.key = <<"message", m>> \/ IsFound(m) => IsFound(m)'
      BY <1>1, <2>2, <2>3 DEF IsFound, MessageDoc, Doc, TextOf
    <2>5. ASSUME NEW i \in jobs, NEW type \in {"created", "message.appended"}, NEW of, NEW key,
                 type = "message.appended" => key = <<"message", of>>,
                 type = "created" => key = ThingKey(of), Indexes(i, type, of, key)
          PROVE  w.key = key \/ (i \in jobs' /\ Indexes(i, type, of, key)')
      <3> SUFFICES ASSUME w.key # key  PROVE i \in jobs' /\ Indexes(i, type, of, key)'
        OBVIOUS
      <3>1. i # j
        BY <1>2, <2>5 DEF Indexes, Upsert
      <3>2. key \in DOMAIN docs <=> key \in DOMAIN docs'
        BY <2>2
      <3> QED BY <1>1, <2>5, <3>1, <3>2 DEF Indexes
    <2> QED BY <1>1, <2>2, <2>4, <2>5, StepFinds
  <1> QED BY <1>3, <1>4

LEMMA RestartFinds ==
  ASSUME SourcesInv, Restart
  PROVE  Findable'
  <1>1. UNCHANGED <<message, where, made>> /\ docs' = Backfilled
    BY DEF Restart, rows
  <1>2. \A x \in made : ThingKey(x) \in DOMAIN docs'
    BY <1>1 DEF Backfilled, ThingKeys
  <1>3. ASSUME NEW m \in Live  PROVE IsFound(m)'
    <2> DEFINE k == <<"message", m>>
    <2>1. k \in LiveKeys /\ k[2] = m
      BY DEF LiveKeys
    <2>2. k \notin ThingKeys
      BY KeyFacts DEF ThingKeys, SourcesInv, RowsOK
    <2>3. k \in DOMAIN docs' /\ docs'[k] = MessageDoc(m)
      BY <1>1, <2>1, <2>2 DEF Backfilled
    <2> QED BY <1>1, <2>3 DEF IsFound, MessageDoc, Doc, TextOf
  <1>4. Live' = Live /\ \A x : ThingKey(x)' = ThingKey(x)
    BY <1>1 DEF Live, ThingKey
  <1> QED BY <1>1, <1>2, <1>3, <1>4 DEF Findable

LEMMA FoundStays == FoundInv /\ [Next]_vars => FoundInv'
  <1> SUFFICES ASSUME FoundInv, [Next]_vars  PROVE FoundInv'
    OBVIOUS
  <1>0. SourcesInv /\ \A j \in jobs : WritesOnly(j)
    BY DEF FoundInv
  <1>1. SourcesInv' /\ \A j \in jobs' : WritesOnly(j)'
    BY <1>0, SourcesStay, OnlyStep
  <1>2. ASSUME ~missed'  PROVE Findable'
    <2>1. CASE Restart
      BY <1>0, <2>1, RestartFinds
    <2>2. CASE ~Restart
      <3>1. ~missed /\ ~Crash
        <4>1. ~Crash
          BY <1>2 DEF Crash
        <4>2. JobStep => Frame
          BY DEF JobStep, Hydrate, Find, InsertUnit, Link, Reload, ApplyPromotion, Linked, Unlink,
                 Count, Drop, Load, Index, Look, Write
        <4>3. JobStep => UNCHANGED missed
          BY <4>2 DEF Frame, seen
        <4>4. CASE \E j \in jobs : Breaks(j)
          BY <1>2, <4>1, <4>4 DEF Breaks
        <4>5. CASE ~JobStep /\ ~ \E j \in jobs : Breaks(j)
          <5>1. UNCHANGED missed
            BY <2>2, <4>1, <4>5 DEF Next, Create, Appends, CheckRedact, CheckPromote, Redact,
                                    Promote, Publish, vars, seen
          <5> QED BY <1>2, <4>1, <5>1
        <4> QED BY <1>2, <4>1, <4>3, <4>4, <4>5
      <3>2. Findable
        BY <3>1 DEF FoundInv
      <3>3. CASE UNCHANGED vars
        <4>1. UNCHANGED <<jobs, docs, unpublished, made, message, where, promotions>>
          BY <3>3 DEF vars, derived, rows
        <4>2. Grows /\ Live' = Live
          BY <4>1 DEF Grows, Live
        <4> QED BY <1>0, <3>2, <4>1, <4>2, CommitFinds
      <3>4. CASE JobStep
        <4>1. PICK j \in jobs :
                \/ Hydrate(j) \/ Find(j) \/ InsertUnit(j) \/ Link(j) \/ Reload(j)
                \/ ApplyPromotion(j) \/ Linked(j) \/ Unlink(j) \/ Count(j) \/ Drop(j) \/ Load(j)
                \/ Index(j) \/ Look(j) \/ Write(j)
          BY <3>4 DEF JobStep
        <4>2. WritesOnly(j) /\ j.who \in {"memory", "search"}
          BY <1>0 DEF SourcesInv, JobOK, JobRows
        <4>3. CASE j.who = "memory"
          <5>1. ~Index(j)
            BY <4>3 DEF Index
          <5> QED BY <1>0, <3>2, <4>1, <4>2, <4>3, <5>1, MemoryStepFinds
        <4>4. CASE j.who = "search"
          <5>1. Index(j) \/ Look(j) \/ Write(j)
            BY <4>1, <4>4 DEF Hydrate, Find, InsertUnit, Link, Reload, ApplyPromotion, Linked,
                              Unlink, Count, Drop, Load, At
          <5> QED BY <1>0, <3>2, <4>2, <4>4, <5>1, SearchStart, SearchLook, SearchWrite
        <4> QED BY <4>2, <4>3, <4>4
      <3>5. CASE \E e \in unpublished : Publish(e)
        BY <1>0, <3>2, <3>5, PublishFinds
      <3>6. CASE \E j \in jobs : Breaks(j)
        <4>1. PICK j \in jobs : Breaks(j)
          BY <3>6
        <4>2. j.who = "memory"
          BY <1>0, <1>2, <4>1 DEF Breaks, SourcesInv, JobOK, JobRows
        <4>3. UNCHANGED <<message, where, made, unpublished, docs>> /\ jobs \ {j} \subseteq jobs'
          BY <4>1 DEF Breaks, rows, derived, Ends
        <4>4. Untouched
          BY <4>3 DEF Untouched
        <4> QED BY <1>0, <3>2, <4>2, <4>3, <4>4, MemoryFinds
      <3>7. CASE \/ \E x \in Streams \cup Actors, shown \in BOOLEAN : Create(x, shown)
                 \/ \E m \in Messages, s \in Streams : Appends(m, s)
                 \/ \E c \in Calls, m \in Messages : CheckRedact(c, m)
                 \/ \E c \in Calls, a \in Actors, u \in DOMAIN units : CheckPromote(c, a, u)
                 \/ \E c \in Calls : Redact(c) \/ Promote(c)
        BY <1>0, <3>2, <3>7, CoreFinds
      <3> QED BY <2>2, <3>1, <3>3, <3>4, <3>5, <3>6, <3>7 DEF Next
    <2> QED BY <2>1, <2>2
  <1> QED BY <1>1, <1>2 DEF FoundInv

(* When no listener is at work every live message and every row has its        *)
(* document, whatever order the listeners ran in (onEvent and setup of         *)
(* search.ts).                                                                *)
THEOREM LiveAlwaysFound == Spec => []LiveIsFound
  <1>1. FoundInv => LiveIsFound
    BY DEF FoundInv, Findable, LiveIsFound, Quiet, Pending, IsFound
  <1> QED BY <1>1, FoundAtFirst, FoundStays, PTL DEF Spec
------------------------------------------------------------------------------
(* While no two events overlap and nothing is lost, at most one event is at   *)
(* work: what the memory and the search listener have still to do for it is   *)
(* exactly what is missing from the tables.                                   *)

(* The memory listener's job, if it runs. *)
Mem == {j \in jobs : j.who = "memory"}

(* Nothing of the message has been ingested. *)
Fresh(m) ==
  \/ message[m] = "none" \/ Pending("message.appended", m)
  \/ \E j \in Mem : j.ev.type = "message.appended" /\ j.ev.of = m /\ j.at = "start"

(* A job that has hydrated the message. *)
Ingests(j, m) == j.ev.type = "message.appended" /\ j.ev.of = m /\ j.at # "start"

(* The edges of the message are going to be removed. *)
Redacting(m) ==
  \/ Pending("message.redacted", m)
  \/ \E j \in Mem : j.ev.type = "message.redacted" /\ j.ev.of = m /\ j.at \in {"start", "unlink"}

(* The document of the message is going to be removed. *)
Leaving(m) ==
  \/ Pending("message.redacted", m)
  \/ \E j \in jobs : j.who = "search" /\ j.ev.type = "message.redacted" /\ j.ev.of = m

(* The message is a source of the unit of its text. *)
LinkedTo(m, t) ==
  \E u \in DOMAIN units : units[u].stream = where[m] /\ units[u].text = t /\ <<u, m>> \in edges

(* Units that have been promoted, or are going to be. *)
Tried == promotions \cup {calls[c].of : c \in {c \in Calls : calls[c].op = "promote"}}

(* The document a unit ought to have, and whether it has it. *)
UnitDoc(u) == MemoryDoc(units[u].stream, units[u].text, SourcesOf(u), units[u].promoted)
Current(u) ==
  /\ <<"memory", u>> \in DOMAIN docs <=> u \in DOMAIN units
  /\ u \in DOMAIN units => docs[<<"memory", u>>] = UnitDoc(u)

(* What a job is going to write. *)
Owes(j, u) ==
  \/ u \in j.left
  \/ j.at = "drop" /\ j.row = u
  \/ j.at = "load" /\ j.row = u /\ u \in DOMAIN units
  \/ j.at \in {"link", "reload"} /\ j.row.id = u
  \/ \E i \in DOMAIN j.out : j.out[i].key = <<"memory", u>>

(* An entry that is on its way to the documents says what the tables say. *)
Agrees(j, w) ==
  \E u \in Ids :
    /\ w.key = <<"memory", u>>
    /\ w.doc = None => u \notin DOMAIN units
    /\ w.doc # None => /\ u \in DOMAIN units /\ w.doc = UnitDoc(u)
                       /\ j.ev.type = "message.appended" => <<u, j.ev.of>> \in edges

(* One event at a time, with one job for each of its listeners. *)
OneEvent ==
  /\ \A j, k \in jobs : j.ev = k.ev /\ (j.who = k.who => j = k)
  /\ \A e \in unpublished : e.type = "message.appended" => e.by = None
  /\ \A j \in jobs : j.ev.type = "message.appended" => ~Pending("message.appended", j.ev.of)
  /\ missed => ~up
  /\ ~up => jobs = {} /\ unpublished = {}

(* What has not been ingested has no edge, and no unit has its name yet. *)
FreshOK ==
  \A m \in Messages : Fresh(m) =>
    /\ \A u \in Ids : <<u, m>> \notin edges
    /\ \A u \in DOMAIN units : u[1] # m
    /\ \A u \in Tried : u[1] # m

(* Every text of a live message has its unit, or the job is on its way to it. *)
FullOK ==
  \A m \in Messages : message[m] = "live" /\ ~Fresh(m) =>
    \A t \in Range(Kept(m)) : LinkedTo(m, t) \/ \E j \in Mem : Ingests(j, m) /\ t \in Range(j.todo)

(* A redacted message has no edge, or they are going to be removed. *)
GoneOK ==
  \A m \in Messages :
    message[m] = "redacted" /\ ~Redacting(m) => \A u \in Ids : <<u, m>> \notin edges

(* An edge is between a unit and a message of its stream that says it. *)
EdgesOK ==
  \A e \in edges : /\ e[1] \in DOMAIN units /\ units[e[1]].stream = where[e[2]]
                   /\ units[e[1]].text \in Range(Kept(e[2]))

(* One unit for each text of a stream, and each has a source or is worked on. *)
UnitsOK ==
  /\ \A u \in DOMAIN units : units[u].text = u[2]
  /\ \A u, v \in DOMAIN units :
       units[u].stream = units[v].stream /\ units[u].text = units[v].text => u = v
  /\ \A u \in DOMAIN units :
       \/ \E m \in Messages : <<u, m>> \in edges
       \/ \E j \in Mem :
            u \in j.left \/ (j.at = "drop" /\ j.row = u) \/ (j.at = "link" /\ j.row.id = u)

(* The document of a unit agrees with it, or a job is going to write it. *)
DocsOK ==
  /\ \A u \in Ids : Current(u) \/ \E j \in Mem : Owes(j, u)
  /\ \A k \in DOMAIN docs : k[1] = "memory" => k[2] \in Ids

(* A promotion that was committed is applied, or will be. *)
PromotedOK ==
  \A u \in promotions \cap DOMAIN units :
    \/ units[u].promoted \/ Pending("memory.promoted", u)
    \/ \E j \in Mem : j.ev.type = "memory.promoted" /\ j.ev.of = u /\ j.at = "start"

(* A unit that somebody promoted is not ingested again. *)
TriedOK == \A u \in Tried, j \in Mem : Ingests(j, u[1]) => u \in DOMAIN units

(* What ingestMessageAppended knows at each query. *)
IngestOK(j) ==
  LET m == j.ev.of
  IN  /\ j.at # "start" => /\ message[m] = "live" \/ Pending("message.redacted", m)
                           /\ Range(j.todo) \subseteq Range(Kept(m))
      /\ j.left = {} /\ j.at \in {"start", "find", "insert", "link", "reload", "upsert", "write"}
      /\ j.at \in {"upsert", "write"} => j.todo = <<>>
      /\ \A i \in DOMAIN j.out : j.out[i].doc # None
      /\ j.at = "insert" => UnitsSaying(where[m], Head(j.todo)) = {}
      /\ j.at \in {"link", "reload"} =>
           /\ j.row.id \in DOMAIN units /\ units[j.row.id].text = Head(j.todo)
           /\ j.row.promoted = units[j.row.id].promoted
      /\ j.at = "link" /\ ~j.found => SourcesOf(j.row.id) = {}
      /\ j.at = "reload" => <<j.row.id, m>> \in edges

(* What a memory job knows at each query. *)
WorkOK(j) ==
  /\ j.ev.type = "message.appended" => IngestOK(j)
  /\ j.at = "start" => j.left = {}
  /\ j.at \in {"start", "unlink", "count", "drop", "load"} => j.out = <<>>
  /\ \A i \in DOMAIN j.out : Agrees(j, j.out[i])
  /\ j.at = "unlink" => \A u \in Ids : <<u, j.ev.of>> \in edges => u \in j.left
  /\ j.at = "drop" => SourcesOf(j.row) = {}
  /\ j.at = "write" => j.found = (Head(j.out).key \in DOMAIN docs)

(* A message document is that of a live message, or is going to be deleted. *)
MessagesOK ==
  /\ \A k \in DOMAIN docs :
       k[1] = "message" => k[2] \in Messages /\ (k[2] \in Live \/ Leaving(k[2]))
  /\ \A j \in jobs : j.who = "search" /\ j.ev.type = "message.appended" /\ j.at = "write" =>
       j.ev.of \in Live \/ Leaving(j.ev.of)

(* The inductive invariant of a calm run, on top of the one for the documents. *)
Calm ==
  /\ OneEvent /\ FreshOK /\ FullOK /\ GoneOK /\ EdgesOK /\ UnitsOK /\ DocsOK
  /\ PromotedOK /\ TriedOK
  /\ \A j \in Mem : WorkOK(j)
  /\ MessagesOK
CalmInv == FoundInv /\ (~disturbed => Calm)

(* The one memory job. *)
LEMMA OneJob ==
  ASSUME OneEvent, NEW j \in Mem
  PROVE  Mem = {j} /\ j \in jobs /\ j.who = "memory"
  BY DEF OneEvent, Mem

(* At rest the invariant is the property. *)
LEMMA CalmAtRest ==
  ASSUME FoundInv, Calm, Quiet
  PROVE  CalmlyDerived
  <1>0. /\ Mem = {} /\ jobs = {} /\ unpublished = {} /\ ~missed /\ RowsOK /\ StoreOK
        /\ \A type, of : ~Pending(type, of)
    BY DEF Quiet, Mem, Calm, OneEvent, FoundInv, SourcesInv, Pending
  <1>1. \A m \in Messages : Fresh(m) => message[m] = "none"
    BY <1>0 DEF Fresh
  <1>2. \A e \in edges : e[1] \in DOMAIN units /\ e[2] \in Messages /\ e = <<e[1], e[2]>>
                         /\ units[e[1]].stream = where[e[2]] /\ units[e[1]].text \in Told(e[2])
    <2> TAKE e \in edges
    <2> DEFINE m == e[2]
    <2>1. e[1] \in Ids /\ m \in Messages /\ e = <<e[1], m>>
      BY <1>0 DEF StoreOK
    <2>2. message[m] # "none"
      BY <2>1 DEF Calm, FreshOK, Fresh
    <2>3. message[m] # "redacted"
      BY <1>0, <2>1 DEF Calm, GoneOK, Redacting
    <2>4. message[m] = "live"
      BY <1>0, <2>1, <2>2, <2>3 DEF RowsOK
    <2> QED BY <2>1, <2>4 DEF Calm, EdgesOK, Told, Candidates
  <1>3. ASSUME NEW m \in Messages, NEW t \in Told(m)  PROVE LinkedTo(m, t)
    <2>1. message[m] = "live" /\ t \in Range(Kept(m))
      BY <1>3 DEF Told, Candidates, Range
    <2> QED BY <1>0, <1>1, <2>1 DEF Calm, FullOK
  <1>4. \A u \in DOMAIN units : u \in Ids /\ \E m \in Messages : <<u, m>> \in edges
    BY <1>0 DEF Calm, UnitsOK, StoreOK
  <1>5. {<<units[u].stream, units[u].text>> : u \in DOMAIN units}
             = UNION {{where[m]} \X Told(m) : m \in Messages}
    <2>1. ASSUME NEW u \in DOMAIN units
          PROVE  \E m \in Messages : units[u].stream = where[m] /\ units[u].text \in Told(m)
      BY <1>2, <1>4
    <2>2. ASSUME NEW m \in Messages, NEW t \in Told(m)
          PROVE  \E u \in DOMAIN units : units[u].stream = where[m] /\ units[u].text = t
      BY <1>3 DEF LinkedTo
    <2> QED BY <2>1, <2>2
  <1>6. edges = {e \in (DOMAIN units) \X Messages :
                   units[e[1]].stream = where[e[2]] /\ units[e[1]].text \in Told(e[2])}
    <2>1. ASSUME NEW u \in DOMAIN units, NEW m \in Messages,
                 units[u].stream = where[m], units[u].text \in Told(m)
          PROVE  <<u, m>> \in edges
      <3>1. LinkedTo(m, units[u].text)
        BY <1>3, <2>1
      <3>2. PICK v \in DOMAIN units : /\ units[v].stream = where[m] /\ units[v].text = units[u].text
                                      /\ <<v, m>> \in edges
        BY <3>1 DEF LinkedTo
      <3>3. v = u
        BY <2>1, <3>2 DEF Calm, UnitsOK
      <3> QED BY <3>2, <3>3
    <2> QED BY <1>2, <2>1
  <1>7. \A u, v \in DOMAIN units :
          u # v => units[u].stream # units[v].stream \/ units[u].text # units[v].text
    BY DEF Calm, UnitsOK
  <1>8. \A u \in Ids : Current(u)
    BY <1>0 DEF Calm, DocsOK
  <1>9. \A u \in DOMAIN units :
          /\ <<"memory", u>> \in DOMAIN docs
          /\ docs[<<"memory", u>>] = MemoryDoc(units[u].stream, units[u].text, SourcesOf(u),
                                               units[u].promoted)
    BY <1>4, <1>8 DEF Current, UnitDoc
  <1>10. \A k \in DOMAIN docs : Len(k) = 2 /\ k = <<k[1], k[2]>>
    BY <1>0 DEF StoreOK, Keys
  <1>11. {k[2] : k \in {k \in DOMAIN docs : k[1] = "memory"}} = DOMAIN units
    <2>1. \A k \in DOMAIN docs : k[1] = "memory" => k[2] \in DOMAIN units
      BY <1>8, <1>10 DEF Current, Calm, DocsOK
    <2>2. \A u \in DOMAIN units : <<"memory", u>>[1] = "memory" /\ <<"memory", u>>[2] = u
      OBVIOUS
    <2> QED BY <1>9, <2>1, <2>2
  <1>12. {k[2] : k \in {k \in DOMAIN docs : k[1] = "message"}} = Live
    <2>1. \A k \in DOMAIN docs : k[1] = "message" => k[2] \in Live
      BY <1>0 DEF Calm, MessagesOK, Leaving
    <2>2. \A m \in Live : <<"message", m>> \in DOMAIN docs
      BY <1>0 DEF FoundInv, Findable, IsFound
    <2>3. \A m \in Live : <<"message", m>>[1] = "message" /\ <<"message", m>>[2] = m
      OBVIOUS
    <2> QED BY <2>1, <2>2, <2>3
  <1>13. Promoted = promotions \cap DOMAIN units
    <2>1. \A u \in DOMAIN units : units[u].promoted => u \in promotions
      BY <1>0 DEF StoreOK, UnitOK
    <2>2. \A u \in promotions \cap DOMAIN units : units[u].promoted
      BY <1>0 DEF Calm, PromotedOK
    <2> QED BY <2>1, <2>2 DEF Promoted
  <1> QED BY <1>5, <1>6, <1>7, <1>9, <1>11, <1>12, <1>13 DEF CalmlyDerived

LEMMA CalmAtFirst == Init => Calm
  <1> SUFFICES ASSUME Init  PROVE Calm
    OBVIOUS
  <1>0. /\ jobs = {} /\ unpublished = {} /\ Mem = {} /\ edges = {} /\ DOMAIN units = {}
        /\ promotions = {} /\ up = TRUE /\ missed = FALSE
        /\ \A m \in Messages : message[m] = "none"
        /\ \A c \in Calls : calls[c].op = "idle"
    BY DEF Init, Mem
  <1>1. OneEvent /\ FullOK /\ GoneOK /\ EdgesOK /\ UnitsOK /\ PromotedOK
    BY <1>0 DEF OneEvent, FullOK, GoneOK, EdgesOK, UnitsOK, PromotedOK, Fresh
  <1>2. Tried = {}
    BY <1>0 DEF Tried
  <1>3. \A k \in DOMAIN docs : k[1] \in {"channel", "thread", "actor"}
    <2>1. DOMAIN docs = {ThingKey(x) : x \in Start}
      BY DEF Init
    <2>2. Start \subseteq Streams \cup Actors
      BY RowsAssumption DEF Streams
    <2> QED BY <2>1, <2>2, KeyFacts
  <1>4. \A u : <<"memory", u>> \notin DOMAIN docs
    <2> TAKE u
    <2>1. <<"memory", u>>[1] = "memory"
      OBVIOUS
    <2> QED BY <1>3, <2>1
  <1>5. FreshOK /\ TriedOK /\ MessagesOK /\ DocsOK
    BY <1>0, <1>2, <1>3, <1>4 DEF FreshOK, TriedOK, MessagesOK, DocsOK, Current
  <1> QED BY <1>0, <1>1, <1>5 DEF Calm

------------------------------------------------------------------------------
(* A commit changes the rows and adds an event. *)
LEMMA CoreCalm ==
  ASSUME SourcesInv, Calm, RowsOK', Grows, UNCHANGED <<jobs, derived, seen>>,
         up \/ unpublished' = unpublished, unpublished \subseteq unpublished',
         \A m \in Messages : message'[m] = "redacted" =>
            message[m] = "redacted" \/ Pending("message.redacted", m)',
         \A m \in Messages : message[m] = "none" =>
            message'[m] = "none" \/ (message'[m] = "live" /\ Pending("message.appended", m)'),
         \A e \in unpublished' : e \in unpublished \/
            (e.type = "message.appended" => e.by = None /\ e.of \in Messages /\ message[e.of] = "none"),
         Tried' \subseteq Tried \cup DOMAIN units,
         \A u \in promotions' : u \in promotions \/ Pending("memory.promoted", u)'
  PROVE  Calm'
  <1>0. /\ Mem' = Mem /\ UNCHANGED <<jobs, units, edges, docs, up, missed>>
        /\ RowsOK /\ StoreOK /\ \A j \in jobs : JobOK(j)
        /\ \A type, of : Pending(type, of) => Pending(type, of)'
    BY DEF Mem, derived, seen, SourcesInv, Pending
  <1>1. \A m \in Messages : Fresh(m)' <=> Fresh(m)
    BY <1>0 DEF Fresh, Grows, Pending
  <1>2. \A m \in Messages : Redacting(m) => Redacting(m)'
    BY <1>0 DEF Redacting
  <1>3. \A u, v : SourcesOf(u)' = SourcesOf(u) /\ UnitDoc(u)' = UnitDoc(u) /\ (Current(u) => Current(u)')
    BY <1>0 DEF SourcesOf, UnitDoc, MemoryDoc, Doc, Current
  <1>4. \A m \in Messages : message[m] # "none" => where'[m] = where[m]
    BY <1>0 DEF Grows, RowsOK
  <1>5. OneEvent'
    <2>1. \A j \in jobs : j.ev.type = "message.appended" => ~Pending("message.appended", j.ev.of)'
      BY <1>0 DEF Calm, OneEvent, Pending, JobOK, EventOK
    <2> QED BY <1>0, <2>1 DEF Calm, OneEvent
  <1>6. FreshOK'
    BY <1>0, <1>1 DEF Calm, FreshOK
  <1>7. FullOK'
    <2> SUFFICES ASSUME NEW m \in Messages, message'[m] = "live", ~Fresh(m)', NEW t \in Range(Kept(m))
                 PROVE  LinkedTo(m, t)' \/ \E j \in Mem : Ingests(j, m) /\ t \in Range(j.todo)
      BY <1>0 DEF FullOK
    <2>1. ~Fresh(m) /\ message[m] # "none"
      BY <1>1 DEF Fresh
    <2>2. message[m] = "live"
      BY <1>0, <2>1 DEF Grows, RowsOK
    <2>3. LinkedTo(m, t) \/ \E j \in Mem : Ingests(j, m) /\ t \in Range(j.todo)
      BY <2>1, <2>2 DEF Calm, FullOK
    <2>4. LinkedTo(m, t) => LinkedTo(m, t)'
      BY <1>0, <1>4, <2>1 DEF LinkedTo
    <2> QED BY <2>3, <2>4
  <1>8. GoneOK'
    BY <1>0, <1>2 DEF Calm, GoneOK, Redacting
  <1>9. EdgesOK'
    <2>1. \A e \in edges : e[2] \in Messages /\ message[e[2]] # "none"
      BY <1>0 DEF StoreOK, RowsOK
    <2> QED BY <1>0, <1>4, <2>1 DEF Calm, EdgesOK
  <1>10. UnitsOK'
    BY <1>0 DEF Calm, UnitsOK
  <1>11. DocsOK'
    BY <1>0, <1>3 DEF Calm, DocsOK, Owes
  <1>12. PromotedOK'
    BY <1>0 DEF Calm, PromotedOK
  <1>13. TriedOK'
    BY <1>0 DEF Calm, TriedOK, Ingests
  <1>14. \A j \in Mem : WorkOK(j)'
    <2> TAKE j \in Mem
    <2>1. WorkOK(j) /\ JobOK(j) /\ j \in jobs
      BY <1>0 DEF Calm, Mem
    <2>2. j.ev.type = "message.appended" => IngestOK(j)'
      <3> SUFFICES ASSUME j.ev.type = "message.appended"  PROVE IngestOK(j)'
        OBVIOUS
      <3>1. j.ev.of \in Messages /\ message[j.ev.of] # "none"
        BY <2>1 DEF JobOK, EventOK
      <3>2. UnitsSaying(where[j.ev.of], Head(j.todo))' = UnitsSaying(where[j.ev.of], Head(j.todo))
        BY <1>0, <1>4, <3>1 DEF UnitsSaying
      <3>3. message[j.ev.of] = "live" \/ Pending("message.redacted", j.ev.of) =>
              message'[j.ev.of] = "live" \/ Pending("message.redacted", j.ev.of)'
        BY <1>0, <3>1 DEF Grows, RowsOK
      <3>4. IngestOK(j)
        BY <2>1 DEF WorkOK
      <3> QED BY <1>0, <1>3, <3>2, <3>3, <3>4 DEF IngestOK
    <2>3. \A w : Agrees(j, w) => Agrees(j, w)'
      BY <1>0, <1>3 DEF Agrees
    <2> QED BY <1>0, <1>3, <2>1, <2>2, <2>3 DEF WorkOK
  <1>15. MessagesOK'
    <2>1. \A m \in Messages : m \in Live \/ Leaving(m) => m \in Live' \/ Leaving(m)'
      BY <1>0 DEF Live, Leaving, RowsOK, Grows
    <2>2. \A j \in jobs : j.ev.type = "message.appended" => j.ev.of \in Messages
      BY <1>0 DEF JobOK, EventOK
    <2> QED BY <1>0, <2>1, <2>2 DEF Calm, MessagesOK
  <1> QED BY <1>0, <1>5, <1>6, <1>7, <1>8, <1>9, <1>10, <1>11, <1>12, <1>13, <1>14, <1>15 DEF Calm

LEMMA CoreStepCalm ==
  ASSUME SourcesInv, Calm, SourcesInv',
         \/ \E x \in Streams \cup Actors, shown \in BOOLEAN : Create(x, shown)
         \/ \E m \in Messages, s \in Streams : Appends(m, s)
         \/ \E c \in Calls, m \in Messages : CheckRedact(c, m)
         \/ \E c \in Calls, a \in Actors, u \in DOMAIN units : CheckPromote(c, a, u)
         \/ \E c \in Calls : Redact(c) \/ Promote(c)
  PROVE  Calm'
  <1>0. RowsOK /\ CallsOK /\ RowsOK'
    BY DEF SourcesInv
  <1>1. CASE \E x \in Streams \cup Actors, shown \in BOOLEAN : Create(x, shown)
    <2>1. PICK x \in Streams \cup Actors, shown \in BOOLEAN : Create(x, shown)
      BY <1>1
    <2>2. Grows /\ UNCHANGED <<message, where, calls, jobs, derived, promotions, seen>> /\ up
          /\ unpublished' = unpublished \cup {Event("created", x, None)}
      BY <2>1 DEF Create, Grows, MayBegin
    <2>3. Tried' = Tried
      BY <2>2 DEF Tried
    <2> QED BY <1>0, <2>2, <2>3, CoreCalm DEF Event
  <1>2. CASE \E m \in Messages, s \in Streams : Appends(m, s)
    <2>1. PICK m \in Messages, s \in Streams : Appends(m, s)
      BY <1>2
    <2>2. Grows /\ UNCHANGED <<calls, jobs, derived, promotions, seen>> /\ up /\ message[m] = "none"
          /\ unpublished' = unpublished \cup {Event("message.appended", m, None)}
      BY <1>0, <2>1 DEF Appends, Grows, RowsOK, MayBegin
    <2>3. Tried' = Tried
      BY <2>2 DEF Tried
    <2>4. Pending("message.appended", m)'
      <3>1. Event("message.appended", m, None) \in unpublished'
        BY <2>2
      <3> QED BY <3>1 DEF Pending, Event
    <2>5. \A n \in Messages : message'[n] = IF n = m THEN "live" ELSE message[n]
      BY <1>0, <2>1 DEF Appends, RowsOK
    <2>6. Event("message.appended", m, None).by = None /\ Event("message.appended", m, None).of = m
      BY DEF Event
    <2> QED BY <1>0, <2>2, <2>3, <2>4, <2>5, <2>6, CoreCalm
  <1>3. CASE \E c \in Calls : Redact(c)
    <2>1. PICK c \in Calls : Redact(c)
      BY <1>3
    <2>2. PICK m \in Messages : m = calls[c].of /\ message[m] # "none"
      BY <1>0, <2>1 DEF CallsOK, Redact
    <2>3. Grows /\ UNCHANGED <<jobs, derived, promotions, seen>> /\ up
          /\ unpublished' = unpublished \cup {Event("message.redacted", m, c)}
      BY <1>0, <2>1, <2>2 DEF Redact, Grows, RowsOK, MayCommit
    <2>4. Tried' \subseteq Tried
      BY <1>0, <2>1, <2>3 DEF Tried, Redact, Done, CallsOK
    <2>5. Pending("message.redacted", m)'
      <3>1. Event("message.redacted", m, c) \in unpublished'
        BY <2>3
      <3> QED BY <3>1 DEF Pending, Event
    <2>6. \A n \in Messages : message'[n] = IF n = m THEN "redacted" ELSE message[n]
      BY <1>0, <2>1, <2>2 DEF Redact, RowsOK
    <2>7. Event("message.redacted", m, c).type # "message.appended"
      BY DEF Event
    <2> QED BY <1>0, <2>2, <2>3, <2>4, <2>5, <2>6, <2>7, CoreCalm
  <1>4. CASE \E c \in Calls : Promote(c)
    <2>1. PICK c \in Calls : Promote(c)
      BY <1>4
    <2>0. PICK u : u = calls[c].of
      OBVIOUS
    <2>2. Grows /\ UNCHANGED <<message, jobs, derived, seen>> /\ up
          /\ unpublished' = unpublished \cup {Event("memory.promoted", u, c)}
          /\ promotions' = promotions \cup {u}
      BY <2>0, <2>1 DEF Promote, Grows, rows, MayCommit
    <2>3. Tried' \subseteq Tried
      BY <1>0, <2>0, <2>1, <2>2 DEF Tried, Promote, Done, CallsOK
    <2>4. Pending("memory.promoted", u)'
      <3>1. Event("memory.promoted", u, c) \in unpublished'
        BY <2>2
      <3> QED BY <3>1 DEF Pending, Event
    <2>5. Event("memory.promoted", u, c).type # "message.appended"
      BY DEF Event
    <2> QED BY <1>0, <2>2, <2>3, <2>4, <2>5, CoreCalm
  <1>5. CASE \/ \E c \in Calls, m \in Messages : CheckRedact(c, m)
             \/ \E c \in Calls, a \in Actors, u \in DOMAIN units : CheckPromote(c, a, u)
    <2>1. Grows /\ UNCHANGED <<message, unpublished, jobs, derived, promotions, seen>> /\ up
      BY <1>5 DEF CheckRedact, CheckPromote, Grows, rows, Free, MayBegin
    <2>2. Tried' \subseteq Tried \cup DOMAIN units
      BY <1>0, <1>5, <2>1 DEF Tried, CheckRedact, CheckPromote, CallsOK
    <2> QED BY <1>0, <2>1, <2>2, CoreCalm
  <1> QED BY <1>1, <1>2, <1>3, <1>4, <1>5

(* Publishing starts the jobs of the event; none is running. *)
LEMMA PublishCalm ==
  ASSUME SourcesInv, Calm, NEW e \in unpublished, Publish(e), ~disturbed'
  PROVE  Calm'
  <1>0. /\ jobs = {} /\ Mem = {} /\ jobs' = {Job(who, e) : who \in Listeners(e)}
        /\ unpublished' = unpublished \ {e} /\ up /\ EventOK(e) /\ RowsOK
        /\ UNCHANGED <<message, where, calls, promotions, units, edges, docs, up, missed>>
    BY DEF Publish, Mem, rows, derived, seen, SourcesInv
  <1>1. \A j \in jobs' : j.ev = e /\ j.at = "start" /\ j.todo = <<>> /\ j.left = {} /\ j.out = <<>>
                         /\ j.who \in Listeners(e) /\ j = Job(j.who, e)
    BY <1>0 DEF Job
  <1>2. \A who \in Listeners(e) : \E j \in jobs' : j.who = who /\ j.ev = e /\ j.at = "start"
    <2> TAKE who \in Listeners(e)
    <2>1. Job(who, e) \in jobs' /\ Job(who, e).who = who /\ Job(who, e).ev = e
          /\ Job(who, e).at = "start"
      BY <1>0 DEF Job
    <2> QED BY <2>1
  <1>3. \A type, of : Pending(type, of) => Pending(type, of)' \/ (e.type = type /\ e.of = of)
    BY <1>0 DEF Pending
  <1>4. e.type = "message.appended" => ~Pending("message.appended", e.of)'
    BY <1>0 DEF Calm, OneEvent, Pending, EventOK, Events, SourcesInv
  <1>5. OneEvent'
    BY <1>0, <1>1, <1>4 DEF Calm, OneEvent
  <1>6. "memory" \in Listeners(e) => \E j \in Mem' : j.ev = e /\ j.at = "start"
    BY <1>2 DEF Mem
  <1>7. \A m \in Messages : Fresh(m)' <=> Fresh(m)
    <2> TAKE m \in Messages
    <2>1. ASSUME Fresh(m)'  PROVE Fresh(m)
      <3>1. Pending("message.appended", m)' => Pending("message.appended", m)
        BY <1>0 DEF Pending
      <3>2. ASSUME NEW j \in Mem', j.ev.type = "message.appended", j.ev.of = m
            PROVE  Pending("message.appended", m)
        BY <1>1, <3>2 DEF Mem, Pending
      <3> QED BY <1>0, <2>1, <3>1, <3>2 DEF Fresh
    <2>2. ASSUME Fresh(m)  PROVE Fresh(m)'
      <3>1. e.type = "message.appended" => "memory" \in Listeners(e)
        BY DEF Listeners
      <3> QED BY <1>0, <1>3, <1>6, <2>2, <3>1 DEF Fresh
    <2> QED BY <2>1, <2>2
  <1>8. \A m \in Messages : Redacting(m) => Redacting(m)'
    <2>1. e.type = "message.redacted" => "memory" \in Listeners(e)
      BY DEF Listeners
    <2> QED BY <1>0, <1>3, <1>6, <2>1 DEF Redacting
  <1>9. \A m : Leaving(m) => Leaving(m)'
    <2>1. e.type = "message.redacted" => "search" \in Listeners(e)
      BY DEF Listeners
    <2> QED BY <1>0, <1>2, <1>3, <2>1 DEF Leaving
  <1>10. \A u : Current(u) <=> Current(u)'
    BY <1>0 DEF Current, UnitDoc, SourcesOf, MemoryDoc, Doc
  <1>11. FreshOK' /\ EdgesOK'
    BY <1>0, <1>7 DEF Calm, FreshOK, EdgesOK, Tried
  <1>12. FullOK' /\ GoneOK'
    BY <1>0, <1>7, <1>8 DEF Calm, FullOK, GoneOK, LinkedTo
  <1>13. UnitsOK' /\ DocsOK'
    BY <1>0, <1>10 DEF Calm, UnitsOK, DocsOK
  <1>14. PromotedOK'
    <2>1. e.type = "memory.promoted" => "memory" \in Listeners(e)
      BY DEF Listeners
    <2> QED BY <1>0, <1>3, <1>6, <2>1 DEF Calm, PromotedOK
  <1>15. TriedOK'
    BY <1>1 DEF TriedOK, Ingests, Mem
  <1>16. \A j \in Mem' : WorkOK(j)'
    BY <1>1 DEF Mem, WorkOK, IngestOK
  <1>17. MessagesOK'
    <2>1. Live' = Live
      BY <1>0 DEF Live
    <2> QED BY <1>0, <1>1, <1>9, <2>1 DEF Calm, MessagesOK
  <1> QED BY <1>5, <1>11, <1>12, <1>13, <1>14, <1>15, <1>16, <1>17 DEF Calm

------------------------------------------------------------------------------
(* The memory job goes on. *)
GoesOn(j, K) ==
  /\ jobs' = (jobs \ {j}) \cup K
  /\ \A k \in K : k.who = "memory" /\ k.ev = j.ev /\ k.at # "start"
  /\ \A k, l \in K : k = l

LEMMA GoesOnFacts ==
  ASSUME SourcesInv, Calm, Frame, NEW j \in Mem, NEW K, GoesOn(j, K)
  PROVE  /\ Mem = {j} /\ Mem' = K
         /\ UNCHANGED <<message, where, calls, promotions, unpublished, up, missed, Tried>>
         /\ \A type, of : Pending(type, of)' <=> Pending(type, of)
         /\ JobOK(j) /\ WorkOK(j) /\ RowsOK /\ StoreOK /\ Live' = Live
  <1>1. Mem = {j} /\ j \in jobs
    BY OneJob DEF Calm
  <1>2. Mem' = K
    BY <1>1 DEF Mem, GoesOn
  <1>3. UNCHANGED <<message, where, calls, promotions, unpublished, up, missed>>
    BY DEF Frame, rows, seen
  <1>4. Tried' = Tried /\ Live' = Live /\ \A type, of : Pending(type, of)' <=> Pending(type, of)
    BY <1>3 DEF Tried, Live, Pending
  <1> QED BY <1>1, <1>2, <1>3, <1>4 DEF SourcesInv, Calm

LEMMA GoesOnEvent ==
  ASSUME SourcesInv, Calm, Frame, NEW j \in Mem, NEW K, GoesOn(j, K)
  PROVE  OneEvent'
  <1>1. /\ Mem = {j} /\ Mem' = K /\ UNCHANGED <<unpublished, up, missed>>
        /\ \A type, of : Pending(type, of)' <=> Pending(type, of)
    BY GoesOnFacts
  <1>2. j \in jobs
    BY DEF Mem
  <1>3. \A k \in jobs' : k.ev = j.ev
    BY <1>2 DEF GoesOn, Calm, OneEvent
  <1>4. \A k, l \in jobs' : k.who = l.who => k = l
    <2> SUFFICES ASSUME NEW k \in jobs', NEW l \in jobs', k.who = l.who  PROVE k = l
      OBVIOUS
    <2>1. CASE k.who = "memory"
      BY <1>1, <2>1 DEF GoesOn, Mem
    <2>2. CASE k.who # "memory"
      BY <2>2 DEF GoesOn, Calm, OneEvent
    <2> QED BY <2>1, <2>2
  <1>5. jobs # {} /\ up
    BY <1>2 DEF Calm, OneEvent, SourcesInv, FlagsOK
  <1> QED BY <1>1, <1>2, <1>3, <1>4, <1>5 DEF Calm, OneEvent

LEMMA GoesOnMessages ==
  ASSUME SourcesInv, SourcesInv', Calm, Frame, NEW j \in Mem, NEW K, GoesOn(j, K), Untouched
  PROVE  MessagesOK'
  <1>1. j.who = "memory" /\ Live' = Live /\ \A type, of : Pending(type, of)' <=> Pending(type, of)
    BY GoesOnFacts DEF Mem
  <1>2. \A k : k.who = "search" => (k \in jobs <=> k \in jobs')
    BY <1>1 DEF GoesOn
  <1>3. \A m : Leaving(m)' <=> Leaving(m)
    BY <1>1, <1>2 DEF Leaving
  <1>4. \A k \in DOMAIN docs' : k[1] = "message" => k \in DOMAIN docs
    BY DEF Untouched, SourcesInv, StoreOK
  <1> QED BY <1>1, <1>2, <1>3, <1>4 DEF Calm, MessagesOK

LEMMA GoesOnFresh ==
  ASSUME SourcesInv, Calm, Frame, NEW j \in Mem, NEW K, GoesOn(j, K)
  PROVE  /\ \A m \in Messages : Fresh(m)' => Fresh(m)
         /\ \A m \in Messages : Fresh(m) => Fresh(m)' \/ (j.ev.type = "message.appended" /\ j.ev.of = m /\ j.at = "start")
         /\ \A m \in Messages : Redacting(m) =>
               \/ Redacting(m)'
               \/ j.ev.type = "message.redacted" /\ j.ev.of = m /\ j.at \in {"start", "unlink"}
                  /\ \A k \in K : k.at # "unlink"
  <1>1. /\ Mem = {j} /\ Mem' = K /\ UNCHANGED <<message, unpublished>>
        /\ \A type, of : Pending(type, of)' <=> Pending(type, of)
    BY GoesOnFacts
  <1> QED BY <1>1 DEF Fresh, Redacting, GoesOn

LEMMA GoesOnFull ==
  ASSUME SourcesInv, Calm, Frame, NEW j \in Mem, NEW K, GoesOn(j, K),
         \A m \in Messages : \A t : message[m] = "live" /\ LinkedTo(m, t) => LinkedTo(m, t)',
         j.ev.type = "message.appended" /\ message[j.ev.of] = "live" =>
            \A t \in Range(Kept(j.ev.of)) :
               j.at = "start" \/ t \in Range(j.todo) =>
                 LinkedTo(j.ev.of, t)' \/ \E k \in K : t \in Range(k.todo)
  PROVE  FullOK'
  <1>0. Mem = {j} /\ Mem' = K /\ message' = message
    BY GoesOnFacts
  <1>1. \A k \in K : k.ev = j.ev /\ k.at # "start"
    BY DEF GoesOn
  <1> SUFFICES ASSUME NEW m \in Messages, message[m] = "live", ~Fresh(m)', NEW t \in Range(Kept(m))
               PROVE  LinkedTo(m, t)' \/ \E k \in K : Ingests(k, m) /\ t \in Range(k.todo)
    BY <1>0 DEF FullOK
  <1>2. CASE Fresh(m)
    <2>1. j.ev.type = "message.appended" /\ j.ev.of = m /\ j.at = "start"
      BY <1>2, GoesOnFresh
    <2> QED BY <1>1, <2>1 DEF Ingests
  <1>3. CASE ~Fresh(m)
    <2>1. LinkedTo(m, t) \/ (Ingests(j, m) /\ t \in Range(j.todo))
      BY <1>0, <1>3 DEF Calm, FullOK
    <2> QED BY <1>1, <2>1 DEF Ingests
  <1> QED BY <1>2, <1>3

LEMMA GoesOnTried ==
  ASSUME SourcesInv, Calm, Frame, NEW j \in Mem, NEW K, GoesOn(j, K),
         j.ev.type = "message.appended" => DOMAIN units \subseteq DOMAIN units'
  PROVE  TriedOK'
  <1>0. Mem = {j} /\ Mem' = K /\ Tried' = Tried /\ JobOK(j)
    BY GoesOnFacts
  <1>1. \A k \in K : k.ev = j.ev /\ k.at # "start"
    BY DEF GoesOn
  <1> SUFFICES ASSUME NEW u \in Tried, NEW k \in K, Ingests(k, u[1])  PROVE u \in DOMAIN units'
    BY <1>0 DEF TriedOK
  <1>2. j.ev.type = "message.appended" /\ j.ev.of = u[1] /\ j.ev.of \in Messages
    BY <1>0, <1>1 DEF Ingests, JobOK, EventOK
  <1>3. CASE j.at # "start"
    BY <1>0, <1>2, <1>3 DEF Calm, TriedOK, Ingests
  <1>4. CASE j.at = "start"
    <2>1. Fresh(j.ev.of)
      BY <1>0, <1>2, <1>4 DEF Fresh
    <2> QED BY <1>2, <2>1 DEF Calm, FreshOK
  <1> QED BY <1>3, <1>4

(* Nothing but the job and the documents of units has changed. *)
LEMMA JobMovesCalm ==
  ASSUME SourcesInv, SourcesInv', Calm, Frame, NEW j \in Mem, NEW K, GoesOn(j, K),
         UNCHANGED <<units, edges>>, Untouched,
         j.ev.type = "memory.promoted" => j.at # "start",
         j.ev.type = "message.redacted" /\ j.at \in {"start", "unlink"} =>
            (\E k \in K : k.at = "unlink") \/ \A u \in Ids : <<u, j.ev.of>> \notin edges,
         j.ev.type = "message.appended" /\ message[j.ev.of] = "live" =>
            \A t \in Range(Kept(j.ev.of)) :
               j.at = "start" \/ t \in Range(j.todo) =>
                 LinkedTo(j.ev.of, t) \/ \E k \in K : t \in Range(k.todo),
         \A u \in DOMAIN units :
            u \in j.left \/ (j.at = "drop" /\ j.row = u) \/ (j.at = "link" /\ j.row.id = u) =>
              \/ \E m \in Messages : <<u, m>> \in edges
              \/ \E k \in K : u \in k.left \/ (k.at = "drop" /\ k.row = u) \/ (k.at = "link" /\ k.row.id = u),
         \A u \in Ids : Current(u) \/ Owes(j, u) => Current(u)' \/ \E k \in K : Owes(k, u)',
         \A key \in DOMAIN docs' : key[1] = "memory" => key[2] \in Ids,
         \A k \in K : WorkOK(k)'
  PROVE  Calm'
  <1>0. /\ Mem = {j} /\ Mem' = K
        /\ UNCHANGED <<message, where, promotions, units, edges, Tried>>
        /\ \A type, of : Pending(type, of)' <=> Pending(type, of)
        /\ JobOK(j) /\ RowsOK /\ StoreOK /\ EventOK(j.ev)
    BY GoesOnFacts DEF JobOK
  <1>1. \A k \in K : k.ev = j.ev /\ k.at # "start"
    BY DEF GoesOn
  <1>2. \A m, t : LinkedTo(m, t)' <=> LinkedTo(m, t)
    BY <1>0 DEF LinkedTo
  <1>3. FreshOK' /\ EdgesOK'
    BY <1>0, GoesOnFresh DEF Calm, FreshOK, EdgesOK
  <1>4. FullOK'
    BY <1>2, GoesOnFull
  <1>5. GoneOK'
    BY <1>0, <1>1, GoesOnFresh DEF Calm, GoneOK
  <1>6. UnitsOK'
    BY <1>0 DEF Calm, UnitsOK
  <1>7. DocsOK'
    BY <1>0 DEF Calm, DocsOK
  <1>8. PromotedOK'
    BY <1>0 DEF Calm, PromotedOK
  <1>9. TriedOK'
    BY <1>0, GoesOnTried
  <1>10. MessagesOK' /\ OneEvent'
    BY GoesOnMessages, GoesOnEvent
  <1> QED BY <1>0, <1>3, <1>4, <1>5, <1>6, <1>7, <1>8, <1>9, <1>10 DEF Calm

(* Nothing but the job has changed. *)
LEMMA JobKeepsCalm ==
  ASSUME SourcesInv, SourcesInv', Calm, Frame, NEW j \in Mem, NEW K, GoesOn(j, K), UNCHANGED derived,
         j.ev.type = "memory.promoted" => j.at # "start",
         j.ev.type = "message.redacted" /\ j.at \in {"start", "unlink"} =>
            (\E k \in K : k.at = "unlink") \/ \A u \in Ids : <<u, j.ev.of>> \notin edges,
         j.ev.type = "message.appended" /\ message[j.ev.of] = "live" =>
            \A t \in Range(Kept(j.ev.of)) :
               j.at = "start" \/ t \in Range(j.todo) =>
                 LinkedTo(j.ev.of, t) \/ \E k \in K : t \in Range(k.todo),
         \A u \in DOMAIN units :
            u \in j.left \/ (j.at = "drop" /\ j.row = u) \/ (j.at = "link" /\ j.row.id = u) =>
              \/ \E m \in Messages : <<u, m>> \in edges
              \/ \E k \in K : u \in k.left \/ (k.at = "drop" /\ k.row = u) \/ (k.at = "link" /\ k.row.id = u),
         \A u \in Ids : Owes(j, u) => Current(u) \/ \E k \in K : Owes(k, u),
         \A k \in K : WorkOK(k)
  PROVE  Calm'
  <1>0. UNCHANGED <<message, where, promotions, units, edges, docs, Tried>>
        /\ \A type, of : Pending(type, of)' <=> Pending(type, of)
    BY GoesOnFacts DEF derived
  <1>1. \A u : SourcesOf(u)' = SourcesOf(u) /\ UnitDoc(u)' = UnitDoc(u)
    BY <1>0 DEF SourcesOf, UnitDoc, MemoryDoc, Doc
  <1>2. /\ \A u : Current(u)' <=> Current(u)
        /\ \A k, u : Owes(k, u)' <=> Owes(k, u)
    BY <1>0, <1>1 DEF Current, Owes
  <1>3. \A k, w : Agrees(k, w)' <=> Agrees(k, w)
    BY <1>0, <1>1 DEF Agrees
  <1>4. \A k : IngestOK(k)' <=> IngestOK(k)
    BY <1>0, <1>1 DEF IngestOK, UnitsSaying
  <1>5. \A k : WorkOK(k)' <=> WorkOK(k)
    BY <1>0, <1>1, <1>3, <1>4 DEF WorkOK
  <1>6. Untouched /\ \A key \in DOMAIN docs' : key[1] = "memory" => key[2] \in Ids
    BY <1>0 DEF Untouched, Calm, DocsOK
  <1> QED BY <1>0, <1>2, <1>5, <1>6, JobMovesCalm

LEMMA RangeTail ==
  ASSUME NEW S, NEW s \in Seq(S), s # <<>>
  PROVE  Range(s) = {Head(s)} \cup Range(Tail(s))
  <1>1. \A i \in DOMAIN s : i = 1 \/ (i - 1 \in DOMAIN Tail(s) /\ Tail(s)[i - 1] = s[i])
    OBVIOUS
  <1>2. \A i \in DOMAIN Tail(s) : i + 1 \in DOMAIN s /\ Tail(s)[i] = s[i + 1]
    OBVIOUS
  <1>3. 1 \in DOMAIN s /\ Head(s) = s[1]
    OBVIOUS
  <1> QED BY <1>1, <1>2, <1>3 DEF Range

LEMMA AppendRange ==
  ASSUME NEW S, NEW s \in Seq(S), NEW w
  PROVE  /\ \A i \in DOMAIN Append(s, w) : Append(s, w)[i] = w \/ (i \in DOMAIN s /\ Append(s, w)[i] = s[i])
         /\ \A i \in DOMAIN s : i \in DOMAIN Append(s, w) /\ Append(s, w)[i] = s[i]
         /\ \E i \in DOMAIN Append(s, w) : Append(s, w)[i] = w
         /\ Append(s, w) # <<>>
  <1>1. DOMAIN Append(s, w) = 1 .. Len(s) + 1 /\ DOMAIN s = 1 .. Len(s) /\ Len(s) \in Nat
    OBVIOUS
  <1>2. Append(s, w)[Len(s) + 1] = w /\ \A i \in 1 .. Len(s) : Append(s, w)[i] = s[i]
    OBVIOUS
  <1>3. Len(s) + 1 \in 1 .. Len(s) + 1 /\ \A i \in 1 .. Len(s) + 1 : i = Len(s) + 1 \/ i \in 1 .. Len(s)
    BY <1>1
  <1> QED BY <1>1, <1>2, <1>3

LEMMA OwesNothing ==
  ASSUME NEW j, j.at \notin {"drop", "load", "link", "reload"}, j.left = {}, j.out = <<>>
  PROVE  \A u : ~Owes(j, u)
  BY DEF Owes

LEMMA HydrateCalm ==
  ASSUME SourcesInv, SourcesInv', Calm, NEW j \in Mem, Hydrate(j)
  PROVE  Calm'
  <1> DEFINE m == j.ev.of
  <1>0. /\ Frame /\ UNCHANGED derived /\ j.at = "start" /\ j.ev.type = "message.appended" /\ m \in Messages
        /\ JobOK(j) /\ WorkOK(j) /\ j \in jobs /\ j.who = "memory"
    BY DEF Hydrate, At, Mem, SourcesInv, JobOK, EventOK, Calm
  <1>1. j.left = {} /\ j.out = <<>> /\ \A u : ~Owes(j, u)
    BY <1>0, OwesNothing DEF WorkOK
  <1>2. CASE Candidates(m) = <<>>
    <2>1. GoesOn(j, {})
      BY <1>2 DEF Hydrate, Ends, GoesOn
    <2>2. message[m] = "live" => Range(Kept(m)) = {}
      BY <1>2 DEF Candidates, Range
    <2> QED BY <1>0, <1>1, <2>1, <2>2, JobKeepsCalm
  <1>3. CASE Candidates(m) # <<>>
    <2>1. PICK k : k = [j EXCEPT !.at = "find", !.todo = Candidates(m)]
      OBVIOUS
    <2>2. k.who = "memory" /\ k.ev = j.ev /\ k.at = "find" /\ k.todo = Candidates(m) /\ k.left = {} /\ k.out = <<>>
      BY <1>0, <1>1, <2>1 DEF JobOK, JobRows
    <2>3. GoesOn(j, {k})
      BY <1>3, <2>1, <2>2 DEF Hydrate, Goes, GoesOn
    <2>4. message[m] = "live" /\ k.todo = Kept(m)
      BY <1>3, <2>2 DEF Candidates
    <2>5. WorkOK(k)
      BY <1>0, <2>2, <2>4 DEF WorkOK, IngestOK
    <2> QED BY <1>0, <1>1, <2>3, <2>4, <2>5, JobKeepsCalm
  <1> QED BY <1>2, <1>3

LEMMA FindCalm ==
  ASSUME SourcesInv, SourcesInv', Calm, NEW j \in Mem, Find(j)
  PROVE  Calm'
  <1> DEFINE m == j.ev.of
             same == UnitsSaying(where[m], Head(j.todo))
  <1>0. /\ Frame /\ UNCHANGED derived /\ j.at = "find" /\ j.ev.type = "message.appended" /\ m \in Messages
        /\ JobOK(j) /\ WorkOK(j) /\ IngestOK(j) /\ j \in jobs /\ j.who = "memory"
    BY DEF Find, At, Mem, SourcesInv, JobOK, EventOK, Calm, WorkOK
  <1>1. CASE same = {}
    <2>1. PICK k : k = [j EXCEPT !.at = "insert", !.found = FALSE]
      OBVIOUS
    <2>2. /\ k.who = "memory" /\ k.ev = j.ev /\ k.at = "insert" /\ k.todo = j.todo /\ k.left = j.left
          /\ k.out = j.out
      BY <1>0, <2>1 DEF JobOK, JobRows
    <2>3. GoesOn(j, {k})
      BY <1>1, <2>1, <2>2 DEF Find, Goes, GoesOn
    <2>4. WorkOK(k)
      <3>1. \A w : Agrees(j, w) => Agrees(k, w)
        BY <2>2 DEF Agrees
      <3>2. IngestOK(k)
        BY <1>0, <1>1, <2>2 DEF IngestOK
      <3> HIDE DEF m, same
      <3> QED BY <1>0, <2>2, <3>1, <3>2 DEF WorkOK
    <2>5. \A u : Owes(j, u) => Owes(k, u)
      BY <1>0, <2>2 DEF Owes
    <2> QED BY <1>0, <2>2, <2>3, <2>4, <2>5, JobKeepsCalm
  <1>2. CASE same # {}
    <2>0. PICK u \in same : Goes(j, [j EXCEPT !.at = "link", !.found = TRUE,
                                              !.row = [id |-> u, promoted |-> units[u].promoted,
                                                       stream |-> units[u].stream]])
      BY <1>2 DEF Find
    <2> DEFINE r == [id |-> u, promoted |-> units[u].promoted, stream |-> units[u].stream]
    <2>1. PICK k : k = [j EXCEPT !.at = "link", !.found = TRUE, !.row = r]
      OBVIOUS
    <2>2. /\ k.who = "memory" /\ k.ev = j.ev /\ k.at = "link" /\ k.todo = j.todo /\ k.left = j.left
          /\ k.out = j.out /\ k.found = TRUE /\ k.row = r
      BY <1>0, <2>1 DEF JobOK, JobRows
    <2>3. GoesOn(j, {k})
      BY <2>0, <2>1, <2>2 DEF Goes, GoesOn
    <2>4. u \in DOMAIN units /\ units[u].text = Head(j.todo)
      BY DEF UnitsSaying
    <2>5. WorkOK(k)
      <3>1. \A w : Agrees(j, w) => Agrees(k, w)
        BY <2>2 DEF Agrees
      <3>2. IngestOK(k)
        BY <1>0, <2>2, <2>4 DEF IngestOK
      <3> QED BY <1>0, <2>2, <3>1, <3>2 DEF WorkOK
    <2>6. \A v : Owes(j, v) => Owes(k, v)
      BY <1>0, <2>2 DEF Owes
    <2> QED BY <1>0, <2>2, <2>3, <2>5, <2>6, JobKeepsCalm
  <1> QED BY <1>1, <1>2

LEMMA LinkedCalm ==
  ASSUME SourcesInv, SourcesInv', Calm, NEW j \in Mem, Linked(j)
  PROVE  Calm'
  <1> DEFINE linked == {u \in Ids : <<u, j.ev.of>> \in edges}
  <1>0. /\ Frame /\ UNCHANGED derived /\ j.at = "start" /\ j.ev.type = "message.redacted"
        /\ JobOK(j) /\ WorkOK(j) /\ j \in jobs /\ j.who = "memory"
    BY DEF Linked, At, Mem, SourcesInv, Calm
  <1>1. j.left = {} /\ j.out = <<>> /\ \A u : ~Owes(j, u)
    BY <1>0, OwesNothing DEF WorkOK
  <1>2. CASE linked = {}
    <2>1. GoesOn(j, {})
      BY <1>2 DEF Linked, Ends, GoesOn
    <2>2. \A u \in Ids : <<u, j.ev.of>> \notin edges
      BY <1>2
    <2> QED BY <1>0, <1>1, <2>1, <2>2, JobKeepsCalm
  <1>3. CASE linked # {}
    <2>1. PICK k : k = [j EXCEPT !.at = "unlink", !.left = linked]
      OBVIOUS
    <2>2. k.who = "memory" /\ k.ev = j.ev /\ k.at = "unlink" /\ k.left = linked /\ k.out = <<>>
      BY <1>0, <1>1, <2>1 DEF JobOK, JobRows
    <2>3. GoesOn(j, {k})
      BY <1>3, <2>1, <2>2 DEF Linked, Goes, GoesOn
    <2>4. WorkOK(k)
      BY <1>0, <2>2 DEF WorkOK
    <2> QED BY <1>0, <1>1, <2>2, <2>3, <2>4, JobKeepsCalm
  <1> QED BY <1>2, <1>3

LEMMA CountCalm ==
  ASSUME SourcesInv, SourcesInv', Calm, NEW j \in Mem, Count(j)
  PROVE  Calm'
  <1>0. /\ Frame /\ UNCHANGED derived /\ j.at = "count" /\ j.ev.type = "message.redacted"
        /\ JobOK(j) /\ WorkOK(j) /\ j \in jobs /\ j.who = "memory" /\ j.out = <<>> /\ j.left \subseteq Ids
    BY DEF Count, At, Mem, SourcesInv, Calm, WorkOK, JobOK, JobRows
  <1>1. PICK u \in j.left : Goes(j, [j EXCEPT !.row = u, !.left = @ \ {u},
                                              !.at = IF SourcesOf(u) = {} THEN "drop" ELSE "load"])
    BY DEF Count
  <1>2. PICK k : k = [j EXCEPT !.row = u, !.left = @ \ {u},
                               !.at = IF SourcesOf(u) = {} THEN "drop" ELSE "load"]
    OBVIOUS
  <1>9. Goes(j, k)
    BY <1>1, <1>2
  <1>3. /\ k.who = "memory" /\ k.ev = j.ev /\ k.row = u /\ k.left = j.left \ {u} /\ k.out = <<>>
        /\ k.at = IF SourcesOf(u) = {} THEN "drop" ELSE "load"
    BY <1>0, <1>2 DEF JobOK, JobRows
  <1>4. GoesOn(j, {k})
    BY <1>9, <1>3 DEF Goes, GoesOn
  <1>5. SourcesOf(u) # {} => u \in DOMAIN units /\ \E m \in Messages : <<u, m>> \in edges
    BY DEF SourcesOf, Calm, EdgesOK
  <1>6. WorkOK(k)
    BY <1>0, <1>3 DEF WorkOK
  <1>7. \A v : Owes(j, v) => Owes(k, v)
    BY <1>0, <1>3, <1>5 DEF Owes
  <1>8. \A v \in DOMAIN units :
            v \in j.left \/ (j.at = "drop" /\ j.row = v) \/ (j.at = "link" /\ j.row.id = v) =>
              \/ \E m \in Messages : <<v, m>> \in edges
              \/ v \in k.left \/ (k.at = "drop" /\ k.row = v)
    <2> TAKE v \in DOMAIN units
    <2>1. CASE v \in j.left /\ v # u
      BY <1>3, <2>1
    <2>2. CASE v = u
      BY <1>3, <1>5, <2>2
    <2> QED BY <1>0, <2>1, <2>2
  <1> QED BY <1>0, <1>4, <1>6, <1>7, <1>8, JobKeepsCalm
LEMMA UnitDocIs ==
  ASSUME StoreOK, NEW u \in DOMAIN units
  PROVE  UnitDoc(u) \in Docs /\ UnitDoc(u) # None
  <1>1. units[u].stream \in Streams /\ units[u].text \in Texts /\ units[u].promoted \in BOOLEAN
    BY DEF StoreOK, UnitOK
  <1>2. SourcesOf(u) \subseteq Messages
    BY DEF SourcesOf
  <1>3. UnitDoc(u) \in Docs
    BY <1>1, <1>2 DEF UnitDoc, MemoryDoc, Doc, Docs
  <1> QED BY <1>3, NoneAssumption

LEMMA OwesEntry ==
  ASSUME NEW k, NEW u, NEW i \in DOMAIN k.out, k.out[i].key = <<"memory", u>>
  PROVE  Owes(k, u)
  BY DEF Owes

LEMMA NotedFacts ==
  ASSUME SourcesInv, Calm, NEW j \in Mem, j.at \in {"link", "reload"}, NEW sources,
         NEW k, k = Noted(j, sources)
  PROVE  /\ k.who = "memory" /\ k.ev = j.ev /\ k.at \in {"upsert", "find"} /\ k.todo = Tail(j.todo)
         /\ k.left = {} /\ (k.at = "upsert" => k.todo = <<>>)
         /\ k.out = Append(j.out, Upsert(<<"memory", j.row.id>>,
                                         MemoryDoc(j.row.stream, Head(j.todo), sources, j.row.promoted)))
         /\ Range(j.todo) = {Head(j.todo)} \cup Range(k.todo)
         /\ \A v : Owes(j, v) => Owes(k, v)
         /\ Owes(k, j.row.id)
  <1>0. JobOK(j) /\ WorkOK(j) /\ j.who = "memory" /\ j.ev.type = "message.appended"
    BY DEF Mem, SourcesInv, Calm, JobOK
  <1>1. j.left = {} /\ j.todo \in Seq(Texts) /\ j.out \in Seq(Writes) /\ j.todo # <<>>
    BY <1>0 DEF WorkOK, IngestOK, JobOK, JobRows
  <1>2. PICK w : w = Upsert(<<"memory", j.row.id>>,
                            MemoryDoc(j.row.stream, Head(j.todo), sources, j.row.promoted))
    OBVIOUS
  <1>3. w.key = <<"memory", j.row.id>>
    BY <1>2 DEF Upsert
  <1>4. k = [j EXCEPT !.todo = Tail(j.todo), !.at = IF Tail(j.todo) = <<>> THEN "upsert" ELSE "find",
                      !.out = Append(j.out, w)]
    BY <1>2 DEF Noted
  <1>5. /\ k.who = "memory" /\ k.ev = j.ev /\ k.at \in {"upsert", "find"} /\ k.todo = Tail(j.todo)
        /\ k.left = {} /\ (k.at = "upsert" => k.todo = <<>>)
        /\ k.out = Append(j.out, w)
    BY <1>0, <1>1, <1>4 DEF JobOK, JobRows
  <1>6. Range(j.todo) = {Head(j.todo)} \cup Range(k.todo)
    BY <1>1, <1>5, RangeTail
  <1>7. Owes(k, j.row.id)
    <2>1. PICK i \in DOMAIN k.out : k.out[i] = w
      BY <1>1, <1>5, AppendRange
    <2> QED BY <1>3, <2>1, OwesEntry
  <1>8. \A v : Owes(j, v) => Owes(k, v)
    <2> SUFFICES ASSUME NEW v, Owes(j, v)  PROVE Owes(k, v)
      OBVIOUS
    <2>1. v = j.row.id \/ \E i \in DOMAIN j.out : j.out[i].key = <<"memory", v>>
      BY <1>1 DEF Owes
    <2>2. CASE \E i \in DOMAIN j.out : j.out[i].key = <<"memory", v>>
      <3>1. PICK i \in DOMAIN j.out : j.out[i].key = <<"memory", v>>
        BY <2>2
      <3>2. i \in DOMAIN k.out /\ k.out[i] = j.out[i]
        BY <1>1, <1>5, AppendRange
      <3> QED BY <3>1, <3>2, OwesEntry
    <2> QED BY <1>7, <2>1, <2>2
  <1> QED BY <1>2, <1>5, <1>6, <1>7, <1>8

LEMMA ReloadCalm ==
  ASSUME SourcesInv, SourcesInv', Calm, NEW j \in Mem, Reload(j)
  PROVE  Calm'
  <1> DEFINE m == j.ev.of
             u == j.row.id
  <1>0. /\ Frame /\ UNCHANGED derived /\ j.at = "reload" /\ j.ev.type = "message.appended" /\ m \in Messages
        /\ JobOK(j) /\ WorkOK(j) /\ IngestOK(j) /\ j \in jobs /\ j.who = "memory"
    BY DEF Reload, At, Mem, SourcesInv, JobOK, EventOK, Calm, WorkOK
  <1>1. PICK w : w = Upsert(<<"memory", u>>, MemoryDoc(j.row.stream, Head(j.todo), SourcesOf(u), j.row.promoted))
    OBVIOUS
  <1>2. PICK k : k = Noted(j, SourcesOf(u))
    OBVIOUS
  <1>3. /\ k.who = "memory" /\ k.ev = j.ev /\ k.at \in {"upsert", "find"} /\ k.todo = Tail(j.todo)
        /\ k.left = {} /\ (k.at = "upsert" => k.todo = <<>>) /\ k.out = Append(j.out, w)
        /\ Range(j.todo) = {Head(j.todo)} \cup Range(k.todo)
        /\ \A v : Owes(j, v) => Owes(k, v)
    <2>1. /\ k.who = "memory" /\ k.ev = j.ev /\ k.at \in {"upsert", "find"} /\ k.todo = Tail(j.todo)
          /\ k.left = {} /\ (k.at = "upsert" => k.todo = <<>>)
          /\ k.out = Append(j.out, Upsert(<<"memory", j.row.id>>,
                                 MemoryDoc(j.row.stream, Head(j.todo), SourcesOf(u), j.row.promoted)))
          /\ Range(j.todo) = {Head(j.todo)} \cup Range(k.todo)
          /\ \A v : Owes(j, v) => Owes(k, v)
      BY <1>0, <1>2, NotedFacts
    <2> QED BY <1>1, <2>1
  <1>4. GoesOn(j, {k})
    BY <1>2, <1>3 DEF Reload, Goes, GoesOn
  <1>5. /\ u \in Ids /\ u \in DOMAIN units /\ units[u].text = Head(j.todo) /\ <<u, m>> \in edges
        /\ j.row.promoted = units[u].promoted /\ j.row.stream = units[u].stream /\ j.row.stream = where[m]
    BY <1>0 DEF IngestOK, JobOK, FoundOK, Found, StoreOK, UnitOK, SourcesInv
  <1>6. LinkedTo(m, Head(j.todo))
    BY <1>5 DEF LinkedTo
  <1>7. w.key = <<"memory", u>> /\ w.doc = UnitDoc(u) /\ w.doc # None
    <2>1. w.key = <<"memory", u>> /\ w.doc = UnitDoc(u)
      BY <1>1, <1>5 DEF Upsert, UnitDoc
    <2> QED BY <1>5, <2>1, UnitDocIs DEF SourcesInv
  <1> HIDE DEF u
  <1>8. WorkOK(k)
    <2>1. \A x : Agrees(j, x) => Agrees(k, x)
      BY <1>3 DEF Agrees
    <2>2. Agrees(k, w)
      BY <1>0, <1>3, <1>5, <1>7 DEF Agrees
    <2>3. j.out \in Seq(Writes) /\ \A i \in DOMAIN j.out : Agrees(j, j.out[i]) /\ j.out[i].doc # None
      BY <1>0 DEF JobOK, JobRows, WorkOK, IngestOK
    <2>4. \A i \in DOMAIN k.out : Agrees(k, k.out[i]) /\ k.out[i].doc # None
      BY <1>3, <1>7, <2>1, <2>2, <2>3, AppendRange
    <2>5. IngestOK(k)
      BY <1>0, <1>3, <2>4 DEF IngestOK
    <2> QED BY <1>0, <1>3, <2>4, <2>5 DEF WorkOK
  <1>9. \A t \in Range(j.todo) : LinkedTo(m, t) \/ t \in Range(k.todo)
    BY <1>3, <1>6
  <1>10. j.left = {}
    BY <1>0 DEF IngestOK
  <1>11. \A v \in Ids : Owes(j, v) => Current(v) \/ \E l \in {k} : Owes(l, v)
    BY <1>3
  <1>12. \A t \in Range(Kept(m)) : j.at = "start" \/ t \in Range(j.todo) =>
           LinkedTo(m, t) \/ \E l \in {k} : t \in Range(l.todo)
    BY <1>0, <1>9
  <1> QED BY <1>0, <1>4, <1>8, <1>10, <1>11, <1>12, JobKeepsCalm

LEMMA LoadCalm ==
  ASSUME SourcesInv, SourcesInv', Calm, NEW j \in Mem, Load(j)
  PROVE  Calm'
  <1> DEFINE u == j.row
             found == <<Upsert(<<"memory", u>>,
                               MemoryDoc(units[u].stream, units[u].text, SourcesOf(u), units[u].promoted))>>
  <1>0. /\ Frame /\ UNCHANGED derived /\ j.at = "load" /\ j.out = <<>> /\ u \in Ids
        /\ JobOK(j) /\ WorkOK(j) /\ j \in jobs /\ j.who = "memory" /\ j.ev.type # "message.appended"
    BY DEF Load, Mem, SourcesInv, JobOK, Calm, WorkOK, IngestOK
  <1>1. CASE u \in DOMAIN units
    <2>1. PICK w : w = Upsert(<<"memory", u>>,
                               MemoryDoc(units[u].stream, units[u].text, SourcesOf(u), units[u].promoted))
      OBVIOUS
    <2>2. PICK k : k = [j EXCEPT !.out = <<w>>, !.at = "upsert"]
      OBVIOUS
    <2>3. Proceeds(j, <<w>>)
      BY <1>1, <2>1 DEF Load
    <2>4. Goes(j, k)
      BY <2>2, <2>3 DEF Proceeds
    <2>5. k.who = "memory" /\ k.ev = j.ev /\ k.at = "upsert" /\ k.left = j.left /\ k.out = <<w>>
      BY <1>0, <2>2 DEF JobOK, JobRows
    <2>6. GoesOn(j, {k})
      BY <2>4, <2>5 DEF Goes, GoesOn
    <2>7. w.key = <<"memory", u>> /\ w.doc = UnitDoc(u) /\ w.doc # None
      <3>1. w.key = <<"memory", u>> /\ w.doc = UnitDoc(u)
        BY <2>1 DEF Upsert, UnitDoc
      <3> QED BY <1>1, <3>1, UnitDocIs DEF SourcesInv
    <2> HIDE DEF u
    <2>8. Agrees(k, w)
      BY <1>0, <1>1, <2>5, <2>7 DEF Agrees
    <2>9. WorkOK(k)
      BY <1>0, <2>5, <2>8 DEF WorkOK
    <2>10. \A v : Owes(j, v) => Owes(k, v)
      BY <1>0, <2>5, <2>7 DEF Owes, u
    <2> QED BY <1>0, <2>5, <2>6, <2>9, <2>10, JobKeepsCalm
  <1>2. CASE u \notin DOMAIN units /\ j.left # {}
    <2>1. PICK k : k = [j EXCEPT !.out = <<>>, !.at = "count"]
      OBVIOUS
    <2>2. Goes(j, k)
      BY <1>2, <2>1 DEF Load, Proceeds
    <2>3. k.who = "memory" /\ k.ev = j.ev /\ k.at = "count" /\ k.left = j.left /\ k.out = <<>>
      BY <1>0, <2>1 DEF JobOK, JobRows
    <2>4. GoesOn(j, {k})
      BY <2>2, <2>3 DEF Goes, GoesOn
    <2>5. WorkOK(k)
      BY <1>0, <2>3 DEF WorkOK
    <2>6. \A v : Owes(j, v) => Owes(k, v)
      BY <1>0, <1>2, <2>3 DEF Owes
    <2> QED BY <1>0, <2>3, <2>4, <2>5, <2>6, JobKeepsCalm
  <1>3. CASE u \notin DOMAIN units /\ j.left = {}
    <2>1. GoesOn(j, {})
      BY <1>3 DEF Load, Proceeds, Ends, GoesOn
    <2>2. \A v : ~Owes(j, v)
      BY <1>0, <1>3 DEF Owes
    <2> QED BY <1>0, <1>3, <2>1, <2>2, JobKeepsCalm
  <1> QED BY <1>1, <1>2, <1>3
LEMMA InsertCalm ==
  ASSUME SourcesInv, SourcesInv', Calm, NEW j \in Mem, InsertUnit(j), Untouched
  PROVE  Calm'
  <1> DEFINE m == j.ev.of
             t == Head(j.todo)
             u == <<m, t>>
             row == [stream |-> where[m], text |-> t, promoted |-> FALSE]
  <1>0. /\ Frame /\ UNCHANGED <<edges, docs>> /\ j.at = "insert" /\ j.ev.type = "message.appended"
        /\ m \in Messages /\ JobOK(j) /\ WorkOK(j) /\ IngestOK(j) /\ j \in jobs /\ j.who = "memory"
        /\ StoreOK
    BY DEF InsertUnit, At, Mem, SourcesInv, JobOK, EventOK, Calm, WorkOK
  <1>1. UnitsSaying(where[m], t) = {} /\ j.left = {}
    BY <1>0 DEF IngestOK
  <1>2. /\ units' = Put(units, u, row)
        /\ Goes(j, [j EXCEPT !.at = "link", !.row = [id |-> u, promoted |-> FALSE, stream |-> where[m]]])
    BY <1>1 DEF InsertUnit
  <1>3. PICK k : k = [j EXCEPT !.at = "link", !.row = [id |-> u, promoted |-> FALSE, stream |-> where[m]]]
    OBVIOUS
  <1>4. /\ k.who = "memory" /\ k.ev = j.ev /\ k.at = "link" /\ k.todo = j.todo /\ k.left = {} /\ k.out = j.out
        /\ k.row.id = u /\ k.row.promoted = FALSE
    BY <1>0, <1>1, <1>3 DEF JobOK, JobRows
  <1>5. GoesOn(j, {k})
    BY <1>2, <1>3, <1>4 DEF Goes, GoesOn
  <1>6. u \notin DOMAIN units
    <2> SUFFICES ASSUME u \in DOMAIN units  PROVE FALSE
      OBVIOUS
    <2>1. units[u].text = t /\ units[u].stream = where[m]
      BY <1>0 DEF Calm, UnitsOK, StoreOK, UnitOK
    <2> QED BY <1>1, <2>1 DEF UnitsSaying
  <1>7. /\ DOMAIN units' = DOMAIN units \cup {u} /\ units'[u] = row
        /\ \A v \in DOMAIN units : units'[v] = units[v]
    BY <1>2, <1>6 DEF Put
  <1>8. /\ Mem = {j} /\ Mem' = {k}
        /\ UNCHANGED <<message, where, promotions, edges, docs, Tried>>
        /\ \A type, of : Pending(type, of)' <=> Pending(type, of)
    BY <1>0, <1>5, GoesOnFacts
  <1>9. u \in Ids /\ u[1] = m /\ u[2] = t /\ row.text = t /\ row.stream = where[m] /\ row.promoted = FALSE
    BY <1>0 DEF Ids, JobOK, JobRows
  <1>10. PICK x : x = u
    OBVIOUS
  <1>11. \A n \in Messages : <<x, n>> \notin edges
    BY <1>6, <1>10 DEF Calm, EdgesOK
  <1>12. \A v : SourcesOf(v)' = SourcesOf(v)
    BY <1>8 DEF SourcesOf
  <1>13. SourcesOf(x) = {}
    BY <1>11 DEF SourcesOf
  <1> HIDE DEF u, row
  <1>14. \A v : v # x => (Current(v)' <=> Current(v))
    BY <1>7, <1>8, <1>10, <1>12 DEF Current, UnitDoc, MemoryDoc, Doc
  <1>15. FreshOK'
    <2>1. ~Fresh(m)'
      <3>1. message[m] # "none" /\ ~Pending("message.appended", m)
        BY <1>0 DEF JobOK, EventOK, Calm, OneEvent
      <3> QED BY <1>4, <1>8, <3>1 DEF Fresh
    <2> QED BY <1>0, <1>5, <1>7, <1>8, <1>9, <2>1, GoesOnFresh DEF Calm, FreshOK
  <1>16. FullOK'
    <2>1. \A n, s : LinkedTo(n, s) => LinkedTo(n, s)'
      BY <1>7, <1>8 DEF LinkedTo
    <2> QED BY <1>0, <1>4, <1>5, <2>1, GoesOnFull
  <1>17. GoneOK'
    BY <1>0, <1>5, <1>8, GoesOnFresh DEF Calm, GoneOK
  <1>18. EdgesOK'
    BY <1>7, <1>8 DEF Calm, EdgesOK
  <1>19. UnitsOK'
    <2>1. \A v \in DOMAIN units' : units'[v].text = v[2]
      BY <1>7, <1>9 DEF Calm, UnitsOK
    <2>2. \A v \in DOMAIN units : units[v].stream # where[m] \/ units[v].text # t
      BY <1>1 DEF UnitsSaying
    <2>3. \A v, w \in DOMAIN units' : units'[v].stream = units'[w].stream /\ units'[v].text = units'[w].text => v = w
      BY <1>7, <1>9, <2>2 DEF Calm, UnitsOK
    <2>4. \A v \in DOMAIN units : \E n \in Messages : <<v, n>> \in edges
      BY <1>0, <1>1, <1>8 DEF Calm, UnitsOK
    <2> QED BY <1>4, <1>7, <1>8, <2>1, <2>3, <2>4 DEF UnitsOK
  <1>20. DocsOK'
    <2>1. \A v : Owes(j, v) => Owes(k, v)'
      BY <1>0, <1>1, <1>4 DEF Owes
    <2>2. Owes(k, x)'
      BY <1>4, <1>10 DEF Owes
    <2> QED BY <1>8, <1>14, <2>1, <2>2 DEF Calm, DocsOK
  <1>21. PromotedOK'
    <2>1. u \notin promotions
      BY <1>0, <1>6, <1>8, <1>9 DEF Calm, TriedOK, Ingests, Tried
    <2> QED BY <1>0, <1>7, <1>8, <2>1 DEF Calm, PromotedOK
  <1>22. TriedOK'
    BY <1>0, <1>5, <1>7, GoesOnTried
  <1>23. WorkOK(k)'
    <2>1. \A w : w.doc # None /\ Agrees(j, w) => Agrees(k, w)'
      <3> SUFFICES ASSUME NEW w, w.doc # None, Agrees(j, w)  PROVE Agrees(k, w)'
        OBVIOUS
      <3>1. PICK v \in Ids : w.key = <<"memory", v>> /\ v \in DOMAIN units /\ w.doc = UnitDoc(v)
                              /\ <<v, m>> \in edges
        BY <1>0 DEF Agrees
      <3>2. UnitDoc(v)' = UnitDoc(v)
        BY <1>7, <1>12, <3>1 DEF UnitDoc, MemoryDoc, Doc
      <3> QED BY <1>4, <1>7, <1>8, <3>1, <3>2 DEF Agrees
    <2>2. \A i \in DOMAIN k.out : Agrees(k, k.out[i])' /\ k.out[i].doc # None
      BY <1>0, <1>4, <2>1 DEF WorkOK, IngestOK
    <2>3. SourcesOf(k.row.id)' = {}
      BY <1>4, <1>10, <1>12, <1>13
    <2>4. IngestOK(k)'
      BY <1>0, <1>4, <1>7, <1>8, <1>9, <2>2, <2>3 DEF IngestOK
    <2> QED BY <1>0, <1>4, <2>2, <2>4 DEF WorkOK
  <1>24. OneEvent' /\ MessagesOK'
    BY <1>0, <1>5, GoesOnEvent, GoesOnMessages
  <1> QED BY <1>8, <1>15, <1>16, <1>17, <1>18, <1>19, <1>20, <1>21, <1>22, <1>23, <1>24 DEF Calm
LEMMA LinkCalm ==
  ASSUME SourcesInv, SourcesInv', Calm, NEW j \in Mem, Link(j), Untouched
  PROVE  Calm'
  <1> DEFINE m == j.ev.of
             t == Head(j.todo)
  <1>0. /\ Frame /\ UNCHANGED <<units, docs>> /\ j.at = "link" /\ j.ev.type = "message.appended"
        /\ m \in Messages /\ JobOK(j) /\ WorkOK(j) /\ IngestOK(j) /\ j \in jobs /\ j.who = "memory"
        /\ StoreOK
    BY DEF Link, At, Mem, SourcesInv, JobOK, EventOK, Calm, WorkOK
  <1>1. PICK u : u = j.row.id
    OBVIOUS
  <1>2. /\ u \in Ids /\ u \in DOMAIN units /\ units[u].text = t /\ j.row.promoted = units[u].promoted
        /\ j.row.stream = units[u].stream /\ j.row.stream = where[m]
        /\ j.left = {} /\ Range(j.todo) \subseteq Range(Kept(m))
        /\ ~j.found => SourcesOf(u) = {}
    BY <1>0, <1>1 DEF IngestOK, JobOK, FoundOK, Found, StoreOK, UnitOK
  <1>3. t \in Range(j.todo)
    BY <1>0, RangeTail DEF JobOK, JobRows
  <1>4. /\ edges' = edges \cup {<<u, m>>}
        /\ Goes(j, IF j.found THEN [j EXCEPT !.at = "reload"] ELSE Noted(j, {m}))
    BY <1>1 DEF Link
  <1>5. PICK k : k = IF j.found THEN [j EXCEPT !.at = "reload"] ELSE Noted(j, {m})
    OBVIOUS
  <1>6. PICK w : w = Upsert(<<"memory", u>>, MemoryDoc(j.row.stream, t, {m}, j.row.promoted))
    OBVIOUS
  <1>7. j.found => k.who = "memory" /\ k.ev = j.ev /\ k.at = "reload" /\ k.todo = j.todo /\ k.left = {}
                   /\ k.out = j.out /\ k.row = j.row
    BY <1>0, <1>2, <1>5 DEF JobOK, JobRows
  <1>8. ~j.found => /\ k.who = "memory" /\ k.ev = j.ev /\ k.at \in {"upsert", "find"} /\ k.todo = Tail(j.todo)
                    /\ k.left = {} /\ (k.at = "upsert" => k.todo = <<>>) /\ k.out = Append(j.out, w)
                    /\ Range(j.todo) = {t} \cup Range(k.todo)
                    /\ \A v : Owes(j, v) => Owes(k, v)
    <2> SUFFICES ASSUME ~j.found
                 PROVE  /\ k.who = "memory" /\ k.ev = j.ev /\ k.at \in {"upsert", "find"} /\ k.todo = Tail(j.todo)
                        /\ k.left = {} /\ (k.at = "upsert" => k.todo = <<>>) /\ k.out = Append(j.out, w)
                        /\ Range(j.todo) = {t} \cup Range(k.todo)
                        /\ \A v : Owes(j, v) => Owes(k, v)
      OBVIOUS
    <2>1. k = Noted(j, {m})
      BY <1>5
    <2>2. /\ k.who = "memory" /\ k.ev = j.ev /\ k.at \in {"upsert", "find"} /\ k.todo = Tail(j.todo)
          /\ k.left = {} /\ (k.at = "upsert" => k.todo = <<>>)
          /\ k.out = Append(j.out, Upsert(<<"memory", j.row.id>>,
                                 MemoryDoc(j.row.stream, Head(j.todo), {m}, j.row.promoted)))
          /\ Range(j.todo) = {Head(j.todo)} \cup Range(k.todo)
          /\ \A v : Owes(j, v) => Owes(k, v)
      BY <1>0, <2>1, NotedFacts
    <2> QED BY <1>1, <1>6, <2>2
  <1>9. GoesOn(j, {k})
    <2>1. Goes(j, k)
      BY <1>4, <1>5
    <2> QED BY <1>7, <1>8, <2>1 DEF Goes, GoesOn
  <1>10. /\ Mem = {j} /\ Mem' = {k} /\ RowsOK
         /\ UNCHANGED <<message, where, promotions, units, docs, Tried>>
         /\ \A type, of : Pending(type, of)' <=> Pending(type, of)
    BY <1>0, <1>9, GoesOnFacts
  <1>11. \A v : v # u => SourcesOf(v)' = SourcesOf(v) /\ UnitDoc(v)' = UnitDoc(v)
    BY <1>4, <1>10 DEF SourcesOf, UnitDoc, MemoryDoc, Doc
  <1>12. <<u, m>> \in edges => \A v : SourcesOf(v)' = SourcesOf(v) /\ UnitDoc(v)' = UnitDoc(v)
    <2>1. <<u, m>> \in edges => edges' = edges
      BY <1>4
    <2> QED BY <1>10, <2>1 DEF SourcesOf, UnitDoc, MemoryDoc, Doc
  <1>13. k.ev = j.ev /\ k.at \notin {"start", "insert", "link", "unlink", "count", "drop", "load"}
    BY <1>7, <1>8
  <1>14. FreshOK'
    <2>1. ~Fresh(m)'
      <3>1. message[m] # "none" /\ ~Pending("message.appended", m)
        BY <1>0 DEF JobOK, EventOK, Calm, OneEvent
      <3> QED BY <1>10, <1>13, <3>1 DEF Fresh
    <2>2. \A n \in Messages : n # m => \A v : <<v, n>> \in edges' => <<v, n>> \in edges
      BY <1>4
    <2> QED BY <1>0, <1>9, <1>10, <2>1, <2>2, GoesOnFresh DEF Calm, FreshOK
  <1>15. LinkedTo(m, t)'
    BY <1>2, <1>4, <1>10 DEF LinkedTo
  <1>16. FullOK'
    <2>1. \A n, s : LinkedTo(n, s) => LinkedTo(n, s)'
      BY <1>4, <1>10 DEF LinkedTo
    <2>2. \A s \in Range(j.todo) : s = t \/ s \in Range(k.todo)
      BY <1>7, <1>8
    <2> QED BY <1>0, <1>9, <1>15, <2>1, <2>2, GoesOnFull
  <1>17. GoneOK'
    <2>1. message[m] = "redacted" => Redacting(m)'
      BY <1>0, <1>10 DEF IngestOK, Redacting
    <2>2. \A n \in Messages : Redacting(n) => Redacting(n)'
      BY <1>0, <1>9, GoesOnFresh
    <2>3. \A n \in Messages : n # m => \A v : <<v, n>> \in edges' => <<v, n>> \in edges
      BY <1>4
    <2> QED BY <1>10, <2>1, <2>2, <2>3 DEF Calm, GoneOK
  <1>18. EdgesOK'
    <2>1. \A e \in edges' : e \in edges \/ e = <<u, m>>
      BY <1>4
    <2>2. units[u].text \in Range(Kept(m)) /\ <<u, m>>[1] = u /\ <<u, m>>[2] = m
      BY <1>2, <1>3
    <2> QED BY <1>2, <1>10, <2>1, <2>2 DEF Calm, EdgesOK
  <1>19. UnitsOK'
    <2>1. \A v \in DOMAIN units : \E n \in Messages : <<v, n>> \in edges'
      BY <1>0, <1>1, <1>2, <1>4, <1>10 DEF Calm, UnitsOK
    <2> QED BY <1>10, <2>1 DEF Calm, UnitsOK
  <1>20. DocsOK'
    <2>1. Owes(k, u)
      <3>1. CASE j.found
        BY <1>1, <1>7, <3>1 DEF Owes
      <3>2. CASE ~j.found
        <4>1. Owes(j, u)
          BY <1>0, <1>1 DEF Owes
        <4> QED BY <1>8, <3>2, <4>1
      <3> QED BY <3>1, <3>2
    <2>2. \A v : Owes(j, v) => Owes(k, v)
      <3>1. CASE j.found
        BY <1>0, <1>2, <1>7, <3>1 DEF Owes
      <3> QED BY <1>8, <3>1
    <2>3. \A v : v # u => (Current(v)' <=> Current(v))
      BY <1>10, <1>11 DEF Current
    <2>4. \A v : Owes(k, v)' <=> Owes(k, v)
      BY <1>10 DEF Owes
    <2> QED BY <1>10, <2>1, <2>2, <2>3, <2>4 DEF Calm, DocsOK
  <1>21. PromotedOK'
    BY <1>0, <1>10 DEF Calm, PromotedOK
  <1>22. TriedOK'
    BY <1>0, <1>9, <1>10, GoesOnTried
  <1>23. WorkOK(k)'
    <2>1. \A x : x.doc # None /\ Agrees(j, x) => Agrees(k, x)'
      <3> SUFFICES ASSUME NEW x, x.doc # None, Agrees(j, x)  PROVE Agrees(k, x)'
        OBVIOUS
      <3>1. PICK v \in Ids : x.key = <<"memory", v>> /\ v \in DOMAIN units /\ x.doc = UnitDoc(v)
                              /\ <<v, m>> \in edges
        BY <1>0 DEF Agrees
      <3>2. UnitDoc(v)' = UnitDoc(v)
        BY <1>11, <1>12, <3>1
      <3> QED BY <1>4, <1>10, <1>13, <3>1, <3>2 DEF Agrees
    <2>2. ~j.found => Agrees(k, w)' /\ w.doc # None
      <3> SUFFICES ASSUME ~j.found  PROVE Agrees(k, w)' /\ w.doc # None
        OBVIOUS
      <3>1. SourcesOf(u)' = {m}
        BY <1>0, <1>2, <1>4 DEF SourcesOf
      <3>2. w.key = <<"memory", u>> /\ w.doc = UnitDoc(u)'
        BY <1>2, <1>6, <1>10, <3>1 DEF Upsert, UnitDoc
      <3>3. UnitDoc(u)' # None
        <4>1. units[u].stream \in Streams /\ units[u].text \in Texts /\ units[u].promoted \in BOOLEAN
          BY <1>0, <1>2 DEF StoreOK, UnitOK
        <4>2. UnitDoc(u)' \in Docs
          BY <1>0, <1>10, <3>1, <4>1 DEF UnitDoc, MemoryDoc, Doc, Docs
        <4> QED BY <4>2, NoneAssumption
      <3>4. <<u, k.ev.of>> \in edges'
        BY <1>4, <1>13
      <3> QED BY <1>2, <1>10, <3>2, <3>3, <3>4 DEF Agrees
    <2>3. j.out \in Seq(Writes) /\ \A i \in DOMAIN j.out : Agrees(j, j.out[i]) /\ j.out[i].doc # None
      BY <1>0 DEF JobOK, JobRows, WorkOK, IngestOK
    <2>4. \A i \in DOMAIN k.out : Agrees(k, k.out[i])' /\ k.out[i].doc # None
      BY <1>7, <1>8, <2>1, <2>2, <2>3, AppendRange
    <2>5. IngestOK(k)'
      <3>1. message[m] = "live" \/ Pending("message.redacted", m)
        BY <1>0 DEF IngestOK
      <3>2. CASE j.found
        BY <1>1, <1>2, <1>4, <1>7, <1>10, <2>4, <3>1, <3>2 DEF IngestOK
      <3>3. CASE ~j.found
        BY <1>2, <1>8, <1>10, <2>4, <3>1, <3>3 DEF IngestOK
      <3> QED BY <3>2, <3>3
    <2> QED BY <1>0, <1>7, <1>8, <1>13, <2>4, <2>5 DEF WorkOK
  <1>24. OneEvent' /\ MessagesOK'
    BY <1>0, <1>9, GoesOnEvent, GoesOnMessages
  <1> QED BY <1>10, <1>14, <1>16, <1>17, <1>18, <1>19, <1>20, <1>21, <1>22, <1>23, <1>24 DEF Calm
LEMMA PromotionCalm ==
  ASSUME SourcesInv, SourcesInv', Calm, NEW j \in Mem, ApplyPromotion(j), Untouched
  PROVE  Calm'
  <1>0. /\ Frame /\ UNCHANGED <<edges, docs>> /\ j.at = "start" /\ j.ev.type = "memory.promoted"
        /\ JobOK(j) /\ WorkOK(j) /\ j \in jobs /\ j.who = "memory" /\ StoreOK
    BY DEF ApplyPromotion, At, Mem, SourcesInv, Calm
  <1>1. PICK u : u = j.ev.of
    OBVIOUS
  <1>2. u \in Ids /\ j.left = {} /\ j.out = <<>>
    BY <1>0, <1>1 DEF JobOK, EventOK, WorkOK, StoreOK
  <1>3. PICK k : k = [j EXCEPT !.at = "load", !.row = u]
    OBVIOUS
  <1>4. k.who = "memory" /\ k.ev = j.ev /\ k.at = "load" /\ k.row = u /\ k.left = {} /\ k.out = <<>>
    BY <1>0, <1>2, <1>3 DEF JobOK, JobRows
  <1>5. GoesOn(j, {k})
    <2>1. Goes(j, k)
      BY <1>1, <1>3 DEF ApplyPromotion
    <2> QED BY <1>4, <2>1 DEF Goes, GoesOn
  <1>6. /\ Mem = {j} /\ Mem' = {k} /\ RowsOK
        /\ UNCHANGED <<message, where, promotions, edges, docs, Tried>>
        /\ \A type, of : Pending(type, of)' <=> Pending(type, of)
    BY <1>0, <1>5, GoesOnFacts
  <1>7. units' = IF u \in DOMAIN units THEN [units EXCEPT ![u].promoted = TRUE] ELSE units
    BY <1>1 DEF ApplyPromotion
  <1>8. /\ DOMAIN units' = DOMAIN units
        /\ \A v \in DOMAIN units : /\ v # u => units'[v] = units[v]
                                   /\ units'[v].stream = units[v].stream /\ units'[v].text = units[v].text
        /\ u \in DOMAIN units => units'[u].promoted = TRUE
    <2>1. CASE u \notin DOMAIN units
      BY <1>7, <2>1
    <2>2. CASE u \in DOMAIN units
      <3>1. units' = [units EXCEPT ![u].promoted = TRUE]
        BY <1>7, <2>2
      <3>2. units[u] \in [stream : Streams, text : Texts, promoted : BOOLEAN]
        BY <1>0, <2>2 DEF StoreOK, UnitOK
      <3>3. units'[u] = [units[u] EXCEPT !.promoted = TRUE]
        BY <2>2, <3>1
      <3>4. units'[u].stream = units[u].stream /\ units'[u].text = units[u].text /\ units'[u].promoted = TRUE
        BY <3>2, <3>3
      <3>5. DOMAIN units' = DOMAIN units /\ \A v \in DOMAIN units : v # u => units'[v] = units[v]
        BY <3>1
      <3> QED BY <3>4, <3>5
    <2> QED BY <2>1, <2>2
  <1>9. \A v : v # u => (Current(v)' <=> Current(v))
    BY <1>6, <1>8 DEF Current, UnitDoc, MemoryDoc, Doc, SourcesOf
  <1>10. FreshOK'
    BY <1>0, <1>5, <1>6, <1>8, GoesOnFresh DEF Calm, FreshOK
  <1>11. FullOK'
    <2>1. \A n, s : LinkedTo(n, s) => LinkedTo(n, s)'
      BY <1>6, <1>8 DEF LinkedTo
    <2> QED BY <1>0, <1>5, <2>1, GoesOnFull
  <1>12. GoneOK'
    BY <1>0, <1>5, <1>6, GoesOnFresh DEF Calm, GoneOK
  <1>13. EdgesOK'
    BY <1>6, <1>8 DEF Calm, EdgesOK
  <1>14. UnitsOK'
    <2>1. \A v \in DOMAIN units' : units'[v].text = v[2]
      BY <1>8 DEF Calm, UnitsOK
    <2>2. \A v, w \in DOMAIN units' : units'[v].stream = units'[w].stream /\ units'[v].text = units'[w].text => v = w
      BY <1>8 DEF Calm, UnitsOK
    <2>3. \A v \in DOMAIN units : \E n \in Messages : <<v, n>> \in edges
      BY <1>0, <1>2, <1>6 DEF Calm, UnitsOK
    <2> QED BY <1>6, <1>8, <2>1, <2>2, <2>3 DEF UnitsOK
  <1>15. DocsOK'
    <2>1. u \in DOMAIN units' => Owes(k, u)'
      BY <1>4 DEF Owes
    <2>2. u \notin DOMAIN units => Current(u)' = Current(u)
      BY <1>6, <1>8 DEF Current
    <2>3. \A v : ~Owes(j, v)
      BY <1>0, <1>2, OwesNothing
    <2> QED BY <1>2, <1>6, <1>8, <1>9, <2>1, <2>2, <2>3 DEF Calm, DocsOK
  <1>16. PromotedOK'
    BY <1>0, <1>1, <1>6, <1>8 DEF Calm, PromotedOK
  <1>17. TriedOK'
    BY <1>0, <1>5, <1>8, GoesOnTried
  <1>18. WorkOK(k)'
    BY <1>0, <1>4 DEF WorkOK
  <1>19. OneEvent' /\ MessagesOK'
    BY <1>0, <1>5, GoesOnEvent, GoesOnMessages
  <1> QED BY <1>6, <1>10, <1>11, <1>12, <1>13, <1>14, <1>15, <1>16, <1>17, <1>18, <1>19 DEF Calm

LEMMA UnlinkCalm ==
  ASSUME SourcesInv, SourcesInv', Calm, NEW j \in Mem, Unlink(j), Untouched
  PROVE  Calm'
  <1> DEFINE m == j.ev.of
  <1>0. /\ Frame /\ UNCHANGED <<units, docs>> /\ j.at = "unlink" /\ j.ev.type = "message.redacted"
        /\ JobOK(j) /\ WorkOK(j) /\ j \in jobs /\ j.who = "memory" /\ StoreOK
        /\ m \in Messages /\ message[m] = "redacted"
    BY DEF Unlink, At, Mem, SourcesInv, Calm, JobOK, EventOK
  <1>1. edges' = {e \in edges : e[2] # m} /\ Goes(j, [j EXCEPT !.at = "count"])
    BY DEF Unlink
  <1>2. PICK k : k = [j EXCEPT !.at = "count"]
    OBVIOUS
  <1>3. k.who = "memory" /\ k.ev = j.ev /\ k.at = "count" /\ k.left = j.left /\ k.out = j.out /\ k.out = <<>>
    BY <1>0, <1>2 DEF JobOK, JobRows, WorkOK
  <1>4. GoesOn(j, {k})
    BY <1>1, <1>2, <1>3 DEF Goes, GoesOn
  <1>5. /\ Mem = {j} /\ Mem' = {k}
        /\ UNCHANGED <<message, where, promotions, units, docs, Tried>>
        /\ \A type, of : Pending(type, of)' <=> Pending(type, of)
    BY <1>0, <1>4, GoesOnFacts
  <1>6. \A v, n : <<v, n>> \in edges' <=> <<v, n>> \in edges /\ n # m
    BY <1>1
  <1>7. \A v \in Ids : v \in k.left \/ (SourcesOf(v)' = SourcesOf(v) /\ <<v, m>> \notin edges)
    <2>1. \A v \in Ids : v \in k.left \/ <<v, m>> \notin edges
      BY <1>0, <1>3 DEF WorkOK
    <2> QED BY <1>6, <2>1 DEF SourcesOf
  <1>8. FreshOK'
    BY <1>0, <1>4, <1>5, <1>6, GoesOnFresh DEF Calm, FreshOK
  <1>9. FullOK'
    <2>1. \A n \in Messages : \A s : message[n] = "live" /\ LinkedTo(n, s) => LinkedTo(n, s)'
      BY <1>0, <1>5, <1>6 DEF LinkedTo
    <2> QED BY <1>0, <1>4, <2>1, GoesOnFull
  <1>10. GoneOK'
    <2>1. \A n \in Messages : Redacting(n) => Redacting(n)' \/ n = m
      BY <1>0, <1>4, GoesOnFresh
    <2> QED BY <1>5, <1>6, <2>1 DEF Calm, GoneOK
  <1>11. EdgesOK'
    BY <1>1, <1>5 DEF Calm, EdgesOK
  <1>12. UnitsOK'
    <2>1. \A v \in DOMAIN units : v \in Ids
      BY <1>0 DEF StoreOK
    <2>2. \A v \in DOMAIN units : v \in k.left \/ \E n \in Messages : <<v, n>> \in edges'
      <3> TAKE v \in DOMAIN units
      <3>1. v \in j.left \/ \E n \in Messages : <<v, n>> \in edges
        BY <1>0, <1>5 DEF Calm, UnitsOK
      <3> QED BY <1>3, <1>6, <1>7, <2>1, <3>1
    <2> QED BY <1>5, <2>2 DEF Calm, UnitsOK
  <1>13. DocsOK'
    <2>1. \A v \in Ids : Current(v) => Current(v)' \/ v \in k.left
      BY <1>5, <1>7 DEF Current, UnitDoc, MemoryDoc, Doc
    <2>2. \A v : Owes(j, v) \/ v \in k.left => Owes(k, v)'
      BY <1>0, <1>3 DEF Owes
    <2> QED BY <1>5, <2>1, <2>2 DEF Calm, DocsOK
  <1>14. PromotedOK'
    BY <1>0, <1>5 DEF Calm, PromotedOK
  <1>15. TriedOK'
    BY <1>0, <1>4, GoesOnTried
  <1>16. WorkOK(k)'
    BY <1>0, <1>3 DEF WorkOK
  <1>17. OneEvent' /\ MessagesOK'
    BY <1>0, <1>4, GoesOnEvent, GoesOnMessages
  <1> QED BY <1>5, <1>8, <1>9, <1>10, <1>11, <1>12, <1>13, <1>14, <1>15, <1>16, <1>17 DEF Calm

LEMMA DropCalm ==
  ASSUME SourcesInv, SourcesInv', Calm, NEW j \in Mem, Drop(j), Untouched
  PROVE  Calm'
  <1>0. /\ Frame /\ UNCHANGED <<edges, docs>> /\ j.at = "drop" /\ j.ev.type = "message.redacted"
        /\ JobOK(j) /\ WorkOK(j) /\ j \in jobs /\ j.who = "memory" /\ StoreOK
    BY DEF Drop, At, Mem, SourcesInv, Calm, JobOK, EventOK
  <1>1. PICK u : u = j.row
    OBVIOUS
  <1>2. u \in Ids /\ j.out = <<>> /\ SourcesOf(u) = {}
    BY <1>0, <1>1 DEF JobOK, WorkOK
  <1>3. PICK w : w = Delete(<<"memory", u>>)
    OBVIOUS
  <1>4. w.key = <<"memory", u>> /\ w.doc = None
    BY <1>3 DEF Delete
  <1>5. PICK k : k = [j EXCEPT !.at = "upsert", !.out = <<w>>]
    OBVIOUS
  <1>6. k.who = "memory" /\ k.ev = j.ev /\ k.at = "upsert" /\ k.left = j.left /\ k.out = <<w>>
    BY <1>0, <1>5 DEF JobOK, JobRows
  <1>7. GoesOn(j, {k})
    <2>1. Goes(j, k)
      BY <1>1, <1>3, <1>5 DEF Drop
    <2> QED BY <1>6, <2>1 DEF Goes, GoesOn
  <1>8. /\ Mem = {j} /\ Mem' = {k}
        /\ UNCHANGED <<message, where, promotions, edges, docs, Tried>>
        /\ \A type, of : Pending(type, of)' <=> Pending(type, of)
    BY <1>0, <1>7, GoesOnFacts
  <1>9. DOMAIN units' = DOMAIN units \ {u} /\ \A v \in DOMAIN units : v # u => units'[v] = units[v]
    BY <1>1 DEF Drop
  <1>10. \A n \in Messages : <<u, n>> \notin edges
    BY <1>2 DEF SourcesOf
  <1>11. \A v : v # u => (Current(v)' <=> Current(v))
    BY <1>8, <1>9 DEF Current, UnitDoc, MemoryDoc, Doc, SourcesOf
  <1>12. Owes(k, u)' /\ \A v : Owes(j, v) => Owes(k, v)'
    BY <1>0, <1>1, <1>2, <1>4, <1>6 DEF Owes
  <1>13. FreshOK'
    BY <1>0, <1>7, <1>8, <1>9, GoesOnFresh DEF Calm, FreshOK
  <1>14. FullOK'
    <2>1. \A n \in Messages : \A s : LinkedTo(n, s) => LinkedTo(n, s)'
      BY <1>8, <1>9, <1>10 DEF LinkedTo
    <2> QED BY <1>0, <1>7, <2>1, GoesOnFull
  <1>15. GoneOK'
    BY <1>0, <1>7, <1>8, GoesOnFresh DEF Calm, GoneOK
  <1>16. EdgesOK'
    <2>1. \A e \in edges : e[1] # u
      BY <1>0, <1>10 DEF StoreOK
    <2> QED BY <1>8, <1>9, <2>1 DEF Calm, EdgesOK
  <1>17. UnitsOK'
    BY <1>0, <1>1, <1>6, <1>8, <1>9 DEF Calm, UnitsOK
  <1>18. DocsOK'
    BY <1>8, <1>11, <1>12 DEF Calm, DocsOK
  <1>19. PromotedOK'
    BY <1>0, <1>8, <1>9 DEF Calm, PromotedOK
  <1>20. TriedOK'
    BY <1>0, <1>7, GoesOnTried
  <1>21. WorkOK(k)'
    <2>1. Agrees(k, w)'
      BY <1>2, <1>4, <1>9 DEF Agrees
    <2> QED BY <1>0, <1>6, <2>1 DEF WorkOK
  <1>22. OneEvent' /\ MessagesOK'
    BY <1>0, <1>7, GoesOnEvent, GoesOnMessages
  <1> QED BY <1>8, <1>13, <1>14, <1>15, <1>16, <1>17, <1>18, <1>19, <1>20, <1>21, <1>22 DEF Calm
LEMMA HeadTail ==
  ASSUME NEW S, NEW s \in Seq(S), s # <<>>
  PROVE  /\ Tail(s) \in Seq(S) /\ 1 \in DOMAIN s /\ s[1] = Head(s)
         /\ \A i \in DOMAIN s : s[i] = Head(s) \/ \E l \in DOMAIN Tail(s) : Tail(s)[l] = s[i]
         /\ \A l \in DOMAIN Tail(s) : \E i \in DOMAIN s : Tail(s)[l] = s[i]
  <1>1. \A i \in DOMAIN s : i = 1 \/ (i - 1 \in DOMAIN Tail(s) /\ Tail(s)[i - 1] = s[i])
    OBVIOUS
  <1>2. \A i \in DOMAIN Tail(s) : i + 1 \in DOMAIN s /\ Tail(s)[i] = s[i + 1]
    OBVIOUS
  <1>3. 1 \in DOMAIN s /\ Head(s) = s[1] /\ Tail(s) \in Seq(S)
    OBVIOUS
  <1> QED BY <1>1, <1>2, <1>3

(* The job goes on to what is left, or ends. *)
GoesOnWith(j, out, K) ==
  /\ GoesOn(j, K)
  /\ \A k \in K : /\ k.left = j.left /\ k.todo = j.todo /\ k.out = out
                  /\ k.at = "upsert" \/ (k.at = "count" /\ out = <<>> /\ j.left # {})
  /\ out # <<>> \/ j.left # {} => K # {}

LEMMA ProceedsOn ==
  ASSUME NEW j \in Mem, JobOK(j), NEW out \in Seq(Writes), Proceeds(j, out)
  PROVE  \E K : GoesOnWith(j, out, K)
  <1>0. j.who = "memory"
    BY DEF Mem
  <1>1. CASE out # <<>>
    <2>1. PICK k : k = [j EXCEPT !.out = out, !.at = "upsert"]
      OBVIOUS
    <2>2. k.who = "memory" /\ k.ev = j.ev /\ k.at = "upsert" /\ k.left = j.left /\ k.todo = j.todo /\ k.out = out
      BY <1>0, <2>1 DEF JobOK, JobRows
    <2>3. Goes(j, k)
      BY <1>1, <2>1 DEF Proceeds
    <2>4. GoesOn(j, {k})
      BY <2>2, <2>3 DEF Goes, GoesOn
    <2>5. GoesOnWith(j, out, {k})
      BY <2>2, <2>4 DEF GoesOnWith
    <2> QED BY <2>5
  <1>2. CASE out = <<>> /\ j.left # {}
    <2>1. PICK k : k = [j EXCEPT !.out = out, !.at = "count"]
      OBVIOUS
    <2>2. k.who = "memory" /\ k.ev = j.ev /\ k.at = "count" /\ k.left = j.left /\ k.todo = j.todo /\ k.out = out
      BY <1>0, <2>1 DEF JobOK, JobRows
    <2>3. Goes(j, k)
      BY <1>2, <2>1 DEF Proceeds
    <2>4. GoesOn(j, {k})
      BY <2>2, <2>3 DEF Goes, GoesOn
    <2>5. GoesOnWith(j, out, {k})
      BY <1>2, <2>2, <2>4 DEF GoesOnWith
    <2> QED BY <2>5
  <1>3. CASE out = <<>> /\ j.left = {}
    <2>1. GoesOn(j, {})
      BY <1>3 DEF Proceeds, Ends, GoesOn
    <2>2. GoesOnWith(j, out, {})
      BY <1>3, <2>1 DEF GoesOnWith
    <2> QED BY <2>2
  <1> QED BY <1>1, <1>2, <1>3

LEMMA WroteCalm ==
  ASSUME SourcesInv, SourcesInv', Calm, Frame, NEW j \in Mem, j.at \in {"upsert", "write"},
         Proceeds(j, Tail(j.out)), UNCHANGED <<units, edges>>, Untouched,
         NEW u \in Ids, Head(j.out).key = <<"memory", u>>, Current(u)',
         \A v \in Ids : v # u => (Current(v)' <=> Current(v)),
         DOMAIN docs' \subseteq DOMAIN docs \cup {<<"memory", u>>}
  PROVE  Calm'
  <1>0. JobOK(j) /\ WorkOK(j) /\ j.who = "memory"
    BY DEF Mem, SourcesInv, Calm
  <1>1. j.out \in Seq(Writes) /\ j.out # <<>>
    BY <1>0 DEF JobOK, JobRows
  <1>2. Tail(j.out) \in Seq(Writes)
    BY <1>1, HeadTail
  <1>3. PICK K : /\ GoesOn(j, K)
                 /\ \A k \in K : /\ k.left = j.left /\ k.todo = j.todo /\ k.out = Tail(j.out)
                                 /\ k.at = "upsert" \/ (k.at = "count" /\ Tail(j.out) = <<>> /\ j.left # {})
                 /\ Tail(j.out) # <<>> \/ j.left # {} => K # {}
    <2>1. PICK K : GoesOnWith(j, Tail(j.out), K)
      BY <1>0, <1>2, ProceedsOn
    <2> QED BY <2>1 DEF GoesOnWith
  <1>4. /\ UNCHANGED <<message, where, units, edges>>
        /\ \A type, of : Pending(type, of)' <=> Pending(type, of)
    BY <1>3, GoesOnFacts
  <1>5. \A v : UnitDoc(v)' = UnitDoc(v)
    BY <1>4 DEF UnitDoc, MemoryDoc, Doc, SourcesOf
  <1>6. \A v \in Ids : Owes(j, v) => v = u \/ \E k \in K : Owes(k, v)'
    <2> SUFFICES ASSUME NEW v \in Ids, Owes(j, v), v # u  PROVE \E k \in K : Owes(k, v)'
      OBVIOUS
    <2>1. CASE v \in j.left
      <3>1. PICK k \in K : TRUE
        BY <1>3, <2>1
      <3>2. v \in k.left
        BY <1>3, <2>1
      <3> QED BY <3>2 DEF Owes
    <2>2. CASE v \notin j.left
      <3>1. PICK i \in DOMAIN j.out : j.out[i].key = <<"memory", v>>
        BY <2>2 DEF Owes
      <3>2. j.out[i] # Head(j.out)
        BY <3>1
      <3>3. PICK l \in DOMAIN Tail(j.out) : Tail(j.out)[l] = j.out[i]
        BY <1>1, <3>1, <3>2, HeadTail
      <3>4. Tail(j.out) # <<>>
        BY <3>3
      <3>5. PICK k \in K : k.out = Tail(j.out)
        BY <1>3, <3>4
      <3> QED BY <3>1, <3>3, <3>5 DEF Owes
    <2> QED BY <2>1, <2>2
  <1>7. ASSUME NEW k \in K  PROVE WorkOK(k)'
    <2>1. k.ev = j.ev /\ k.at \in {"upsert", "count"} /\ k.who = "memory"
      BY <1>3 DEF GoesOn
    <2>6. /\ k.left = j.left /\ k.todo = j.todo /\ k.out = Tail(j.out)
          /\ k.at = "upsert" \/ (k.at = "count" /\ k.out = <<>> /\ j.left # {})
      BY <1>3
    <2>2. \A l \in DOMAIN k.out : \E i \in DOMAIN j.out : k.out[l] = j.out[i]
      BY <1>1, <2>6, HeadTail
    <2>3. \A x : Agrees(j, x) => Agrees(k, x)'
      BY <1>4, <1>5, <2>1 DEF Agrees
    <2>4. \A l \in DOMAIN k.out : Agrees(k, k.out[l])'
      BY <1>0, <2>2, <2>3 DEF WorkOK
    <2>5. k.ev.type = "message.appended" => IngestOK(k)'
      BY <1>0, <2>6, <1>4, <2>1, <2>2 DEF WorkOK, IngestOK
    <2> QED BY <2>6, <2>1, <2>4, <2>5 DEF WorkOK
  <1>8. \A k \in DOMAIN docs' : k[1] = "memory" => k[2] \in Ids
    BY DEF Calm, DocsOK
  <1>9. j.ev.type = "message.appended" => Range(j.todo) = {}
    BY <1>0 DEF WorkOK, IngestOK, Range
  <1>10. \A v \in Ids : Current(v) \/ Owes(j, v) => Current(v)' \/ \E k \in K : Owes(k, v)'
    BY <1>6
  <1>11. \A v \in DOMAIN units :
            v \in j.left \/ (j.at = "drop" /\ j.row = v) \/ (j.at = "link" /\ j.row.id = v) =>
              \E k \in K : v \in k.left
    <2> SUFFICES ASSUME NEW v \in DOMAIN units, v \in j.left  PROVE \E k \in K : v \in k.left
      OBVIOUS
    <2>1. PICK k \in K : TRUE
      BY <1>3
    <2> QED BY <1>3, <2>1
  <1> QED BY <1>3, <1>7, <1>8, <1>9, <1>10, <1>11, JobMovesCalm

LEMMA MemoryWriteCalm ==
  ASSUME SourcesInv, SourcesInv', Calm, NEW j \in Mem, Look(j) \/ Write(j), Untouched
  PROVE  Calm'
  <1> DEFINE w == Head(j.out)
  <1>0. /\ Frame /\ UNCHANGED <<units, edges>> /\ j.at \in {"upsert", "write"}
        /\ JobOK(j) /\ WorkOK(j) /\ j.who = "memory"
    BY DEF Look, Write, Mem, SourcesInv, Calm
  <1>1. j.out \in Seq(Writes) /\ j.out # <<>>
    BY <1>0 DEF JobOK, JobRows
  <1>2. Agrees(j, w)
    BY <1>0, <1>1, HeadTail DEF WorkOK
  <1>3. PICK u \in Ids : /\ w.key = <<"memory", u>>
                         /\ w.doc = None => u \notin DOMAIN units
                         /\ w.doc # None => u \in DOMAIN units /\ w.doc = UnitDoc(u)
    BY <1>2 DEF Agrees
  <1>4. \A v : UnitDoc(v)' = UnitDoc(v)
    BY <1>0 DEF UnitDoc, MemoryDoc, Doc, SourcesOf
  <1>5. \A v : v # u => <<"memory", v>> # <<"memory", u>>
    OBVIOUS
  <1>6. CASE Look(j) /\ w.doc = None
    <2>1. docs' = [k \in DOMAIN docs \ {<<"memory", u>>} |-> docs[k]] /\ Proceeds(j, Tail(j.out))
      BY <1>3, <1>6 DEF Look
    <2>2. Current(u)' /\ \A v : v # u => (Current(v)' <=> Current(v))
      BY <1>0, <1>3, <1>4, <1>5, <1>6, <2>1 DEF Current
    <2>3. DOMAIN docs' \subseteq DOMAIN docs \cup {<<"memory", u>>}
      BY <2>1
    <2> QED BY <1>0, <1>3, <2>1, <2>2, <2>3, WroteCalm
  <1>7. CASE Look(j) /\ w.doc # None
    <2>1. PICK k : k = [j EXCEPT !.at = "write", !.found = w.key \in DOMAIN docs]
      OBVIOUS
    <2>2. Goes(j, k) /\ UNCHANGED docs /\ j.at = "upsert"
      BY <1>7, <2>1 DEF Look
    <2>3. /\ k.who = "memory" /\ k.ev = j.ev /\ k.at = "write" /\ k.todo = j.todo /\ k.left = j.left
          /\ k.out = j.out /\ k.found = (w.key \in DOMAIN docs)
      BY <1>0, <2>1 DEF JobOK, JobRows
    <2>4. GoesOn(j, {k})
      BY <2>2, <2>3 DEF Goes, GoesOn
    <2>5. WorkOK(k)
      <3>1. \A x : Agrees(j, x) => Agrees(k, x)
        BY <2>3 DEF Agrees
      <3>2. k.ev.type = "message.appended" => IngestOK(k)
        BY <1>0, <2>2, <2>3 DEF WorkOK, IngestOK
      <3> QED BY <1>0, <2>3, <3>1, <3>2 DEF WorkOK
    <2>6. \A v : Owes(j, v) => Owes(k, v)
      BY <1>0, <2>3 DEF Owes
    <2>7. UNCHANGED derived
      BY <1>0, <2>2 DEF derived
    <2> QED BY <1>0, <2>2, <2>3, <2>4, <2>5, <2>6, <2>7, JobKeepsCalm
  <1>8. CASE Write(j)
    <2>1. w.doc # None /\ j.found = (w.key \in DOMAIN docs)
      BY <1>0, <1>8 DEF Write, JobOK, WorkOK
    <2>2. docs' = Put(docs, w.key, w.doc) /\ Proceeds(j, Tail(j.out))
      BY <1>8, <2>1 DEF Write
    <2>3. /\ DOMAIN docs' = DOMAIN docs \cup {<<"memory", u>>} /\ docs'[<<"memory", u>>] = UnitDoc(u)
          /\ \A k \in DOMAIN docs : k # <<"memory", u>> => docs'[k] = docs[k]
      BY <1>3, <2>1, <2>2 DEF Put
    <2>4. Current(u)' /\ \A v : v # u => (Current(v)' <=> Current(v))
      BY <1>0, <1>3, <1>4, <1>5, <2>1, <2>3 DEF Current
    <2> QED BY <1>0, <1>3, <2>2, <2>3, <2>4, WroteCalm
  <1> QED BY <1>6, <1>7, <1>8
------------------------------------------------------------------------------
(* The search job goes on. *)
LEMMA SearchKeepsCalm ==
  ASSUME SourcesInv, SourcesInv', Calm, Frame, NEW j \in jobs, j.who = "search", NEW K,
         jobs' = (jobs \ {j}) \cup K, \A k \in K : k.who = "search" /\ k.ev = j.ev,
         \A k, l \in K : k = l, UNCHANGED <<units, edges>>,
         \A key : key[1] = "memory" => /\ key \in DOMAIN docs <=> key \in DOMAIN docs'
                                       /\ key \in DOMAIN docs => docs'[key] = docs[key],
         MessagesOK'
  PROVE  Calm'
  <1>0. /\ UNCHANGED <<message, where, calls, promotions, unpublished, up, missed, units, edges>>
        /\ jobs # {} /\ RowsOK /\ StoreOK
    BY DEF Frame, rows, seen, SourcesInv
  <1>1. Mem' = Mem
    BY DEF Mem
  <1>2. /\ Tried' = Tried
        /\ \A type, of : Pending(type, of)' <=> Pending(type, of)
        /\ \A m : (Fresh(m)' <=> Fresh(m)) /\ (Redacting(m)' <=> Redacting(m))
    BY <1>0, <1>1 DEF Tried, Pending, Fresh, Redacting
  <1>3. \A v : SourcesOf(v)' = SourcesOf(v) /\ UnitDoc(v)' = UnitDoc(v)
    BY <1>0 DEF UnitDoc, MemoryDoc, Doc, SourcesOf
  <1>4. \A v : <<"memory", v>>[1] = "memory"
    OBVIOUS
  <1>5. \A v : Current(v)' <=> Current(v)
    BY <1>0, <1>3, <1>4 DEF Current
  <1>6. OneEvent'
    <2>1. up /\ \A k \in jobs' : k.ev = j.ev
      BY <1>0 DEF Calm, OneEvent, SourcesInv, FlagsOK
    <2>2. \A k, l \in jobs' : k.who = l.who => k = l
      BY DEF Calm, OneEvent
    <2> QED BY <1>0, <1>2, <2>1, <2>2 DEF Calm, OneEvent
  <1>7. FreshOK' /\ GoneOK' /\ EdgesOK' /\ TriedOK' /\ PromotedOK'
    BY <1>0, <1>1, <1>2 DEF Calm, FreshOK, GoneOK, EdgesOK, TriedOK, PromotedOK
  <1>8. FullOK' /\ UnitsOK'
    BY <1>0, <1>1, <1>2 DEF Calm, FullOK, UnitsOK, LinkedTo
  <1>9. DocsOK'
    <2>1. \A k \in DOMAIN docs' : k[1] = "memory" => k[2] \in Ids
      BY DEF Calm, DocsOK
    <2>2. \A k, v : Owes(k, v)' <=> Owes(k, v)
      BY <1>0 DEF Owes
    <2> QED BY <1>1, <1>5, <2>1, <2>2 DEF Calm, DocsOK
  <1>10. ASSUME NEW k \in Mem  PROVE WorkOK(k)'
    <2>1. WorkOK(k) /\ JobOK(k)
      BY <1>10 DEF Calm, Mem, SourcesInv
    <2>2. \A x : Agrees(k, x)' <=> Agrees(k, x)
      BY <1>0, <1>3 DEF Agrees
    <2>3. k.ev.type = "message.appended" => IngestOK(k)'
      BY <1>0, <1>2, <1>3, <2>1 DEF WorkOK, IngestOK, UnitsSaying
    <2>4. k.at = "write" => (Head(k.out).key \in DOMAIN docs' <=> Head(k.out).key \in DOMAIN docs)
      <3> SUFFICES ASSUME k.at = "write"
                   PROVE  Head(k.out).key \in DOMAIN docs' <=> Head(k.out).key \in DOMAIN docs
        OBVIOUS
      <3>1. k.out \in Seq(Writes) /\ k.out # <<>>
        BY <2>1 DEF JobOK, JobRows
      <3>2. 1 \in DOMAIN k.out /\ k.out[1] = Head(k.out)
        BY <3>1, HeadTail
      <3>3. Agrees(k, Head(k.out))
        BY <2>1, <3>2 DEF WorkOK
      <3>4. Head(k.out).key[1] = "memory"
        BY <3>3 DEF Agrees
      <3> QED BY <3>4
    <2> QED BY <1>0, <1>3, <2>1, <2>2, <2>3, <2>4 DEF WorkOK
  <1> QED BY <1>1, <1>6, <1>7, <1>8, <1>9, <1>10 DEF Calm

LEMMA OneTail ==
  ASSUME NEW S, NEW s \in Seq(S), Len(s) = 1
  PROVE  Tail(s) = <<>>
  <1>1. Tail(s) \in Seq(S) /\ Len(Tail(s)) = 0
    OBVIOUS
  <1>2. PICK t \in Seq(S) : t = Tail(s)
    BY <1>1
  <1>3. Len(t) = 0
    BY <1>1, <1>2
  <1>4. t = <<>>
    BY <1>3
  <1> QED BY <1>2, <1>4

LEMMA SearchStepCalm ==
  ASSUME SourcesInv, SourcesInv', Calm, NEW j \in jobs, WritesOnly(j), j.who = "search",
         Index(j) \/ Look(j) \/ Write(j)
  PROVE  Calm'
  <1> DEFINE e == j.ev
  <1>0. /\ Frame /\ UNCHANGED <<units, edges>> /\ JobOK(j) /\ EventOK(e) /\ RowsOK /\ j.left = {}
    BY DEF Index, Look, Write, derived, SourcesInv, JobOK, WritesOnly
  <1>1. /\ UNCHANGED <<message, where, unpublished>> /\ Live' = Live
        /\ \A type, of : Pending(type, of)' <=> Pending(type, of)
    BY <1>0 DEF Frame, rows, Live, Pending
  <1>2. \A i \in jobs : i.who = "search" => i = j
    BY DEF Calm, OneEvent
  <1>3. CASE Index(j)
    <2> DEFINE write == CASE e.type = "created" -> Upsert(ThingKey(e.of), ThingDoc(e.of))
                          [] e.type = "message.appended" -> Upsert(<<"message", e.of>>, MessageDoc(e.of))
                          [] OTHER -> Delete(<<"message", e.of>>)
    <2>0. docs' = docs
      BY <1>3 DEF Index, derived
    <2>1. CASE e.type = "message.appended" /\ TextOf(e.of) = <<>>
      <3>1. jobs' = (jobs \ {j}) \cup {}
        BY <1>3, <2>1 DEF Index, Ends
      <3>2. \A m : Leaving(m) => Leaving(m)'
        BY <1>1, <1>2, <2>1, <3>1 DEF Leaving
      <3>3. MessagesOK'
        BY <1>1, <2>0, <3>1, <3>2 DEF Calm, MessagesOK
      <3> QED BY <1>0, <2>0, <3>1, <3>3, SearchKeepsCalm
    <2>2. CASE ~(e.type = "message.appended" /\ TextOf(e.of) = <<>>)
      <3>1. PICK w : w = write
        OBVIOUS
      <3>2. PICK k : k = [j EXCEPT !.at = IF w.doc = None THEN "upsert" ELSE "write",
                                   !.found = w.key \in DOMAIN docs, !.out = <<w>>]
        OBVIOUS
      <3>3. Goes(j, k)
        BY <1>3, <2>2, <3>1, <3>2 DEF Index
      <3>4. k.who = "search" /\ k.ev = e
        BY <1>0, <3>2 DEF JobOK, JobRows
      <3>5. jobs' = (jobs \ {j}) \cup {k}
        BY <3>3 DEF Goes
      <3>6. \A m : Leaving(m) => Leaving(m)'
        BY <1>1, <1>2, <3>4, <3>5 DEF Leaving
      <3>7. e.type = "message.appended" => e.of \in Live
        BY <1>0, <2>2 DEF TextOf, Live, EventOK
      <3>8. \A i \in jobs' : i.who = "search" => i = k
        BY <1>2, <3>5
      <3>9. MessagesOK'
        <4>1. \A x \in DOMAIN docs' : x[1] = "message" =>
                 x[2] \in Messages /\ (x[2] \in Live' \/ Leaving(x[2])')
          BY <1>1, <2>0, <3>6 DEF Calm, MessagesOK
        <4>2. \A i \in jobs' : i.who = "search" /\ i.ev.type = "message.appended" => i.ev.of \in Live'
          BY <1>1, <3>4, <3>7, <3>8
        <4> QED BY <4>1, <4>2 DEF MessagesOK
      <3>10. \A l \in {k} : l.who = "search" /\ l.ev = j.ev
        BY <3>4
      <3>11. \A l, n \in {k} : l = n
        OBVIOUS
      <3>12. \A key : key[1] = "memory" => /\ key \in DOMAIN docs <=> key \in DOMAIN docs'
                                           /\ key \in DOMAIN docs => docs'[key] = docs[key]
        BY <2>0
      <3>13. Frame /\ UNCHANGED <<units, edges>>
        BY <1>0
      <3> HIDE DEF write, e
      <3>14. PICK K : K = {k}
        OBVIOUS
      <3>15. jobs' = (jobs \ {j}) \cup K /\ (\A l \in K : l.who = "search" /\ l.ev = j.ev)
             /\ (\A l, n \in K : l = n)
        BY <3>5, <3>10, <3>11, <3>14
      <3> QED BY <3>9, <3>12, <3>13, <3>15, SearchKeepsCalm
    <2> QED BY <2>1, <2>2
  <1>4. Look(j) \/ Write(j) => jobs' = (jobs \ {j}) \cup {}
    <2>1. j.at \in {"upsert", "write"} => Len(j.out) = 1 /\ j.out \in Seq(Writes)
      BY <1>0 DEF WritesOnly, JobOK, JobRows
    <2>2. j.at \in {"upsert", "write"} => Tail(j.out) = <<>>
      BY <2>1, OneTail
    <2>3. Look(j) => Head(j.out).doc = None
      BY DEF Look, WritesOnly, Delete
    <2>4. Look(j) \/ Write(j) => Proceeds(j, <<>>)
      BY <2>2, <2>3 DEF Look, Write
    <2> QED BY <1>0, <2>4 DEF Proceeds, Ends
  <1>5. CASE Look(j)
    <2>1. /\ e.type = "message.redacted" /\ Head(j.out) = Delete(<<"message", e.of>>)
          /\ jobs' = (jobs \ {j}) \cup {}
      BY <1>4, <1>5 DEF Look, WritesOnly
    <2>2. docs' = [k \in DOMAIN docs \ {<<"message", e.of>>} |-> docs[k]]
      BY <1>5, <2>1 DEF Look, Delete
    <2>3. \A m : Leaving(m) => Leaving(m)' \/ m = e.of
      BY <1>1, <1>2, <2>1 DEF Leaving
    <2>4. \A k \in DOMAIN docs' : k \in DOMAIN docs /\ (k[1] = "message" => k[2] # e.of)
      <3>1. \A k \in DOMAIN docs : k = <<k[1], k[2]>>
        BY DEF SourcesInv, StoreOK, Keys
      <3> QED BY <2>2, <3>1
    <2>5. \A i \in jobs' : i.who # "search"
      BY <1>2, <2>1
    <2>6. MessagesOK'
      BY <1>1, <2>3, <2>4, <2>5 DEF Calm, MessagesOK
    <2>7. \A key : key[1] = "memory" => key # <<"message", e.of>>
      OBVIOUS
    <2> QED BY <1>0, <2>1, <2>2, <2>6, <2>7, SearchKeepsCalm
  <1>6. CASE Write(j)
    <2>1. j.at = "write" /\ jobs' = (jobs \ {j}) \cup {}
      BY <1>4, <1>6 DEF Write
    <2>2. PICK w : w = Head(j.out)
      OBVIOUS
    <2>3. \/ e.type = "created" /\ w.key = ThingKey(e.of)
          \/ e.type = "message.appended" /\ w.key = <<"message", e.of>>
      BY <2>1, <2>2 DEF WritesOnly, Upsert
    <2>4. /\ w.key[1] # "memory"
          /\ w.key[1] = "message" => /\ w.key[2] \in Messages /\ w.key[2] = e.of
                                     /\ e.type = "message.appended"
      <3>1. CASE e.type = "created" /\ w.key = ThingKey(e.of)
        <4>1. ThingKey(e.of)[1] \in {"channel", "thread", "actor"}
          BY <1>0, <3>1, KeyFacts DEF EventOK, RowsOK
        <4> QED BY <3>1, <4>1
      <3>2. CASE e.type = "message.appended" /\ w.key = <<"message", e.of>>
        BY <1>0, <3>2 DEF EventOK
      <3> QED BY <2>3, <3>1, <3>2
    <2>5. docs' = IF j.found = (w.key \in DOMAIN docs) THEN Put(docs, w.key, w.doc) ELSE docs
      BY <1>6, <2>2 DEF Write
    <2>6. /\ \A k \in DOMAIN docs' : k \in DOMAIN docs \/ k = w.key
          /\ \A k : k # w.key => /\ k \in DOMAIN docs <=> k \in DOMAIN docs'
                                 /\ k \in DOMAIN docs => docs'[k] = docs[k]
      BY <2>5 DEF Put
    <2>7. \A m : Leaving(m) => Leaving(m)'
      BY <1>1, <1>2, <2>1, <2>3 DEF Leaving
    <2>8. \A i \in jobs' : i.who # "search"
      BY <1>2, <2>1
    <2>9. e.type = "message.appended" => e.of \in Live \/ Leaving(e.of)
      BY <2>1 DEF Calm, MessagesOK
    <2>10. MessagesOK'
      BY <1>1, <2>4, <2>6, <2>7, <2>8, <2>9 DEF Calm, MessagesOK
    <2>11. \A k : k[1] = "memory" => k # w.key
      BY <2>4
    <2> QED BY <1>0, <2>1, <2>6, <2>10, <2>11, SearchKeepsCalm
  <1> QED BY <1>3, <1>5, <1>6
------------------------------------------------------------------------------
(* The faults.                                                                *)
LEMMA CrashCalm ==
  ASSUME SourcesInv, Calm, Crash, ~disturbed'
  PROVE  Calm'
  <1>0. /\ jobs = {} /\ unpublished = {} /\ jobs' = {} /\ unpublished' = {} /\ up' = FALSE
        /\ UNCHANGED <<message, where, promotions, units, edges, docs>> /\ Mem = {} /\ Mem' = {}
        /\ \A c \in Calls : calls'[c].op = "promote" => calls[c].op = "promote" /\ calls'[c] = calls[c]
    BY DEF Crash, rows, derived, Mem, Done
  <1>1. Tried' \subseteq Tried
    BY <1>0 DEF Tried
  <1>2. \A type, of : ~Pending(type, of) /\ ~Pending(type, of)'
    BY <1>0 DEF Pending
  <1>3. \A m : (Fresh(m)' <=> Fresh(m)) /\ (Redacting(m)' <=> Redacting(m)) /\ (Leaving(m)' <=> Leaving(m))
    BY <1>0, <1>2 DEF Fresh, Redacting, Leaving
  <1>4. \A v : Current(v)' <=> Current(v)
    BY <1>0 DEF Current, UnitDoc, MemoryDoc, Doc, SourcesOf
  <1>5. OneEvent' /\ TriedOK'
    BY <1>0 DEF OneEvent, TriedOK
  <1>6. FreshOK' /\ FullOK' /\ GoneOK' /\ EdgesOK'
    BY <1>0, <1>1, <1>3 DEF Calm, FreshOK, FullOK, GoneOK, EdgesOK, LinkedTo
  <1>7. UnitsOK' /\ DocsOK' /\ PromotedOK'
    BY <1>0, <1>2, <1>4 DEF Calm, UnitsOK, DocsOK, PromotedOK
  <1>8. MessagesOK'
    BY <1>0, <1>3 DEF Calm, MessagesOK, Live
  <1> QED BY <1>0, <1>5, <1>6, <1>7, <1>8 DEF Calm

LEMMA RestartCalm ==
  ASSUME SourcesInv, Calm, Restart
  PROVE  Calm'
  <1>0. /\ jobs = {} /\ unpublished = {} /\ jobs' = {} /\ unpublished' = {} /\ up' = TRUE /\ missed' = FALSE
        /\ UNCHANGED <<message, where, calls, promotions, units, edges>> /\ Mem = {} /\ Mem' = {}
        /\ docs' = Backfilled
    BY DEF Restart, rows, Mem, Calm, OneEvent
  <1>1. Tried' = Tried /\ Live' = Live
    BY <1>0 DEF Tried, Live
  <1>2. \A type, of : ~Pending(type, of) /\ ~Pending(type, of)'
    BY <1>0 DEF Pending
  <1>3. \A m : (Fresh(m)' <=> Fresh(m)) /\ (Redacting(m)' <=> Redacting(m)) /\ (Leaving(m)' <=> Leaving(m))
    BY <1>0, <1>2 DEF Fresh, Redacting, Leaving
  <1>4. /\ \A k \in ThingKeys : k[1] \in {"channel", "thread", "actor"}
        /\ \A k \in LiveKeys : k[1] = "message" /\ k[2] \in Live
    BY KeyFacts DEF ThingKeys, LiveKeys, SourcesInv, RowsOK
  <1>5. /\ \A k \in DOMAIN docs' : k \in ThingKeys \/ k \in LiveKeys \/ k \in DOMAIN docs
        /\ \A k \in DOMAIN docs : k \in DOMAIN docs'
        /\ \A k \in DOMAIN docs : k \notin ThingKeys /\ k \notin LiveKeys => docs'[k] = docs[k]
    BY <1>0 DEF Backfilled
  <1>6. \A k : k[1] = "memory" => k \notin ThingKeys /\ k \notin LiveKeys
    BY <1>4
  <1>7. \A v : Current(v)' <=> Current(v)
    <2>1. \A v : <<"memory", v>>[1] = "memory"
      OBVIOUS
    <2>2. \A v : UnitDoc(v)' = UnitDoc(v)
      BY <1>0 DEF UnitDoc, MemoryDoc, Doc, SourcesOf
    <2>3. \A v : /\ <<"memory", v>> \in DOMAIN docs' <=> <<"memory", v>> \in DOMAIN docs
                 /\ <<"memory", v>> \in DOMAIN docs => docs'[<<"memory", v>>] = docs[<<"memory", v>>]
      BY <1>5, <1>6, <2>1
    <2> QED BY <1>0, <2>2, <2>3 DEF Current
  <1>8. OneEvent' /\ TriedOK'
    BY <1>0 DEF OneEvent, TriedOK
  <1>9. FreshOK' /\ FullOK' /\ GoneOK' /\ EdgesOK'
    BY <1>0, <1>1, <1>3 DEF Calm, FreshOK, FullOK, GoneOK, EdgesOK, LinkedTo
  <1>10. UnitsOK' /\ PromotedOK'
    BY <1>0, <1>2 DEF Calm, UnitsOK, PromotedOK
  <1>11. DocsOK'
    <2>1. \A k \in DOMAIN docs' : k[1] = "memory" => k[2] \in Ids
      BY <1>5, <1>6 DEF Calm, DocsOK
    <2> QED BY <1>0, <1>7, <2>1 DEF Calm, DocsOK
  <1>12. MessagesOK'
    <2>1. \A k \in DOMAIN docs' : k[1] = "message" => k \in LiveKeys \/ k \in DOMAIN docs
      BY <1>4, <1>5
    <2>2. \A k \in LiveKeys : k[2] \in Messages
      BY <1>4 DEF Live
    <2> QED BY <1>0, <1>1, <1>3, <1>4, <2>1, <2>2 DEF Calm, MessagesOK
  <1> QED BY <1>0, <1>8, <1>9, <1>10, <1>11, <1>12 DEF Calm

LEMMA SameCalm ==
  ASSUME SourcesInv, SourcesInv', Calm, UNCHANGED vars
  PROVE  Calm'
  <1>1. UNCHANGED <<made, message, where, calls, jobs, derived, seen, unpublished, promotions>>
    BY DEF vars, rows
  <1>2. Grows /\ Tried' = Tried /\ RowsOK'
    BY <1>1 DEF Grows, Tried, SourcesInv
  <1> QED BY <1>1, <1>2, CoreCalm

LEMMA MemoryUntouched ==
  ASSUME SourcesInv, NEW j \in jobs, WritesOnly(j), j.who = "memory",
         \/ Hydrate(j) \/ Find(j) \/ InsertUnit(j) \/ Link(j) \/ Reload(j)
         \/ ApplyPromotion(j) \/ Linked(j) \/ Unlink(j) \/ Count(j) \/ Drop(j) \/ Load(j)
         \/ Look(j) \/ Write(j)
  PROVE  Untouched
  <1>1. CASE Look(j) \/ Write(j)
    BY <1>1, MemoryKeeps
  <1>2. CASE ~(Look(j) \/ Write(j))
    <2>1. UNCHANGED docs
      BY <1>2 DEF Hydrate, Find, InsertUnit, Link, Reload, ApplyPromotion, Linked, Unlink, Count,
                  Drop, Load, derived
    <2> QED BY <2>1 DEF Untouched
  <1> QED BY <1>1, <1>2

LEMMA JobStepCalm ==
  ASSUME SourcesInv, SourcesInv', Calm, \A j \in jobs : WritesOnly(j), JobStep
  PROVE  Calm'
  <1>1. PICK j \in jobs :
          \/ Hydrate(j) \/ Find(j) \/ InsertUnit(j) \/ Link(j) \/ Reload(j)
          \/ ApplyPromotion(j) \/ Linked(j) \/ Unlink(j) \/ Count(j) \/ Drop(j) \/ Load(j)
          \/ Index(j) \/ Look(j) \/ Write(j)
    BY DEF JobStep
  <1>2. WritesOnly(j) /\ j.who \in {"memory", "search"}
    BY DEF SourcesInv, JobOK, JobRows
  <1>3. CASE j.who = "memory"
    <2>1. j \in Mem /\ ~Index(j)
      BY <1>3 DEF Mem, Index
    <2>2. Untouched
      BY <1>1, <1>2, <1>3, <2>1, MemoryUntouched
    <2>3. CASE Hydrate(j) \/ Find(j) \/ InsertUnit(j) \/ Link(j) \/ Reload(j)
      BY <2>1, <2>2, <2>3, HydrateCalm, FindCalm, InsertCalm, LinkCalm, ReloadCalm
    <2>4. CASE ApplyPromotion(j) \/ Linked(j) \/ Unlink(j) \/ Count(j) \/ Drop(j) \/ Load(j)
      BY <2>1, <2>2, <2>4, PromotionCalm, LinkedCalm, UnlinkCalm, CountCalm, DropCalm, LoadCalm
    <2>5. CASE Look(j) \/ Write(j)
      BY <2>1, <2>2, <2>5, MemoryWriteCalm
    <2> QED BY <1>1, <2>1, <2>3, <2>4, <2>5
  <1>4. CASE j.who = "search"
    <2>1. Index(j) \/ Look(j) \/ Write(j)
      BY <1>1, <1>4 DEF Hydrate, Find, InsertUnit, Link, Reload, ApplyPromotion, Linked,
                        Unlink, Count, Drop, Load, At
    <2> QED BY <1>2, <1>4, <2>1, SearchStepCalm
  <1> QED BY <1>2, <1>3, <1>4

LEMMA CalmStays == CalmInv /\ [Next]_vars => CalmInv'
  <1> SUFFICES ASSUME CalmInv, [Next]_vars  PROVE CalmInv'
    OBVIOUS
  <1>0. FoundInv /\ FoundInv' /\ SourcesInv /\ SourcesInv' /\ \A j \in jobs : WritesOnly(j)
    BY FoundStays DEF CalmInv, FoundInv
  <1>1. ASSUME ~disturbed'  PROVE Calm'
    <2>1. JobStep => Frame
      BY DEF JobStep, Hydrate, Find, InsertUnit, Link, Reload, ApplyPromotion, Linked, Unlink,
             Count, Drop, Load, Index, Look, Write
    <2>2. ~disturbed
      <3>1. CASE JobStep \/ UNCHANGED vars
        BY <1>1, <2>1, <3>1 DEF Frame, vars
      <3>2. CASE ~JobStep /\ ~UNCHANGED vars
        BY <1>1, <3>2 DEF Next, Create, Appends, CheckRedact, CheckPromote, Redact, Promote, Publish,
                          Breaks, Crash, Restart
      <3> QED BY <3>1, <3>2
    <2>3. Calm
      BY <2>2 DEF CalmInv
    <2>4. CASE UNCHANGED vars
      BY <1>0, <2>3, <2>4, SameCalm
    <2>5. CASE JobStep
      BY <1>0, <2>3, <2>5, JobStepCalm
    <2>6. CASE \E e \in unpublished : Publish(e)
      BY <1>0, <1>1, <2>3, <2>6, PublishCalm
    <2>7. CASE \E j \in jobs : Breaks(j)
      BY <1>1, <2>7 DEF Breaks
    <2>8. CASE Crash
      BY <1>0, <1>1, <2>3, <2>8, CrashCalm
    <2>9. CASE Restart
      BY <1>0, <2>3, <2>9, RestartCalm
    <2>10. CASE \/ \E x \in Streams \cup Actors, shown \in BOOLEAN : Create(x, shown)
                \/ \E m \in Messages, s \in Streams : Appends(m, s)
                \/ \E c \in Calls, m \in Messages : CheckRedact(c, m)
                \/ \E c \in Calls, a \in Actors, u \in DOMAIN units : CheckPromote(c, a, u)
                \/ \E c \in Calls : Redact(c) \/ Promote(c)
      BY <1>0, <2>3, <2>10, CoreStepCalm
    <2> QED BY <2>4, <2>5, <2>6, <2>7, <2>8, <2>9, <2>10 DEF Next
  <1> QED BY <1>0, <1>1 DEF CalmInv

(* Events handled one after the other leave exactly what the log says: the     *)
(* units of each live text in each stream, their edges, and documents that     *)
(* agree with both (memory.ts, search.ts).                                    *)
THEOREM DerivedWhenCalm == Spec => []CalmlyDerived
  <1>1. Init => CalmInv
    BY CalmAtFirst, FoundAtFirst DEF CalmInv
  <1>2. CalmInv => CalmlyDerived
    <2>1. CASE disturbed
      BY <2>1 DEF CalmlyDerived
    <2>2. CASE ~disturbed /\ ~Quiet
      BY <2>2 DEF CalmlyDerived
    <2>3. CASE ~disturbed /\ Quiet
      BY <2>3, CalmAtRest DEF CalmInv
    <2> QED BY <2>1, <2>2, <2>3
  <1> QED BY <1>1, <1>2, CalmStays, PTL DEF Spec
====
