-------------------------- MODULE DurableStreamProofs --------------------------
(* Theorems about DurableStream, for every value of its constants. *)
EXTENDS DurableStream, TLAPS, FiniteSetTheorems, SequenceTheorems, WellFoundedInduction

(***************************************************************************)
(* The inductive invariant.                                                *)
(***************************************************************************)
Size == Cardinality(chunks)

\* S holds one chunk for each offset of lo + 1 .. hi.
Fills(S, lo, hi) ==
    /\ {c.offset : c \in S} = lo + 1 .. hi
    /\ \A c, d \in S : c.offset = d.offset => c = d

Filled == Size \in Nat /\ Fills(chunks, 0, Size)

\* Every copy of latest_offset points into the chunks, and so does what an
\* append has put; other requests count no puts.
LatestInv ==
    /\ stream.latest <= Size
    /\ \A p \in Requests : /\ row[p].latest + puts[p] <= Size
                           /\ pc[p] # "put" => puts[p] = 0
    /\ \A t \in Tails : told[t].latest <= Size

\* On the rows plugin an append that has put a chunk is the only one that can
\* have: latest_offset is still what it loaded, and the next offset its own.
Owns(p) == \E c \in chunks : c.by = p /\ c.offset = row[p].latest + 1

RowsInv ==
    store = "rows" =>
        \A p \in Appends : pc[p] = "put" =>
            /\ row[p].latest <= stream.latest
            /\ puts[p] > 0 => row[p].latest = stream.latest /\ Owns(p)

\* A tail has as many chunks as its offset says.
TailInv == \A t \in Tails : Len(got[t]) = offset[t] /\ offset[t] <= Size

Inv == TypeOK /\ Filled /\ LatestInv /\ RowsInv /\ TailInv /\ TailFaithful

(***************************************************************************)
(* Chunks that fill an interval.                                           *)
(***************************************************************************)
\* Every set of naturals with an element has a least one.
LEMMA Least == ASSUME NEW T \in SUBSET Nat, T # {}  PROVE  \E m \in T : \A k \in T : m <= k
  <1> DEFINE R == {ss \in Nat \X Nat : ss[1] < ss[2]}
  <1>1. IsWellFoundedOn(R, Nat)
    BY NatLessThanWellFounded DEF OpToRel
  <1>2. \A x, y \in Nat : x < y => <<x, y>> \in R
    OBVIOUS
  <1> HIDE DEF R
  <1>3. PICK x \in T : \A y \in T : <<y, x>> \notin R
    BY <1>1, WFMin
  <1>4. \A y \in T : ~(y < x)
    BY <1>2, <1>3
  <1> QED BY <1>4


\* A sequence of l numbers of lo + 1 .. lo + l that increases is lo + 1, lo + 2 ...
LEMMA IncreasingFills ==
  ASSUME NEW lo \in Nat, NEW l \in Nat, NEW f \in [1 .. l -> lo + 1 .. lo + l],
         \A j, k \in 1 .. l : j < k => f[j] < f[k]
  PROVE  \A k \in 1 .. l : f[k] = lo + k
  <1>1. \A k \in 1 .. l : f[k] >= lo + k
    <2> DEFINE Low == {k \in 1 .. l : f[k] < lo + k}
    <2>0. \A k \in 1 .. l : f[k] \in Nat /\ (f[k] >= lo + k \/ f[k] < lo + k)
      OBVIOUS
    <2> SUFFICES ASSUME Low # {}  PROVE FALSE
      BY <2>0
    <2>1. Low \in SUBSET Nat
      OBVIOUS
    <2>2. PICK k \in Low : \A j \in Low : k <= j
      BY <2>1, Least
    <2>3. k > 1 /\ k \in 1 .. l /\ f[k] < lo + k
      BY <2>2
    <2>4. k - 1 \in 1 .. l /\ f[k - 1] < f[k] /\ f[k - 1] \in Nat /\ f[k] \in Nat
      BY <2>3
    <2>5. k - 1 \in Low
      BY <2>3, <2>4
    <2> QED BY <2>2, <2>3, <2>5
  <1>2. \A k \in 1 .. l : f[k] <= lo + k
    <2> DEFINE High == {n \in 0 .. l - 1 : f[l - n] > lo + (l - n)}
    <2> SUFFICES ASSUME High = {}  PROVE \A k \in 1 .. l : f[k] <= lo + k
      <3>1. ASSUME High # {}  PROVE FALSE
        <4>1. High \in SUBSET Nat
          OBVIOUS
        <4>2. PICK n \in High : \A m \in High : n <= m
          BY <3>1, <4>1, Least
        <4>3. n \in 1 .. l - 1 /\ f[l - n] > lo + (l - n)
          BY <4>2
        <4>4. /\ l - n \in 1 .. l /\ l - (n - 1) \in 1 .. l
              /\ f[l - n] < f[l - (n - 1)] /\ f[l - n] \in Nat /\ f[l - (n - 1)] \in Nat
          BY <4>3
        <4>5. n - 1 \in High
          BY <4>3, <4>4
        <4> HIDE DEF High
        <4> QED BY <4>2, <4>3, <4>5
      <3> QED BY <3>1
    <2> TAKE k \in 1 .. l
    <2>1. l - k \in 0 .. l - 1 /\ l - (l - k) = k
      OBVIOUS
    <2>2. l - k \notin High
      OBVIOUS
    <2> QED BY <2>1, <2>2
  <1>3. \A k \in 1 .. l : f[k] \in Nat
    OBVIOUS
  <1> QED BY <1>1, <1>2, <1>3

\* Such a set can be listed by its offsets.
LEMMA FillsListed ==
  ASSUME NEW lo \in Nat, NEW l \in Nat, NEW S, Fills(S, lo, lo + l)
  PROVE  \E f \in [1 .. l -> S] : /\ \A k \in 1 .. l : f[k].offset = lo + k
                                  /\ \A c \in S : \E k \in 1 .. l : c = f[k]
  <1> DEFINE at == [k \in 1 .. l |-> CHOOSE c \in S : c.offset = lo + k]
  <1>1. ASSUME NEW k \in 1 .. l  PROVE at[k] \in S /\ at[k].offset = lo + k
    <2>1. lo + k \in {c.offset : c \in S}
      BY DEF Fills
    <2>2. \E c \in S : c.offset = lo + k
      BY <2>1
    <2> QED BY <2>2
  <1>2. ASSUME NEW c \in S  PROVE \E k \in 1 .. l : c = at[k]
    <2>1. c.offset \in lo + 1 .. lo + l
      BY DEF Fills
    <2>2. PICK k \in 1 .. l : c.offset = lo + k
      <3>1. c.offset - lo \in 1 .. l /\ c.offset = lo + (c.offset - lo)
        BY <2>1
      <3> QED BY <3>1
    <2>3. at[k] \in S /\ at[k].offset = c.offset
      BY <1>1, <2>2
    <2>4. c = at[k]
      BY <2>3 DEF Fills
    <2> QED BY <2>4
  <1>3. at \in [1 .. l -> S]
    BY <1>1
  <1> HIDE DEF at
  <1> QED BY <1>1, <1>2, <1>3

\* It has as many chunks as offsets.
LEMMA FillsCardinality ==
  ASSUME NEW lo \in Nat, NEW l \in Nat, NEW S, Fills(S, lo, lo + l)
  PROVE  IsFiniteSet(S) /\ Cardinality(S) = l
  <1>1. PICK f \in [1 .. l -> S] : /\ \A k \in 1 .. l : f[k].offset = lo + k
                                   /\ \A c \in S : \E k \in 1 .. l : c = f[k]
    BY FillsListed
  <1>2. ASSUME NEW j \in 1 .. l, NEW k \in 1 .. l, f[j] = f[k]  PROVE j = k
    <2>1. lo + j = lo + k
      BY <1>1, <1>2
    <2> QED BY <2>1
  <1>3. f \in Bijection(1 .. l, S)
    BY <1>1, <1>2 DEF Bijection, Injection, Surjection, IsInjective
  <1>4. IsFiniteSet(1 .. l) /\ Cardinality(1 .. l) = l
    BY FS_Interval
  <1>5. ExistsBijection(1 .. l, S)
    BY <1>3 DEF ExistsBijection
  <1> QED BY <1>4, <1>5, FS_Bijection

\* ORDER BY chunk_offset lists it so.
Lists(s, S, lo, l) == s \in [1 .. l -> S] /\ \A k \in 1 .. l : s[k].offset = lo + k

LEMMA InOrderFills ==
  ASSUME NEW lo \in Nat, NEW l \in Nat, NEW S, Fills(S, lo, lo + l)
  PROVE  Lists(InOrder(S), S, lo, l)
  <1> DEFINE Sorted(s) == \A j, k \in DOMAIN s : j < k => s[j].offset < s[k].offset
             o == InOrder(S)
             offsets == [k \in 1 .. l |-> o[k].offset]
  <1>1. PICK f \in [1 .. l -> S] : \A k \in 1 .. l : f[k].offset = lo + k
    BY FillsListed
  <1>2. Sorted(f)
    BY <1>1
  <1>3. Cardinality(S) = l
    BY FillsCardinality
  <1>4. o \in [1 .. l -> S] /\ Sorted(o)
    BY <1>2, <1>3 DEF InOrder
  <1>5. \A c \in S : c.offset \in lo + 1 .. lo + l
    BY DEF Fills
  <1> HIDE DEF o
  <1>6. offsets \in [1 .. l -> lo + 1 .. lo + l] /\ \A j, k \in 1 .. l : j < k => offsets[j] < offsets[k]
    BY <1>4, <1>5
  <1>7. \A k \in 1 .. l : offsets[k] = lo + k
    <2> HIDE DEF offsets
    <2> QED BY <1>6, IncreasingFills
  <1> QED BY <1>4, <1>7 DEF o, Lists

LEMMA MaxFills ==
  ASSUME NEW lo \in Nat, NEW l \in Nat \ {0}, NEW S, Fills(S, lo, lo + l)
  PROVE  Max({c.offset : c \in S}) = lo + l
  <1> DEFINE O == {c.offset : c \in S}
  <1>1. O = lo + 1 .. lo + l
    BY DEF Fills
  <1> HIDE DEF O
  <1>2. \A x \in O : (\A y \in O : x >= y) <=> x = lo + l
    BY <1>1
  <1>3. lo + l \in O
    BY <1>1
  <1>4. Max(O) = lo + l
    BY <1>2, <1>3 DEF Max
  <1> QED BY <1>4 DEF O

(***************************************************************************)
(* Initial states.                                                         *)
(***************************************************************************)
LEMMA InvInit == Init => Inv
  <1> SUFFICES ASSUME Init  PROVE Inv
    OBVIOUS
  <1> USE DEF Init
  <1>1. Size = 0 /\ Filled
    BY FS_EmptySet DEF Size, Filled, Fills
  <1>2. NewStream \in Row /\ NewStream.latest = 0
    BY DEF NewStream, Row
  <1>3. TypeOK
    BY <1>2 DEF TypeOK, PCs
  <1>4. LatestInv
    BY <1>1, <1>2 DEF LatestInv
  <1>5. RowsInv /\ TailInv /\ TailFaithful
    <2>1. RowsInv
      BY DEF RowsInv, Requests
    <2>2. TailInv
      BY <1>1 DEF TailInv
    <2>3. TailFaithful
      BY DEF TailFaithful
    <2> QED BY <2>1, <2>2, <2>3
  <1> QED BY <1>1, <1>3, <1>4, <1>5 DEF Inv

(***************************************************************************)
(* Requests.                                                               *)
(***************************************************************************)
\* What RowsStayContiguous says of a step, beyond what Inv' says.
Grows == store = "rows" => chunks \subseteq chunks' /\ stream.latest <= stream'.latest

LEMMA RowTyped ==
  /\ NewStream \in Row /\ NewStream.latest = 0
  /\ \A r \in Row : r.latest \in Nat
  BY DEF NewStream, Row

\* A step of request p that puts no chunk.
LEMMA RequestFrame ==
  ASSUME Inv, NEW p \in Requests, TypeOK', UNCHANGED <<store, chunks, offset, got, told>>,
         \A q \in Requests \ {p} : pc'[q] = pc[q] /\ row'[q] = row[q] /\ puts'[q] = puts[q],
         stream'.latest <= Size, puts'[p] = 0, row'[p].latest <= Size,
         pc'[p] = "put" => row'[p].latest <= stream'.latest,
         store = "rows" => stream.latest <= stream'.latest,
         store = "rows" => stream'.latest = stream.latest \/
                           \A q \in Appends \ {p} : pc[q] = "put" => puts[q] = 0
  PROVE  Inv' /\ Grows
  <1> USE DEF Inv
  <1>1. Size' = Size /\ Filled'
    BY DEF Size, Filled, Fills
  <1>2. LatestInv'
    <2>1. row'[p].latest \in Nat
      BY RowTyped DEF TypeOK
    <2>2. row'[p].latest + puts'[p] <= Size
      BY <2>1
    <2> QED BY <1>1, <2>2 DEF LatestInv
  <1>3. RowsInv'
    <2> SUFFICES ASSUME store = "rows", NEW q \in Appends, pc'[q] = "put"
                 PROVE  /\ row'[q].latest <= stream'.latest
                        /\ puts'[q] > 0 => row'[q].latest = stream'.latest /\ Owns(q)'
      BY DEF RowsInv
    <2>1. q \in Requests
      BY DEF Requests
    <2>2. CASE q = p
      BY <2>2
    <2>3. CASE q # p
      <3>1. /\ pc[q] = "put" /\ row'[q] = row[q] /\ puts'[q] = puts[q]
            /\ row[q].latest <= stream.latest
            /\ puts[q] > 0 => row[q].latest = stream.latest /\ Owns(q)
        BY <2>1, <2>3 DEF RowsInv
      <3>2. row[q].latest \in Nat /\ stream.latest \in Nat /\ stream'.latest \in Nat /\ puts[q] \in Nat
        BY <2>1, RowTyped DEF TypeOK
      <3>3. Owns(q) => Owns(q)'
        BY <3>1 DEF Owns
      <3> QED BY <2>3, <3>1, <3>2, <3>3
    <2> QED BY <2>2, <2>3
  <1>4. TailInv' /\ TailFaithful'
    BY <1>1 DEF TailInv, TailFaithful
  <1>5. Grows
    BY DEF Grows
  <1> QED BY <1>1, <1>2, <1>3, <1>4, <1>5

LEMMA EndIs ==
  ASSUME TypeOK, NEW p \in Requests, NEW label \in {"done", "refused", "failed"}, End(p, label)
  PROVE  /\ pc' \in [Requests -> PCs] /\ row' \in [Requests -> Row] /\ puts' \in [Requests -> Nat]
         /\ DOMAIN text' = Requests /\ \A q \in Requests : text'[q] \subseteq Chunk
         /\ \A q \in Requests \ {p} : pc'[q] = pc[q] /\ row'[q] = row[q] /\ puts'[q] = puts[q]
         /\ pc'[p] = label /\ row'[p] = NewStream /\ puts'[p] = 0
  BY RowTyped DEF End, Goto, TypeOK, PCs

\* The steps that end a request and write nothing.
LEMMA EndStep ==
  ASSUME Inv, NEW p \in Requests, NEW label \in {"done", "refused", "failed"}, End(p, label),
         UNCHANGED <<store, calm, stream, chunks, object, messages, tails>>
  PROVE  Inv' /\ Grows
  <1> USE DEF Inv
  <1>1. /\ pc' \in [Requests -> PCs] /\ row' \in [Requests -> Row] /\ puts' \in [Requests -> Nat]
        /\ DOMAIN text' = Requests /\ \A q \in Requests : text'[q] \subseteq Chunk
        /\ \A q \in Requests \ {p} : pc'[q] = pc[q] /\ row'[q] = row[q] /\ puts'[q] = puts[q]
        /\ pc'[p] = label /\ row'[p] = NewStream /\ puts'[p] = 0
    BY EndIs
  <1>2. TypeOK'
    BY <1>1 DEF TypeOK, tails
  <1>3. row'[p].latest <= Size /\ stream.latest <= Size
    BY <1>1, RowTyped DEF LatestInv, Filled
  <1>4. stream.latest \in Nat
    BY RowTyped DEF TypeOK
  <1> QED BY <1>1, <1>2, <1>3, <1>4, RequestFrame DEF tails

LEMMA LoadStep ==
  ASSUME Inv, NEW p \in Requests, Load(p)
  PROVE  Inv' /\ Grows
  <1> USE DEF Inv
  <1>1. FirstStep(p) \in {"put", "snapshot", "assemble", "refused", "done"}
    BY DEF FirstStep, Requests
  <1>2. UNCHANGED <<store, calm, stream, chunks, object, messages, tails>>
    BY DEF Load
  <1>3. CASE FirstStep(p) \in {"refused", "done"} /\ End(p, FirstStep(p))
    BY <1>2, <1>3, EndStep
  <1>4. CASE /\ FirstStep(p) \notin {"refused", "done"} /\ Goto(p, FirstStep(p))
             /\ row' = [row EXCEPT ![p] = stream] /\ UNCHANGED <<puts, text>>
    <2>1. /\ pc' = [pc EXCEPT ![p] = FirstStep(p)] /\ pc \in [Requests -> PCs]
          /\ row \in [Requests -> Row] /\ stream \in Row
      BY <1>4 DEF Goto, TypeOK
    <2>2. pc' \in [Requests -> PCs] /\ row' \in [Requests -> Row]
      BY <1>1, <1>4, <2>1 DEF PCs
    <2>3. TypeOK'
      BY <1>2, <1>4, <2>2 DEF TypeOK, tails
    <2>4. pc[p] = "idle"
      BY DEF Load
    <2>5. puts[p] = 0
      BY <2>4 DEF LatestInv
    <2>6. stream.latest \in Nat /\ stream.latest <= Size
      BY RowTyped DEF TypeOK, LatestInv
    <2> QED BY <1>2, <1>4, <2>1, <2>3, <2>5, <2>6, RequestFrame DEF tails
  <1> QED BY <1>3, <1>4 DEF Load

\* The steps of close and commit before their last.
LEMMA WorkStep ==
  ASSUME Inv, NEW p \in Requests, Snapshot(p) \/ Save(p) \/ Assemble(p) \/ AppendText(p) \/ Reload(p)
  PROVE  Inv' /\ Grows
  <1> USE DEF Inv
  <1>0. /\ pc \in [Requests -> PCs] /\ row \in [Requests -> Row] /\ stream \in Row
        /\ chunks \subseteq Chunk /\ DOMAIN text = Requests /\ \A q \in Requests : text[q] \subseteq Chunk
        /\ object = None \/ object \subseteq Chunk
        /\ DOMAIN messages = Keys /\ \A k \in Keys : messages[k] = None \/ messages[k] \subseteq Chunk
    BY DEF TypeOK
  <1>1. UNCHANGED <<store, calm, stream, chunks, puts, tails>>
    BY DEF Snapshot, Save, Assemble, AppendText, Reload
  <1>2. pc[p] # "put" /\ \E l \in PCs \ {"put"} : pc' = [pc EXCEPT ![p] = l]
    BY DEF Snapshot, Save, Assemble, AppendText, Reload, Goto, PCs
  <1>3. row' = row \/ row' = [row EXCEPT ![p] = stream]
    BY DEF Snapshot, Save, Assemble, AppendText, Reload
  <1>4. text' = text \/ \E T \in SUBSET Chunk : text' = [text EXCEPT ![p] = T]
    <2>1. CASE Snapshot(p)
      <3>1. (IF store = "rows" THEN chunks ELSE {c \in chunks : c.offset <= row[p].latest}) \in SUBSET Chunk
        BY <1>0
      <3> QED BY <2>1, <3>1 DEF Snapshot
    <2>2. CASE Assemble(p)
      <3>1. Assembled(p) \in SUBSET Chunk
        BY <1>0 DEF Assembled
      <3> QED BY <2>2, <3>1 DEF Assemble
    <2>3. CASE Save(p) \/ AppendText(p) \/ Reload(p)
      BY <2>3 DEF Save, AppendText, Reload
    <2> QED BY <2>1, <2>2, <2>3
  <1>5. object' = None \/ object' \subseteq Chunk
    BY <1>0 DEF Snapshot, Save, Assemble, AppendText, Reload
  <1>6. DOMAIN messages' = Keys /\ \A k \in Keys : messages'[k] = None \/ messages'[k] \subseteq Chunk
    <2>1. CASE AppendText(p)
      <3>1. messages' = [messages EXCEPT ![KeyOf[p]] = IF @ = None THEN text[p] ELSE @]
        BY <2>1 DEF AppendText
      <3>2. \A k \in Keys : messages'[k] \in {messages[k], text[p]}
        BY <1>0, <3>1
      <3> QED BY <1>0, <3>1, <3>2
    <2>2. CASE Snapshot(p) \/ Save(p) \/ Assemble(p) \/ Reload(p)
      BY <1>0, <2>2 DEF Snapshot, Save, Assemble, Reload
    <2> QED BY <2>1, <2>2
  <1>7. /\ pc' \in [Requests -> PCs] /\ row' \in [Requests -> Row]
        /\ DOMAIN text' = Requests /\ \A q \in Requests : text'[q] \subseteq Chunk
    <2>1. pc' \in [Requests -> PCs] /\ row' \in [Requests -> Row]
      BY <1>0, <1>2, <1>3
    <2> QED BY <1>0, <1>4, <2>1
  <1>8. TypeOK'
    BY <1>1, <1>5, <1>6, <1>7 DEF TypeOK, tails
  <1>9. /\ \A q \in Requests \ {p} : pc'[q] = pc[q] /\ row'[q] = row[q]
        /\ pc'[p] # "put" /\ row'[p] \in {row[p], stream} /\ puts[p] = 0
    BY <1>0, <1>2, <1>3 DEF LatestInv
  <1>10. row'[p].latest <= Size /\ stream.latest <= Size /\ stream.latest \in Nat
    <2>1. stream.latest <= Size /\ stream.latest \in Nat /\ row[p].latest \in Nat
      BY RowTyped DEF LatestInv, TypeOK
    <2>2. row[p].latest <= Size
      BY <1>9, <2>1 DEF LatestInv
    <2> QED BY <1>9, <2>1, <2>2
  <1> QED BY <1>1, <1>8, <1>9, <1>10, RequestFrame DEF tails

LEMMA NotifyTyped ==
  ASSUME TypeOK, Notify
  PROVE  tail' \in [Tails -> {"poll", "status", "fetch", "wait", "asleep", "eof"}]
  BY DEF Notify, TypeOK

LEMMA FinishStep ==
  ASSUME Inv, NEW p \in Requests, FinishClose(p) \/ FinishCommit(p)
  PROVE  Inv' /\ Grows
  <1> USE DEF Inv
  <1>1. /\ UNCHANGED <<store, calm, chunks, object, messages, offset, got, told>>
        /\ Notify /\ End(p, "done")
    BY DEF FinishClose, FinishCommit
  <1>2. stream' \in Row /\ stream'.latest = stream.latest
    <2>1. CASE FinishClose(p)
      BY <2>1 DEF FinishClose, TypeOK, Row
    <2>2. CASE FinishCommit(p)
      <3>1. KeyOf[p] \in Keys
        BY <2>2 DEF FinishCommit, Keys
      <3> QED BY <2>2, <3>1 DEF FinishCommit, TypeOK, Row
    <2> QED BY <2>1, <2>2
  <1>3. /\ pc' \in [Requests -> PCs] /\ row' \in [Requests -> Row] /\ puts' \in [Requests -> Nat]
        /\ DOMAIN text' = Requests /\ \A q \in Requests : text'[q] \subseteq Chunk
        /\ \A q \in Requests \ {p} : pc'[q] = pc[q] /\ row'[q] = row[q] /\ puts'[q] = puts[q]
        /\ pc'[p] = "done" /\ row'[p] = NewStream /\ puts'[p] = 0
    BY <1>1, EndIs
  <1>4. TypeOK'
    BY <1>1, <1>2, <1>3, NotifyTyped DEF TypeOK
  <1>5. row'[p].latest <= Size /\ stream.latest <= Size /\ stream.latest \in Nat
    BY <1>3, RowTyped DEF LatestInv, Filled, TypeOK
  <1> QED BY <1>1, <1>2, <1>3, <1>4, <1>5, RequestFrame

\* Two appends cannot both have put a chunk on one offset.
LEMMA OneAppendPuts ==
  ASSUME Inv, store = "rows", NEW p \in Appends, pc[p] = "put", puts[p] > 0
  PROVE  \A q \in Appends \ {p} : pc[q] = "put" => puts[q] = 0
  <1> SUFFICES ASSUME NEW q \in Appends \ {p}, pc[q] = "put", puts[q] # 0  PROVE FALSE
    OBVIOUS
  <1>1. puts[q] > 0
    BY DEF Inv, TypeOK, Requests
  <1>2. PICK c \in chunks : c.by = p /\ c.offset = row[p].latest + 1
    BY DEF Inv, RowsInv, Owns
  <1>3. PICK d \in chunks : d.by = q /\ d.offset = row[q].latest + 1
    BY <1>1 DEF Inv, RowsInv, Owns
  <1>4. row[p].latest = row[q].latest
    BY <1>1 DEF Inv, RowsInv
  <1>5. c = d
    BY <1>2, <1>3, <1>4 DEF Inv, Filled, Fills
  <1> QED BY <1>2, <1>3, <1>5

LEMMA FinishAppendStep ==
  ASSUME Inv, NEW p \in Requests, FinishAppend(p)
  PROVE  Inv' /\ Grows
  <1> USE DEF Inv
  <1>1. /\ UNCHANGED <<store, calm, chunks, object, messages, offset, got, told>>
        /\ Notify /\ End(p, "done") /\ p \in Appends /\ pc[p] = "put"
        /\ stream' = [stream EXCEPT !.latest = row[p].latest + puts[p]]
    BY DEF FinishAppend
  <1>2. puts[p] \in Nat /\ puts[p] > 0 /\ row[p].latest \in Nat /\ stream \in Row /\ stream.latest \in Nat
    <2>1. puts[p] \in Nat /\ row[p].latest \in Nat /\ stream \in Row /\ stream.latest \in Nat
      BY RowTyped DEF TypeOK
    <2>2. ChunksOf[p] \in Nat \ {0} /\ ~(puts[p] < ChunksOf[p])
      BY <1>1, ChunksAssumption DEF FinishAppend, More
    <2> QED BY <2>1, <2>2
  <1>3. stream' \in Row /\ stream'.latest = row[p].latest + puts[p]
    BY <1>1, <1>2 DEF Row
  <1>4. /\ pc' \in [Requests -> PCs] /\ row' \in [Requests -> Row] /\ puts' \in [Requests -> Nat]
        /\ DOMAIN text' = Requests /\ \A q \in Requests : text'[q] \subseteq Chunk
        /\ \A q \in Requests \ {p} : pc'[q] = pc[q] /\ row'[q] = row[q] /\ puts'[q] = puts[q]
        /\ pc'[p] = "done" /\ row'[p] = NewStream /\ puts'[p] = 0
    BY <1>1, EndIs
  <1>5. TypeOK'
    BY <1>1, <1>3, <1>4, NotifyTyped DEF TypeOK
  <1>6. row'[p].latest <= Size /\ stream'.latest <= Size
    BY <1>3, <1>4, RowTyped DEF LatestInv, Filled
  <1>7. store = "rows" => stream.latest <= stream'.latest /\ \A q \in Appends \ {p} : pc[q] = "put" => puts[q] = 0
    BY <1>1, <1>2, <1>3, OneAppendPuts DEF RowsInv
  <1> QED BY <1>1, <1>3, <1>4, <1>5, <1>6, <1>7, RequestFrame

(***************************************************************************)
(* A put.                                                                  *)
(***************************************************************************)
LEMMA PutStep ==
  ASSUME Inv, NEW p \in Requests, PutChunk(p)
  PROVE  Inv' /\ Grows
  <1> USE DEF Inv
  <1> DEFINE n == NextOffset(p)
             new == [offset |-> n, by |-> p, n |-> puts[p] + 1]
             rest == {c \in chunks : store = "rows" \/ c.offset # n}
  <1>1. /\ p \in Appends /\ pc[p] = "put"
        /\ store = "rows" => ~Taken(p)
        /\ chunks' = rest \cup {new} /\ puts' = [puts EXCEPT ![p] = @ + 1]
        /\ UNCHANGED <<store, calm, stream, object, messages, pc, row, text, tails>>
    BY DEF PutChunk
  <1>2. /\ Size \in Nat /\ puts \in [Requests -> Nat] /\ puts[p] \in Nat /\ row[p].latest \in Nat
        /\ stream.latest \in Nat /\ chunks \subseteq Chunk
    BY RowTyped DEF TypeOK, Filled
  <1>3. /\ n = row[p].latest + puts[p] + 1 /\ n \in 1 .. Size + 1
        /\ n \in Nat \ {0} /\ new \in Chunk /\ new.offset = n
    <2>1. n = row[p].latest + puts[p] + 1
      BY DEF NextOffset
    <2>2. row[p].latest + puts[p] <= Size
      BY DEF LatestInv
    <2> QED BY <1>1, <1>2, <2>1, <2>2 DEF Chunk
  <1>4. /\ \A c \in chunks : c.offset \in 1 .. Size
        /\ \A k \in 1 .. Size : \E c \in chunks : c.offset = k
        /\ \A c, d \in chunks : c.offset = d.offset => c = d
    <2>1. {c.offset : c \in chunks} = 1 .. Size
      BY DEF Filled, Fills
    <2> QED BY <2>1 DEF Filled, Fills
  <1>5. \A c \in rest : c \in chunks /\ c.offset # n
    BY <1>1 DEF Taken
  <1>6. \A c \in chunks : c.offset = n => store # "rows"
    BY <1>1 DEF Taken
  <1>7. \A c \in chunks : c.offset # n => c \in rest
    OBVIOUS
  <1> HIDE DEF rest, new, n
  <1>8. PICK m \in {Size, Size + 1} : n \in 1 .. m /\ (n = Size + 1 <=> m = Size + 1)
    BY <1>2, <1>3
  <1>9. Fills(chunks', 0, m)
    <2>1. ASSUME NEW c \in chunks'  PROVE c.offset \in 1 .. m
      BY <1>1, <1>2, <1>3, <1>4, <1>5, <1>8
    <2>2. ASSUME NEW k \in 1 .. m  PROVE \E c \in chunks' : c.offset = k
      <3>1. CASE k = n
        BY <1>1, <1>3, <3>1
      <3>2. CASE k # n
        <4>1. k \in 1 .. Size
          BY <1>2, <1>8, <3>2
        <4> QED BY <1>1, <1>4, <1>7, <3>2, <4>1
      <3> QED BY <3>1, <3>2
    <2>3. \A c, d \in chunks' : c.offset = d.offset => c = d
      BY <1>1, <1>3, <1>4, <1>5
    <2>4. {c.offset : c \in chunks'} = 1 .. m
      BY <2>1, <2>2
    <2> QED BY <2>3, <2>4 DEF Fills
  <1>10. m \in Nat /\ Size' = m /\ Size <= m
    <2>1. m \in Nat /\ Size <= m
      BY <1>2
    <2>2. Fills(chunks', 0, 0 + m)
      BY <1>9, <2>1
    <2>3. Cardinality(chunks') = m
      BY <2>1, <2>2, FillsCardinality
    <2> QED BY <2>1, <2>3 DEF Size
  <1>11. Filled'
    BY <1>9, <1>10 DEF Filled
  <1>12. TypeOK'
    <2>1. chunks' \subseteq Chunk
      BY <1>1, <1>2, <1>3, <1>5
    <2>2. puts' \in [Requests -> Nat]
      BY <1>1, <1>2
    <2> QED BY <1>1, <2>1, <2>2 DEF TypeOK, tails
  <1>13. LatestInv'
    <2>1. row[p].latest + puts'[p] <= m /\ puts'[p] = puts[p] + 1
      BY <1>1, <1>2, <1>3, <1>8
    <2>2. \A q \in Requests \ {p} : puts'[q] = puts[q]
      BY <1>1, <1>2
    <2>3. \A q \in Requests : row[q].latest + puts[q] \in Nat
      BY RowTyped DEF TypeOK
    <2>4. \A t \in Tails : told[t].latest \in Nat
      BY RowTyped DEF TypeOK
    <2> QED BY <1>1, <1>2, <1>10, <2>1, <2>2, <2>3, <2>4 DEF LatestInv, tails
  <1>14. ASSUME store = "rows"  PROVE chunks \subseteq chunks'
    BY <1>1, <1>6, <1>7, <1>14
  <1>15. RowsInv'
    <2> SUFFICES ASSUME store = "rows", NEW q \in Appends, pc[q] = "put"
                 PROVE  /\ row[q].latest <= stream.latest
                        /\ puts'[q] > 0 => row[q].latest = stream.latest /\ Owns(q)'
      BY <1>1 DEF RowsInv
    <2>1. row[q].latest <= stream.latest /\ (puts[q] > 0 => row[q].latest = stream.latest /\ Owns(q))
      BY DEF RowsInv
    <2>2. Owns(q) => Owns(q)'
      BY <1>1, <1>14 DEF Owns
    <2>3. CASE q # p \/ puts[q] > 0
      BY <1>1, <1>2, <2>1, <2>2, <2>3 DEF Requests
    <2>4. CASE q = p /\ puts[p] = 0
      <3>1. n = row[p].latest + 1 /\ n = Size + 1
        <4>1. \A c \in chunks : c.offset # n
          BY <1>6
        <4> QED BY <1>2, <1>3, <1>4, <2>4, <4>1
      <3>2. stream.latest <= Size
        BY DEF LatestInv
      <3>3. row[p].latest = stream.latest
        BY <1>2, <2>1, <2>4, <3>1, <3>2
      <3>4. Owns(p)'
        BY <1>1, <1>3, <3>1 DEF Owns, new
      <3> QED BY <2>1, <2>4, <3>3, <3>4
    <2> QED BY <1>2, <2>3, <2>4
  <1>16. TailInv' /\ TailFaithful'
    <2>1. TailInv'
      BY <1>1, <1>2, <1>10 DEF TailInv, TypeOK, tails
    <2>2. TailFaithful'
      BY <1>1, <1>14 DEF TailFaithful, tails
    <2> QED BY <2>1, <2>2
  <1>17. Grows
    BY <1>1, <1>2, <1>14 DEF Grows
  <1> QED BY <1>11, <1>12, <1>13, <1>15, <1>16, <1>17

(***************************************************************************)
(* Tails.                                                                  *)
(***************************************************************************)
\* What a tail does to no chunk and no request.
LEMMA TailFrame ==
  ASSUME Inv, TypeOK', UNCHANGED <<store, stream, chunks, requests>>,
         \A t \in Tails : told'[t].latest <= Size,
         TailInv', TailFaithful'
  PROVE  Inv' /\ Grows
  <1> USE DEF Inv
  <1>1. Size' = Size /\ Filled'
    BY DEF Size, Filled, Fills
  <1>2. LatestInv' /\ RowsInv'
    BY <1>1 DEF LatestInv, RowsInv, Owns, requests
  <1>3. Grows
    BY RowTyped DEF Grows, TypeOK
  <1> QED BY <1>1, <1>2, <1>3

\* The chunks a tail has not seen, of those up to an offset, are the next ones.
LEMMA FreshFills ==
  ASSUME Filled, NEW lo \in Nat, NEW hi \in Nat, hi <= Size,
         NEW S, S = {c \in chunks : c.offset <= hi /\ c.offset > lo}, S # {}
  PROVE  hi > lo /\ Fills(S, lo, hi)
  <1>1. {c.offset : c \in chunks} = 1 .. Size /\ Size \in Nat
    BY DEF Filled, Fills
  <1>2. PICK e \in chunks : e.offset <= hi /\ e.offset > lo
    OBVIOUS
  <1>3. hi > lo
    BY <1>1, <1>2
  <1>4. {c.offset : c \in S} = lo + 1 .. hi
    <2>1. ASSUME NEW c \in S  PROVE c.offset \in lo + 1 .. hi
      BY <1>1
    <2>2. ASSUME NEW k \in lo + 1 .. hi  PROVE \E c \in S : c.offset = k
      <3>1. k \in 1 .. Size
        BY <1>1
      <3>2. PICK c \in chunks : c.offset = k
        BY <1>1, <3>1
      <3> QED BY <3>2
    <2> QED BY <2>1, <2>2
  <1>5. \A c, d \in S : c.offset = d.offset => c = d
    BY DEF Filled, Fills
  <1> QED BY <1>3, <1>4, <1>5 DEF Fills

LEMMA DeliverStep ==
  ASSUME Inv, NEW t \in Tails, NEW hi \in Nat, hi <= Size,
         NEW S, S = {c \in chunks : c.offset <= hi /\ c.offset > offset[t]}, Deliver(t, S)
  PROVE  /\ offset' \in [Tails -> Nat] /\ got' \in [Tails -> Seq(Chunk)]
         /\ tail' = [tail EXCEPT ![t] = "poll"]
         /\ \A u \in Tails : /\ Len(got'[u]) = offset'[u] /\ offset'[u] <= Size
                             /\ \A k \in DOMAIN got'[u] :
                                   /\ got'[u][k].offset = k
                                   /\ store = "rows" => got'[u][k] \in chunks
         /\ offset'[t] = hi
         /\ \A u \in Tails \ {t} : got'[u] = got[u] /\ offset'[u] = offset[u]
         /\ (\A k \in DOMAIN got[t] : got[t][k] \in chunks) => \A k \in DOMAIN got'[t] : got'[t][k] \in chunks
  <1> USE DEF Inv
  <1> DEFINE lo == offset[t]
             l == hi - lo
             o == InOrder(S)
  <1>1. /\ offset \in [Tails -> Nat] /\ got \in [Tails -> Seq(Chunk)] /\ lo \in Nat
        /\ S \subseteq Chunk /\ S \subseteq chunks
    BY DEF TypeOK
  <1>2. /\ S # {} /\ got' = [got EXCEPT ![t] = @ \o o]
        /\ offset' = [offset EXCEPT ![t] = Max({c.offset : c \in S})]
        /\ tail' = [tail EXCEPT ![t] = "poll"]
    BY DEF Deliver
  <1>3. hi > lo /\ Fills(S, lo, hi)
    BY <1>1, <1>2, FreshFills
  <1>4. l \in Nat \ {0} /\ lo + l = hi
    BY <1>1, <1>3
  <1> HIDE DEF lo, l
  <1>5. /\ o \in [1 .. l -> S] /\ \A k \in 1 .. l : o[k].offset = lo + k
    <2>1. lo \in Nat /\ l \in Nat /\ Fills(S, lo, lo + l)
      BY <1>1, <1>3, <1>4
    <2>2. Lists(InOrder(S), S, lo, l)
      BY <2>1, InOrderFills
    <2> QED BY <2>2 DEF Lists
  <1>6. Max({c.offset : c \in S}) = hi
    BY <1>1, <1>3, <1>4, MaxFills
  <1> HIDE DEF o
  <1>7. o \in Seq(Chunk) /\ Len(o) = l
    <2>1. o \in Seq(S)
      BY <1>4, <1>5, IsASeq
    <2>2. DOMAIN o = 1 .. l
      BY <1>5
    <2>3. Seq(S) \subseteq Seq(Chunk)
      BY <1>1, SeqMonotonic
    <2> QED BY <1>4, <2>1, <2>2, <2>3, LenProperties
  <1>8. got[t] \in Seq(Chunk) /\ Len(got[t]) = lo
    BY <1>1 DEF TailInv, lo
  <1> DEFINE g == got[t] \o o
  <1>9. /\ g \in Seq(Chunk) /\ Len(g) = hi
        /\ \A k \in 1 .. hi : g[k] = IF k <= lo THEN got[t][k] ELSE o[k - lo]
    <2>1. /\ g \in Seq(Chunk) /\ Len(g) = lo + l
          /\ \A k \in 1 .. lo + l : g[k] = IF k <= lo THEN got[t][k] ELSE o[k - lo]
      BY <1>7, <1>8, ConcatProperties
    <2>2. lo + l = hi
      BY <1>1, <1>4
    <2> QED BY <2>1, <2>2
  <1> HIDE DEF g
  <1>10. /\ got' \in [Tails -> Seq(Chunk)] /\ got'[t] = g
         /\ \A u \in Tails \ {t} : got'[u] = got[u] /\ offset'[u] = offset[u]
         /\ offset' \in [Tails -> Nat] /\ offset'[t] = hi
    BY <1>1, <1>2, <1>6, <1>9 DEF g
  <1>11. ASSUME NEW k \in DOMAIN g
         PROVE  /\ g[k].offset = k /\ (store = "rows" => g[k] \in chunks)
                /\ (\A j \in DOMAIN got[t] : got[t][j] \in chunks) => g[k] \in chunks
    <2>1. k \in 1 .. hi
      BY <1>9, LenProperties
    <2>2. CASE k <= lo
      <3>1. k \in DOMAIN got[t]
        BY <1>1, <1>8, <2>1, <2>2, LenProperties
      <3> QED BY <1>9, <2>1, <2>2, <3>1 DEF TailFaithful
    <2>3. CASE k > lo
      <3>1. k - lo \in 1 .. l /\ lo + (k - lo) = k /\ ~(k <= lo)
        BY <1>1, <1>4, <2>1, <2>3
      <3> QED BY <1>1, <1>5, <1>9, <2>1, <3>1
    <2> QED BY <1>1, <2>1, <2>2, <2>3
  <1>12. ASSUME NEW u \in Tails, u # t
         PROVE  /\ Len(got[u]) = offset[u] /\ offset[u] <= Size
                /\ \A k \in DOMAIN got[u] : /\ got[u][k].offset = k
                                            /\ store = "rows" => got[u][k] \in chunks
    BY DEF TailInv, TailFaithful
  <1>13. \A u \in Tails \ {t} : got'[u] = got[u] /\ offset'[u] = offset[u]
    BY <1>10
  <1>14. ASSUME NEW u \in Tails
         PROVE  /\ Len(got'[u]) = offset'[u] /\ offset'[u] <= Size
                /\ \A k \in DOMAIN got'[u] : /\ got'[u][k].offset = k
                                             /\ store = "rows" => got'[u][k] \in chunks
    <2>1. CASE u = t
      BY <1>9, <1>10, <1>11, <2>1
    <2>2. CASE u # t
      BY <1>12, <1>13, <2>2
    <2> QED BY <2>1, <2>2
  <1> QED BY <1>2, <1>10, <1>11, <1>14

LEMMA PollStep ==
  ASSUME Inv, NEW t \in Tails, PollRows(t) \/ FetchBlobs(t)
  PROVE  Inv' /\ Grows
  <1> USE DEF Inv
  <1>1. UNCHANGED <<store, calm, stream, chunks, object, messages, requests, told>>
    BY DEF PollRows, FetchBlobs
  <1>2. Size \in Nat /\ told[t].latest \in Nat /\ told[t].latest <= Size
    BY RowTyped DEF Filled, LatestInv, TypeOK
  <1>3. /\ Fresh(t, chunks) = {c \in chunks : c.offset <= Size /\ c.offset > offset[t]}
        /\ Fresh(t, Counted(t)) = {c \in chunks : c.offset <= told[t].latest /\ c.offset > offset[t]}
    <2>1. \A c \in chunks : c.offset <= Size
      BY <1>2 DEF Filled, Fills
    <2> QED BY <2>1 DEF Fresh, Counted
  <1>4. CASE Deliver(t, Fresh(t, chunks)) \/ Deliver(t, Fresh(t, Counted(t)))
    <2>1. PICK hi \in Nat : /\ hi <= Size
                            /\ Deliver(t, {c \in chunks : c.offset <= hi /\ c.offset > offset[t]})
      <3>1. CASE Deliver(t, Fresh(t, chunks))
        <4>1. Size <= Size
          BY <1>2
        <4> QED BY <1>2, <1>3, <3>1, <4>1
      <3>2. CASE Deliver(t, Fresh(t, Counted(t)))
        BY <1>2, <1>3, <3>2
      <3> QED BY <1>4, <3>1, <3>2
    <2>2. /\ offset' \in [Tails -> Nat] /\ got' \in [Tails -> Seq(Chunk)]
          /\ tail' = [tail EXCEPT ![t] = "poll"]
          /\ \A u \in Tails : /\ Len(got'[u]) = offset'[u] /\ offset'[u] <= Size
                              /\ \A k \in DOMAIN got'[u] :
                                    /\ got'[u][k].offset = k
                                    /\ store = "rows" => got'[u][k] \in chunks
      BY <2>1, DeliverStep
    <2>3. TypeOK'
      BY <1>1, <2>2 DEF TypeOK, requests
    <2>4. TailInv' /\ TailFaithful'
      BY <1>1, <2>2 DEF TailInv, TailFaithful, Size
    <2> QED BY <1>1, <2>3, <2>4, TailFrame DEF LatestInv
  <1>5. CASE /\ UNCHANGED <<offset, got>>
             /\ \E l \in {"status", "wait", "eof"} : tail' = [tail EXCEPT ![t] = l]
    <2>1. TypeOK'
      BY <1>1, <1>5 DEF TypeOK, requests
    <2>2. TailInv' /\ TailFaithful'
      BY <1>1, <1>5 DEF TailInv, TailFaithful, Size
    <2> QED BY <1>1, <2>1, <2>2, TailFrame DEF LatestInv
  <1> QED BY <1>4, <1>5 DEF PollRows, FetchBlobs

LEMMA WatchStep ==
  ASSUME Inv, NEW t \in Tails, ReadStatus(t) \/ LoadRow(t) \/ Sleep(t) \/ Timeout(t)
  PROVE  Inv' /\ Grows
  <1> USE DEF Inv
  <1>1. /\ UNCHANGED <<store, calm, stream, chunks, object, messages, requests, offset, got>>
        /\ told' = told \/ told' = [told EXCEPT ![t] = stream]
        /\ \E l \in {"wait", "eof", "fetch", "asleep", "poll"} : tail' = [tail EXCEPT ![t] = l]
    BY DEF ReadStatus, LoadRow, Sleep, Timeout
  <1>2. told' \in [Tails -> Row] /\ \A u \in Tails : told'[u].latest <= Size
    BY <1>1 DEF TypeOK, LatestInv
  <1>3. TypeOK'
    BY <1>1, <1>2 DEF TypeOK, requests
  <1>4. TailInv' /\ TailFaithful'
    BY <1>1 DEF TailInv, TailFaithful, Size
  <1> QED BY <1>1, <1>2, <1>3, <1>4, TailFrame

(***************************************************************************)
(* The theorems.                                                           *)
(***************************************************************************)
LEMMA InvStep == Inv /\ [Next]_vars => Inv' /\ Grows
  <1> SUFFICES ASSUME Inv, [Next]_vars  PROVE Inv' /\ Grows
    OBVIOUS
  <1>1. ASSUME NEW p \in Requests, Load(p)  PROVE Inv' /\ Grows
    BY <1>1, LoadStep
  <1>2. ASSUME NEW p \in Requests, Step(p)  PROVE Inv' /\ Grows
    <2>1. CASE PutConflict(p)
      BY <2>1, EndStep DEF PutConflict
    <2>2. CASE AppendDenied(p)
      BY <2>2, EndStep DEF AppendDenied
    <2> QED BY <1>2, <2>1, <2>2, PutStep, FinishAppendStep, WorkStep, FinishStep DEF Step
  <1>3. ASSUME NEW p \in Requests, Fail(p)  PROVE Inv' /\ Grows
    BY <1>3, EndStep DEF Fail
  <1>4. ASSUME NEW t \in Tails, Watch(t)  PROVE Inv' /\ Grows
    BY <1>4, PollStep, WatchStep DEF Watch
  <1>5. CASE UNCHANGED vars
    <2>1. UNCHANGED <<store, calm, stream, chunks, object, messages, pc, row, puts, text,
                      tail, offset, got, told>>
      BY <1>5 DEF vars, requests, tails
    <2>2. TypeOK' /\ TailInv' /\ TailFaithful'
      BY <2>1 DEF Inv, TypeOK, TailInv, TailFaithful, Size
    <2> QED BY <2>1, <2>2, TailFrame DEF Inv, LatestInv, requests
  <1> QED BY <1>1, <1>2, <1>3, <1>4, <1>5 DEF Next

THEOREM Invariance == Spec => []Inv
  <1>1. Inv /\ [Next]_vars => Inv'
    BY InvStep
  <1> QED BY <1>1, InvInit, PTL DEF Spec

\* GET /tail, on either plugin: whatever the requests do and however they
\* fail, a tail receives the offsets 1, 2, 3 ... each once; on the rows plugin
\* what it received is never replaced.
THEOREM TailsAreSound == Spec => []TailSound
  <1>1. Inv => TailSound
    BY DEF Inv, TailSound
  <1> QED BY <1>1, Invariance, PTL

\* POST /chunks on the rows plugin: the unique index on the offset is enough
\* to keep overlapping appends from overlapping or leaving a hole, and
\* latest_offset from going back.
THEOREM RowsAreContiguous == Spec => RowsStayContiguous
  <1>1. ASSUME Inv, [Next]_vars, store = "rows"
        PROVE  /\ {c.offset : c \in chunks'} = 1 .. Cardinality(chunks')
               /\ chunks \subseteq chunks'
               /\ stream'.latest \in stream.latest .. Cardinality(chunks')
    <2>1. Inv' /\ Grows
      BY <1>1, InvStep
    <2>2. /\ {c.offset : c \in chunks'} = 1 .. Cardinality(chunks')
          /\ Cardinality(chunks') \in Nat /\ stream'.latest <= Cardinality(chunks')
      BY <2>1 DEF Inv, Filled, Fills, Size, LatestInv
    <2>3. stream.latest \in Nat /\ stream'.latest \in Nat
      BY <1>1, <2>1, RowTyped DEF Inv, TypeOK
    <2> QED BY <1>1, <2>1, <2>2, <2>3 DEF Grows
  <1>2. Inv /\ [Next]_vars =>
          [store = "rows" =>
             /\ {c.offset : c \in chunks'} = 1 .. Cardinality(chunks')
             /\ chunks \subseteq chunks'
             /\ stream'.latest \in stream.latest .. Cardinality(chunks')]_vars
    BY <1>1
  <1> QED BY <1>2, Invariance, PTL DEF Spec, RowsStayContiguous

(***************************************************************************)
(* Requests one after the other: the invariant.                            *)
(***************************************************************************)
\* One request runs, on a copy of the row that is true.
AloneInv ==
    /\ \A p, q \in Requests : Running(p) /\ Running(q) => p = q
    /\ \A p \in Requests : Running(p) => row[p] = stream

\* Whose chunks there are: those an append is putting come after
\* latest_offset, those it has acknowledged do not.
PutsInv ==
    /\ \A c \in chunks :
          /\ pc[c.by] # "idle"
          /\ pc[c.by] = "put" => c.offset \in stream.latest + 1 .. row[c.by].latest + puts[c.by]
          /\ pc[c.by] = "done" => c.offset <= stream.latest
    /\ \A p \in Requests : pc[p] = "put" => p \in Appends /\ stream.status = "open"

\* A stream with a message or a backup is not open.
StatusInv ==
    /\ stream.committed # None \/ stream.backup => stream.status # "open"
    /\ stream.committed \in Keys \cup {None}
    /\ stream.backup => store = "rows"
    /\ \A p \in Requests :
          /\ pc[p] \in {"snapshot", "save", "finish"} => p \in Closes \cup Commits
          /\ pc[p] \in {"assemble", "append", "reload"} => p \in Commits
          /\ pc[p] \in {"assemble", "append"} => stream.committed = None

Holds(S) == Acknowledged \subseteq S
Written(p) == p \in Commits /\ pc[p] \in {"reload", "snapshot", "save", "finish"}

\* What S lacks was acknowledged after it, and so will be: on the rows plugin a
\* chunk of S past latest_offset blocks the appends that have still to put one.
Blocks(d) == store = "rows" /\ d \in chunks /\ \A p \in Appends : pc[p] = "put" => puts[p] = 0
Early(S) ==
    /\ \A c \in Acknowledged \ S : \A d \in S : d.offset < c.offset
    /\ \A d \in S : d.offset <= stream.latest \/ Blocks(d)

\* A message is complete, or a commit under its key has failed; it is there
\* only when a commit has been past it.
Stands(k) ==
    /\ Early(messages[k])
    /\ Holds(messages[k]) \/ Lost(k)
    /\ stream.committed # None \/ Lost(k) \/ \E p \in Requests : Written(p) /\ KeyOf[p] = k

\* What is written on the way to a message and a backup is complete.
KeptInv ==
    /\ stream.committed # None => Stands(stream.committed)
    /\ stream.backup => Holds(object)
    /\ \A p \in Requests :
          /\ pc[p] \in {"append", "save"} => Holds(text[p])
          /\ pc[p] = "append" => Early(text[p])
          /\ pc[p] = "finish" /\ store = "rows" => Holds(object)
          /\ Written(p) => Stands(KeyOf[p])
    /\ \A k \in Keys : messages[k] # None => Stands(k)

\* On the blob plugin what a tail has seen is below latest_offset, and stays.
BlobInv ==
    store = "blobs" => \A t \in Tails :
        /\ told[t].latest <= stream.latest /\ offset[t] <= stream.latest
        /\ \A k \in DOMAIN got[t] : got[t][k] \in chunks
        /\ told[t].status # "open" => stream.status # "open" /\ told[t].latest = stream.latest
        /\ tail[t] = "eof" => stream.status # "open" /\ offset[t] = stream.latest

CalmInv ==
    calm => AloneInv /\ PutsInv /\ StatusInv /\ BlobInv /\ KeptInv

LEMMA CalmInit == Init => CalmInv
  <1> SUFFICES ASSUME Init  PROVE CalmInv
    OBVIOUS
  <1>1. \A p \in Requests : ~Running(p)
    BY DEF Init, Running
  <1>2. stream.committed = None /\ stream.backup = FALSE /\ stream.status = "open" /\ stream.latest = 0
    BY DEF Init, NewStream
  <1>3. AloneInv /\ PutsInv /\ StatusInv
    BY <1>1, <1>2 DEF Init, AloneInv, PutsInv, StatusInv
  <1>4. BlobInv
    BY <1>2 DEF Init, BlobInv, NewStream
  <1>5. KeptInv
    BY <1>2 DEF Init, KeptInv, Written
  <1> QED BY <1>3, <1>4, <1>5 DEF CalmInv

\* The others rest, and what p has loaded is still so.
LEMMA Solo ==
  ASSUME CalmInv, calm, NEW p \in Requests, Running(p)
  PROVE  /\ row[p] = stream
         /\ \A q \in Requests \ {p} : pc[q] \in {"idle", "done", "refused", "failed"}
  BY DEF CalmInv, AloneInv, Running

\* BlobInv outlives the steps of requests that touch nothing below latest_offset.
LEMMA BlobFrame ==
  ASSUME Inv, BlobInv, UNCHANGED <<store, offset, got, told>>, tail' = tail \/ Notify,
         stream.latest <= stream'.latest, stream'.latest \in Nat,
         stream.status # "open" => stream'.status # "open" /\ stream'.latest = stream.latest,
         \A c \in chunks : c.offset <= stream.latest => c \in chunks'
  PROVE  BlobInv'
  <1> SUFFICES ASSUME store = "blobs", NEW t \in Tails
               PROVE  /\ told[t].latest <= stream'.latest /\ offset[t] <= stream'.latest
                      /\ \A k \in DOMAIN got[t] : got[t][k] \in chunks'
                      /\ told[t].status # "open" => stream'.status # "open" /\ told[t].latest = stream'.latest
                      /\ tail'[t] = "eof" => stream'.status # "open" /\ offset[t] = stream'.latest
    BY DEF BlobInv
  <1>1. /\ told[t].latest \in Nat /\ offset[t] \in Nat /\ stream.latest \in Nat
        /\ got[t] \in Seq(Chunk) /\ Len(got[t]) = offset[t]
    BY RowTyped DEF Inv, TypeOK, TailInv
  <1>2. tail'[t] = "eof" => tail[t] = "eof"
    BY DEF Notify, Inv, TypeOK
  <1>3. ASSUME NEW k \in DOMAIN got[t]  PROVE got[t][k] \in chunks'
    <2>1. k \in 1 .. offset[t]
      BY <1>1, LenProperties
    <2>2. got[t][k] \in chunks /\ got[t][k].offset = k
      BY DEF BlobInv, Inv, TailFaithful
    <2>3. k <= stream.latest
      BY <1>1, <2>1 DEF BlobInv
    <2> QED BY <2>2, <2>3
  <1> QED BY <1>1, <1>2, <1>3 DEF BlobInv

\* A request that ends and writes nothing.
LEMMA CalmEndStep ==
  ASSUME Inv, CalmInv, NEW p \in Requests, NEW label \in {"done", "refused", "failed"}, End(p, label),
         UNCHANGED <<store, calm, stream, chunks, object, messages, tails>>,
         pc[p] \notin {"done", "refused", "failed"},
         label = "done" => p \notin Appends,
         Written(p) => label = "failed"
  PROVE  CalmInv'
  <1> SUFFICES ASSUME calm  PROVE CalmInv'
    BY DEF CalmInv
  <1> USE DEF Inv
  <1>1. /\ pc' \in [Requests -> PCs] /\ row' \in [Requests -> Row] /\ puts' \in [Requests -> Nat]
        /\ DOMAIN text' = Requests /\ \A q \in Requests : text'[q] \subseteq Chunk
        /\ \A q \in Requests \ {p} : pc'[q] = pc[q] /\ row'[q] = row[q] /\ puts'[q] = puts[q]
        /\ pc'[p] = label /\ row'[p] = NewStream /\ puts'[p] = 0
    BY EndIs
  <1>2. /\ AloneInv /\ PutsInv /\ StatusInv /\ BlobInv /\ KeptInv
        /\ UNCHANGED <<tail, offset, got, told>>
    BY DEF CalmInv, tails
  <1>3. AloneInv'
    BY <1>1, <1>2 DEF AloneInv, Running
  <1>4. \A c \in chunks : c.by \in Appends /\ c.by \in Requests
    BY DEF TypeOK, Chunk, Requests
  <1>5. PutsInv'
    BY <1>1, <1>2, <1>4 DEF PutsInv
  <1>6. StatusInv'
    BY <1>1, <1>2 DEF StatusInv
  <1>7. BlobInv'
    BY <1>2 DEF BlobInv
  <1>8. Acknowledged' \subseteq Acknowledged
    BY <1>1, <1>4 DEF Acknowledged
  <1>9. KeptInv'
    <2>1. \A q \in Requests \ {p} : text'[q] = text[q]
      BY DEF End, TypeOK
    <2>2. \A q \in Requests \ {p} : Written(q)' <=> Written(q)
      BY <1>1 DEF Written
    <2>3. ~Written(p)' /\ (Written(p) => Lost(KeyOf[p])')
      BY <1>1 DEF Written, Lost
    <2>4. \A k : Lost(k) => Lost(k)'
      BY <1>1 DEF Lost, Requests
    <2>5. \A S : Holds(S) => Holds(S)'
      BY <1>8 DEF Holds
    <2>6. \A S : Early(S) => Early(S)'
      <3>1. \A d : Blocks(d) => Blocks(d)'
        BY <1>1 DEF Blocks, Requests
      <3> QED BY <1>8, <3>1 DEF Early
    <2>7. \A k : Stands(k) => Stands(k)'
      BY <1>2, <2>2, <2>3, <2>4, <2>5, <2>6 DEF Stands
    <2> QED BY <1>1, <1>2, <2>1, <2>2, <2>3, <2>5, <2>6, <2>7 DEF KeptInv
  <1> QED BY <1>3, <1>5, <1>6, <1>7, <1>9 DEF CalmInv

LEMMA CalmLoadStep ==
  ASSUME Inv, CalmInv, NEW p \in Requests, Load(p)
  PROVE  CalmInv'
  <1> SUFFICES ASSUME calm  PROVE CalmInv'
    BY DEF CalmInv, Load
  <1> USE DEF Inv
  <1>1. /\ UNCHANGED <<store, calm, stream, chunks, object, messages, tail, offset, got, told>>
        /\ pc[p] = "idle" /\ \A q \in Requests : ~Running(q)
    BY DEF Load, tails
  <1>2. CASE FirstStep(p) \in {"refused", "done"} /\ End(p, FirstStep(p))
    <2>1. FirstStep(p) = "done" => p \notin Appends
      BY ChunksAssumption DEF FirstStep
    <2>2. ~Written(p)
      BY <1>1 DEF Written
    <2> QED BY <1>1, <1>2, <2>1, <2>2, CalmEndStep DEF tails
  <1>3. CASE /\ FirstStep(p) \notin {"refused", "done"} /\ Goto(p, FirstStep(p))
             /\ row' = [row EXCEPT ![p] = stream] /\ UNCHANGED <<puts, text>>
    <2>1. /\ FirstStep(p) = "put" => p \in Appends /\ stream.status = "open"
          /\ FirstStep(p) = "snapshot" => p \in Closes
          /\ FirstStep(p) = "assemble" => p \in Commits /\ stream.committed = None
          /\ FirstStep(p) \in {"put", "snapshot", "assemble"}
      BY <1>3 DEF FirstStep, Requests
    <2>2. /\ \A q \in Requests \ {p} : pc'[q] = pc[q] /\ row'[q] = row[q]
          /\ pc'[p] = FirstStep(p) /\ row'[p] = stream
      BY <1>3 DEF Goto, TypeOK
    <2>3. \A q \in Requests : pc[q] \in {"idle", "done", "refused", "failed"}
      BY <1>1 DEF Running
    <2>4. /\ AloneInv /\ PutsInv /\ StatusInv /\ BlobInv /\ KeptInv
      BY DEF CalmInv
    <2>5. AloneInv'
      BY <1>1, <2>2, <2>3 DEF AloneInv, Running
    <2>6. \A c \in chunks : c.by \in Requests /\ c.by # p
      BY <1>1, <2>4 DEF TypeOK, Chunk, Requests, PutsInv
    <2>7. PutsInv'
      BY <1>1, <1>3, <2>1, <2>2, <2>3, <2>4, <2>6 DEF PutsInv
    <2>8. StatusInv'
      BY <1>1, <2>1, <2>2, <2>3, <2>4 DEF StatusInv
    <2>9. BlobInv'
      BY <1>1, <2>4 DEF BlobInv
    <2>10. KeptInv'
      <3>1. Acknowledged' = Acknowledged
        BY <1>1, <2>2, <2>6 DEF Acknowledged
      <3>2. \A q \in Requests : ~Written(q) /\ ~Written(q)'
        BY <2>1, <2>2, <2>3, ChunksAssumption DEF Written, Requests
      <3>3. \A q \in Requests : pc'[q] \notin {"append", "save", "finish"}
        BY <2>1, <2>2, <2>3
      <3>4. \A S : Early(S) => Early(S)'
        <4>1. \A q \in Requests : pc[q] # "put" => puts[q] = 0
          BY DEF LatestInv
        <4>2. \A d : Blocks(d) => Blocks(d)'
          BY <1>1, <1>3, <2>3, <4>1 DEF Blocks, Requests
        <4> QED BY <1>1, <3>1, <4>2 DEF Early
      <3>5. \A k : Lost(k) => Lost(k)'
        BY <1>1, <2>2 DEF Lost, Requests
      <3>6. \A k : Stands(k) => Stands(k)'
        BY <1>1, <3>1, <3>2, <3>4, <3>5 DEF Stands, Holds
      <3> QED BY <1>1, <2>4, <3>1, <3>2, <3>3, <3>6 DEF KeptInv, Holds
    <2> QED BY <2>5, <2>7, <2>8, <2>9, <2>10 DEF CalmInv
  <1> QED BY <1>2, <1>3 DEF Load

LEMMA CalmPutStep ==
  ASSUME Inv, CalmInv, NEW p \in Requests, PutChunk(p)
  PROVE  CalmInv'
  <1> SUFFICES ASSUME calm  PROVE CalmInv'
    BY DEF CalmInv, PutChunk
  <1> USE DEF Inv
  <1> DEFINE n == NextOffset(p)
             new == [offset |-> n, by |-> p, n |-> puts[p] + 1]
  <1>1. /\ p \in Appends /\ pc[p] = "put"
        /\ chunks' = {c \in chunks : store = "rows" \/ c.offset # n} \cup {new}
        /\ puts' = [puts EXCEPT ![p] = @ + 1]
        /\ UNCHANGED <<store, calm, stream, object, messages, pc, row, text, tail, offset, got, told>>
    BY DEF PutChunk, tails
  <1>2. /\ row[p] = stream
        /\ \A q \in Requests \ {p} : pc[q] \in {"idle", "done", "refused", "failed"}
    BY <1>1, Solo DEF Running
  <1>3. /\ puts \in [Requests -> Nat] /\ puts[p] \in Nat /\ stream.latest \in Nat
        /\ n = stream.latest + puts[p] + 1
    BY <1>2, RowTyped DEF TypeOK, NextOffset
  <1>4. new.offset = n /\ new.by = p
    OBVIOUS
  <1> HIDE DEF new, n
  <1>5. /\ \A c \in chunks' : c = new \/ c \in chunks
        /\ \A c \in chunks : c.offset <= stream.latest => c \in chunks'
        /\ \A c \in chunks : c.offset \in Nat /\ c.by \in Requests
    <2>1. \A c \in chunks : c.offset \in Nat /\ c.by \in Requests
      BY DEF TypeOK, Chunk, Requests
    <2>2. \A c \in chunks : c.offset <= stream.latest => c.offset # n
      BY <1>3, <2>1
    <2> QED BY <1>1, <2>1, <2>2
  <1>6. /\ AloneInv /\ PutsInv /\ StatusInv /\ BlobInv /\ KeptInv
    BY DEF CalmInv
  <1>7. AloneInv' /\ StatusInv'
    BY <1>1, <1>6 DEF AloneInv, StatusInv, Running
  <1>8. PutsInv'
    <2>1. puts'[p] = puts[p] + 1
      BY <1>1, <1>3
    <2>2. ASSUME NEW c \in chunks'
          PROVE  /\ pc[c.by] # "idle"
                 /\ pc[c.by] = "put" => c.offset \in stream.latest + 1 .. row[c.by].latest + puts'[c.by]
                 /\ pc[c.by] = "done" => c.offset <= stream.latest
      <3>1. CASE c = new
        BY <1>1, <1>2, <1>3, <1>4, <2>1, <3>1
      <3>2. CASE c # new
        <4>1. c \in chunks /\ c.by \in Requests /\ c.offset \in Nat
          BY <1>5, <3>2
        <4>2. CASE pc[c.by] = "put"
          <5>1. c.by = p
            BY <1>2, <4>1, <4>2
          <5>2. c.offset \in stream.latest + 1 .. stream.latest + puts[p]
            BY <1>2, <1>6, <4>1, <4>2, <5>1 DEF PutsInv
          <5> QED BY <1>1, <1>2, <1>3, <2>1, <5>1, <5>2
        <4> QED BY <1>6, <4>1, <4>2 DEF PutsInv
      <3> QED BY <3>1, <3>2
    <2> QED BY <1>1, <1>6, <2>2 DEF PutsInv
  <1>9. BlobInv'
    <2>1. stream'.latest \in Nat /\ stream.latest <= stream'.latest
      BY <1>1, <1>3
    <2> QED BY <1>1, <1>5, <1>6, <2>1, BlobFrame
  <1>10. \A c \in Acknowledged' : c \in Acknowledged
    BY <1>1, <1>4, <1>5 DEF Acknowledged
  <1>11. KeptInv'
    <2>1. \A q \in Requests : ~Written(q) /\ ~Written(q)' /\ pc[q] \notin {"append", "save", "finish"}
      BY <1>1, <1>2, ChunksAssumption DEF Written, Requests
    <2>2. ASSUME NEW d, Blocks(d)  PROVE d.offset <= stream.latest
      <3>1. /\ store = "rows" /\ d \in chunks /\ puts[p] = 0 /\ ~Taken(p)
            /\ n = stream.latest + 1 /\ n = NextOffset(p)
        BY <1>1, <1>3, <2>2 DEF Blocks, PutChunk, n
      <3>2. n \notin 1 .. Size
        BY <3>1 DEF Taken, Filled, Fills
      <3>3. d.offset \in 1 .. Size /\ Size \in Nat
        BY <3>1 DEF Filled, Fills
      <3> QED BY <1>3, <3>1, <3>2, <3>3
    <2>3. \A S : Early(S) => Early(S)'
      BY <1>1, <1>10, <2>2 DEF Early
    <2>4. \A k : Stands(k) => Stands(k)'
      BY <1>1, <1>10, <2>1, <2>3 DEF Stands, Holds, Lost
    <2> QED BY <1>1, <1>6, <1>10, <2>1, <2>4 DEF KeptInv, Holds
  <1> QED BY <1>1, <1>6, <1>7, <1>8, <1>9, <1>11 DEF CalmInv

\* The steps of close and commit before their last: one of them runs alone.
Works(p, to) ==
    /\ AloneInv' /\ PutsInv' /\ BlobInv' /\ Acknowledged' = Acknowledged
    /\ stream.committed # None \/ stream.backup => stream.status # "open"
    /\ stream.committed \in Keys \cup {None}
    /\ stream.backup => store = "rows"
    /\ \A q \in Requests \ {p} : /\ pc'[q] \in {"idle", "done", "refused", "failed"}
                                 /\ pc'[q] = pc[q]
    /\ pc'[p] = to
    /\ KeptInv /\ (\A S : Early(S)' <=> Early(S)) /\ \A k : Lost(k)' <=> Lost(k)
    /\ \A c \in Acknowledged : c \in chunks /\ c.offset <= row[p].latest
    /\ AloneInv /\ PutsInv /\ StatusInv

LEMMA CalmWorkFrame ==
  ASSUME Inv, CalmInv, calm, NEW p \in Requests, NEW from, NEW to,
         pc[p] = from, pc' = [pc EXCEPT ![p] = to],
         from \in {"assemble", "append", "reload", "snapshot", "save"},
         to \in {"append", "reload", "snapshot", "save", "finish"},
         UNCHANGED <<store, calm, stream, chunks, puts, tail, offset, got, told>>,
         row' = row \/ row' = [row EXCEPT ![p] = stream]
  PROVE  Works(p, to)
  <1> USE DEF Inv
  <1>1. /\ row[p] = stream
        /\ \A q \in Requests \ {p} : pc[q] \in {"idle", "done", "refused", "failed"}
    BY Solo DEF Running
  <1>2. /\ AloneInv /\ PutsInv /\ StatusInv /\ BlobInv /\ KeptInv
    BY DEF CalmInv
  <1>3. pc'[p] = to /\ \A q \in Requests \ {p} : pc'[q] = pc[q]
    BY DEF TypeOK
  <1>4. \A q \in Requests : row'[q] = row[q]
    BY <1>1 DEF TypeOK
  <1>5. \A c \in chunks : c.by \in Requests
    BY DEF TypeOK, Chunk, Requests
  <1>6. AloneInv'
    BY <1>1, <1>3, <1>4 DEF AloneInv, Running
  <1>7. \A c \in chunks : c.by # p
    <2>1. p \notin Appends
      BY <1>2, ChunksAssumption DEF StatusInv
    <2> QED BY <2>1 DEF TypeOK, Chunk
  <1>8. PutsInv'
    BY <1>2, <1>3, <1>4, <1>5, <1>7 DEF PutsInv
  <1>9. BlobInv'
    BY <1>2 DEF BlobInv
  <1>10. Acknowledged' = Acknowledged
    BY <1>3, <1>5, <1>7 DEF Acknowledged
  <1>11. (\A S : Early(S)' <=> Early(S)) /\ \A k : Lost(k)' <=> Lost(k)
    <2>1. \A d : Blocks(d)' <=> Blocks(d)
      BY <1>1, <1>3 DEF Blocks, Requests
    <2> QED BY <1>1, <1>3, <1>10, <2>1 DEF Early, Lost, Requests
  <1>12. \A c \in Acknowledged : c \in chunks /\ c.offset <= row[p].latest
    BY <1>1, <1>2 DEF PutsInv, Acknowledged
  <1> QED BY <1>1, <1>2, <1>3, <1>6, <1>8, <1>9, <1>10, <1>11, <1>12 DEF StatusInv, Works

LEMMA CalmWorkStep ==
  ASSUME Inv, CalmInv, NEW p \in Requests,
         Snapshot(p) \/ Save(p) \/ Assemble(p) \/ AppendText(p) \/ Reload(p)
  PROVE  CalmInv'
  <1> SUFFICES ASSUME calm  PROVE CalmInv'
    BY DEF CalmInv, Snapshot, Save, Assemble, AppendText, Reload
  <1>1. /\ DOMAIN text = Requests
        /\ DOMAIN messages = Keys /\ (p \in Commits => KeyOf[p] \in Keys)
    BY DEF Inv, TypeOK, Keys
  <1>2. CASE Snapshot(p) \/ Assemble(p)
    <2>1. PICK to \in {"save", "append"} : /\ pc' = [pc EXCEPT ![p] = to]
                                           /\ to = "save" <=> pc[p] = "snapshot"
                                           /\ to = "append" <=> pc[p] = "assemble"
      BY <1>2 DEF Snapshot, Assemble, Goto
    <2>2. /\ UNCHANGED <<store, calm, stream, chunks, object, messages, row, puts,
                         tail, offset, got, told>>
          /\ pc[p] \in {"snapshot", "assemble"}
          /\ text' = [text EXCEPT ![p] = IF store = "rows" THEN chunks
                                         ELSE {c \in chunks : c.offset <= row[p].latest}]
      BY <1>2 DEF Snapshot, Assemble, Assembled, tails
    <2>3. Works(p, to)
      BY <2>1, <2>2, CalmWorkFrame
    <2> USE <2>3 DEF Works
    <2>4. StatusInv'
      BY <2>1, <2>2, <2>3 DEF StatusInv
    <2>5. KeptInv'
      <3>1. Holds(text'[p])
        BY <1>1, <2>2, <2>3 DEF Holds
      <3>2. Early(text'[p])
        <4>1. \A d \in text'[p] : d.offset <= stream.latest \/ Blocks(d)
          BY <1>1, <2>2, <2>3 DEF Blocks, Requests, Running, AloneInv
        <4> QED BY <3>1, <4>1 DEF Early, Holds
      <3>3. \A q \in Requests : Written(q)' <=> Written(q)
        BY <2>1, <2>2, <2>3 DEF Written
      <3>4. \A S : Holds(S)' <=> Holds(S)
        BY <2>3 DEF Holds
      <3>5. \A k : Stands(k) => Stands(k)'
        BY <2>2, <3>3, <3>4 DEF Stands
      <3> QED BY <2>1, <2>2, <3>1, <3>2, <3>3, <3>4, <3>5 DEF KeptInv
    <2> QED BY <2>2, <2>3, <2>4, <2>5 DEF CalmInv
  <1>3. CASE Save(p)
    <2>1. /\ UNCHANGED <<store, calm, stream, chunks, messages, row, puts, text,
                         tail, offset, got, told>>
          /\ pc[p] = "save" /\ pc' = [pc EXCEPT ![p] = "finish"] /\ object' = text[p]
      BY <1>3 DEF Save, Goto, tails
    <2>2. Works(p, "finish")
      BY <2>1, CalmWorkFrame
    <2> USE <2>2 DEF Works
    <2>3. StatusInv'
      BY <2>1 DEF StatusInv
    <2>4. KeptInv'
      <3>1. Holds(object')
        BY <2>1 DEF KeptInv
      <3>2. \A q \in Requests : Written(q)' <=> Written(q)
        BY <2>1 DEF Written
      <3>3. \A S : Holds(S)' <=> Holds(S)
        BY DEF Holds
      <3>4. \A k : Stands(k) => Stands(k)'
        BY <2>1, <3>2, <3>3 DEF Stands
      <3> QED BY <2>1, <3>1, <3>2, <3>3, <3>4 DEF KeptInv
    <2> QED BY <2>1, <2>3, <2>4 DEF CalmInv
  <1>4. CASE AppendText(p)
    <2> DEFINE to == IF store = "rows" THEN "reload" ELSE "finish"
    <2>1. /\ UNCHANGED <<store, calm, stream, chunks, object, row, puts, text,
                         tail, offset, got, told>>
          /\ pc[p] = "append" /\ pc' = [pc EXCEPT ![p] = to]
          /\ messages' = [messages EXCEPT ![KeyOf[p]] = IF @ = None THEN text[p] ELSE @]
      BY <1>4 DEF AppendText, Goto, tails
    <2>2. Works(p, to)
      BY <2>1, CalmWorkFrame
    <2> HIDE DEF to
    <2> USE <2>2 DEF Works
    <2>3. p \in Commits /\ KeyOf[p] \in Keys /\ stream.committed = None
      BY <1>1, <2>1 DEF StatusInv
    <2>4. StatusInv'
      BY <2>1, <2>3 DEF StatusInv, to
    <2>5. KeptInv'
      <3>1. \A q \in Requests : ~Written(q) /\ (Written(q)' <=> q = p)
        BY <2>1, <2>3 DEF Written, to
      <3>2. Holds(text[p]) /\ Early(text[p])
        BY <2>1 DEF KeptInv
      <3>3. \A k \in Keys : \/ messages'[k] = messages[k] /\ (k = KeyOf[p] => messages[k] # None)
                            \/ k = KeyOf[p] /\ messages'[k] = text[p]
        BY <1>1, <2>1, <2>3
      <3>4. \A S : Holds(S)' <=> Holds(S)
        BY DEF Holds
      <3>5. pc'[p] = "finish" => store # "rows"
        BY <2>1 DEF to
      <3>6. \A q \in Requests : pc'[q] \notin {"append", "save"}
        BY <2>1 DEF to
      <3>7. ASSUME NEW k \in Keys, messages'[k] # None \/ k = KeyOf[p]  PROVE Stands(k)'
        <4>1. CASE messages'[k] = messages[k] /\ (k = KeyOf[p] => messages[k] # None)
          BY <2>1, <3>1, <3>4, <3>7, <4>1 DEF KeptInv, Stands
        <4>2. CASE k = KeyOf[p] /\ messages'[k] = text[p]
          BY <3>1, <3>2, <3>4, <4>2 DEF Stands
        <4> QED BY <3>3, <4>1, <4>2
      <3> QED BY <2>1, <2>3, <3>1, <3>4, <3>5, <3>6, <3>7 DEF KeptInv
    <2> QED BY <2>1, <2>4, <2>5 DEF CalmInv
  <1>5. CASE Reload(p)
    <2> DEFINE to == IF stream.backup THEN "finish" ELSE "snapshot"
    <2>1. /\ UNCHANGED <<store, calm, stream, chunks, object, messages, puts, text,
                         tail, offset, got, told>>
          /\ row' = [row EXCEPT ![p] = stream]
          /\ pc[p] = "reload" /\ pc' = [pc EXCEPT ![p] = to]
      BY <1>5 DEF Reload, Goto, tails
    <2>2. Works(p, to)
      BY <2>1, CalmWorkFrame
    <2>3. to \in {"finish", "snapshot"} /\ (to = "finish" => stream.backup)
      OBVIOUS
    <2> HIDE DEF to
    <2> USE <2>2 DEF Works
    <2>4. StatusInv'
      BY <2>1, <2>3 DEF StatusInv
    <2>5. KeptInv'
      <3>1. \A q \in Requests : Written(q)' <=> Written(q)
        BY <2>1, <2>3 DEF Written
      <3>2. \A S : Holds(S)' <=> Holds(S)
        BY DEF Holds
      <3>3. \A k : Stands(k) => Stands(k)'
        BY <2>1, <3>1, <3>2 DEF Stands
      <3> QED BY <2>1, <2>3, <3>1, <3>2, <3>3 DEF KeptInv
    <2> QED BY <2>1, <2>4, <2>5 DEF CalmInv
  <1> QED BY <1>2, <1>3, <1>4, <1>5

\* The step that ends a close, a commit or an append: it changes the row.
LEMMA CalmFinishStep ==
  ASSUME Inv, CalmInv, NEW p \in Requests, FinishClose(p) \/ FinishCommit(p)
  PROVE  CalmInv'
  <1> SUFFICES ASSUME calm  PROVE CalmInv'
    BY DEF CalmInv, FinishClose, FinishCommit
  <1> USE DEF Inv
  <1>1. /\ UNCHANGED <<store, calm, chunks, object, messages, offset, got, told>>
        /\ Notify /\ End(p, "done") /\ pc[p] = "finish"
    BY DEF FinishClose, FinishCommit
  <1>2. /\ stream'.latest = stream.latest /\ stream'.status # "open"
        /\ stream'.backup <=> store = "rows"
        /\ \/ p \in Closes /\ stream'.committed = stream.committed
           \/ p \in Commits /\ stream'.committed = KeyOf[p] /\ KeyOf[p] \in Keys
    BY DEF FinishClose, FinishCommit, TypeOK, Row, Keys
  <1>3. /\ pc' \in [Requests -> PCs] /\ row' \in [Requests -> Row] /\ puts' \in [Requests -> Nat]
        /\ DOMAIN text' = Requests /\ \A q \in Requests : text'[q] \subseteq Chunk
        /\ \A q \in Requests \ {p} : pc'[q] = pc[q] /\ row'[q] = row[q] /\ puts'[q] = puts[q]
        /\ pc'[p] = "done" /\ row'[p] = NewStream /\ puts'[p] = 0
    BY <1>1, EndIs
  <1>4. \A q \in Requests \ {p} : pc[q] \in {"idle", "done", "refused", "failed"}
    BY <1>1, Solo DEF Running
  <1>5. \A q \in Requests : pc'[q] \in {"idle", "done", "refused", "failed"}
    BY <1>3, <1>4
  <1>6. /\ AloneInv /\ PutsInv /\ StatusInv /\ BlobInv /\ KeptInv
    BY DEF CalmInv
  <1>7. AloneInv'
    BY <1>5 DEF AloneInv, Running
  <1>8. \A c \in chunks : c.by \in Requests /\ c.by # p
    BY <1>2, ChunksAssumption DEF TypeOK, Chunk, Requests
  <1>9. PutsInv'
    BY <1>1, <1>2, <1>3, <1>5, <1>6, <1>8 DEF PutsInv
  <1>10. StatusInv'
    BY <1>1, <1>2, <1>5, <1>6 DEF StatusInv
  <1>11. stream.latest \in Nat
    BY RowTyped DEF TypeOK
  <1>12. BlobInv'
    BY <1>1, <1>2, <1>6, <1>11, BlobFrame
  <1>13. Acknowledged' = Acknowledged
    BY <1>1, <1>3, <1>8 DEF Acknowledged
  <1>14. KeptInv'
    <2>1. \A S : Holds(S)' <=> Holds(S)
      BY <1>13 DEF Holds
    <2>2. \A S : Early(S) => Early(S)'
      <3>1. \A d : Blocks(d) => Blocks(d)'
        BY <1>1, <1>5 DEF Blocks, Requests
      <3> QED BY <1>2, <1>13, <3>1 DEF Early
    <2>3. \A q \in Requests : (Written(q) => q = p) /\ ~Written(q)'
      BY <1>4, <1>5 DEF Written
    <2>4. p \in Commits => Written(p)
      BY <1>1 DEF Written
    <2>5. p \in Closes => ~Written(p)
      BY ChunksAssumption DEF Written
    <2>7. stream'.backup => Holds(object)
      BY <1>1, <1>2, <1>6 DEF KeptInv
    <2>8. \A k : Lost(k) => Lost(k)'
      BY <1>1, <1>3 DEF Lost, Requests
    <2>9. stream.committed # None \/ p \in Commits => stream'.committed # None
      BY <1>2, ChunksAssumption
    <2>10. ASSUME NEW k, Stands(k)  PROVE Stands(k)'
      <3>1. stream'.committed # None \/ Lost(k)'
        BY <2>3, <2>5, <2>8, <2>9, <2>10, <1>2 DEF Stands
      <3> QED BY <1>1, <2>1, <2>2, <2>8, <2>10, <3>1 DEF Stands
    <2>11. stream'.committed # None => Stands(stream'.committed)
      BY <1>2, <1>6, <2>4 DEF KeptInv
    <2> QED BY <1>1, <1>5, <1>6, <2>1, <2>3, <2>7, <2>10, <2>11 DEF KeptInv
  <1> QED BY <1>1, <1>6, <1>7, <1>9, <1>10, <1>12, <1>14 DEF CalmInv

LEMMA CalmFinishAppendStep ==
  ASSUME Inv, CalmInv, NEW p \in Requests, FinishAppend(p)
  PROVE  CalmInv'
  <1> SUFFICES ASSUME calm  PROVE CalmInv'
    BY DEF CalmInv, FinishAppend
  <1> USE DEF Inv
  <1>1. /\ UNCHANGED <<store, calm, chunks, object, messages, offset, got, told>>
        /\ Notify /\ End(p, "done") /\ p \in Appends /\ pc[p] = "put"
        /\ stream' = [stream EXCEPT !.latest = row[p].latest + puts[p]]
    BY DEF FinishAppend
  <1>2. /\ row[p] = stream
        /\ \A q \in Requests \ {p} : pc[q] \in {"idle", "done", "refused", "failed"}
    BY <1>1, Solo DEF Running
  <1>3. /\ AloneInv /\ PutsInv /\ StatusInv /\ BlobInv /\ KeptInv
    BY DEF CalmInv
  <1>4. /\ stream.status = "open" /\ stream.committed = None /\ stream.backup = FALSE
        /\ puts[p] \in Nat /\ stream.latest \in Nat /\ stream \in Row
    BY <1>1, <1>3, RowTyped DEF PutsInv, StatusInv, TypeOK, Row
  <1>5. /\ stream'.latest = stream.latest + puts[p]
        /\ stream'.status = "open" /\ stream'.committed = None /\ stream'.backup = FALSE
    BY <1>1, <1>2, <1>4 DEF Row
  <1>6. /\ pc' \in [Requests -> PCs] /\ row' \in [Requests -> Row] /\ puts' \in [Requests -> Nat]
        /\ DOMAIN text' = Requests /\ \A q \in Requests : text'[q] \subseteq Chunk
        /\ \A q \in Requests \ {p} : pc'[q] = pc[q] /\ row'[q] = row[q] /\ puts'[q] = puts[q]
        /\ pc'[p] = "done" /\ row'[p] = NewStream /\ puts'[p] = 0
    BY <1>1, EndIs
  <1>7. \A q \in Requests : pc'[q] \in {"idle", "done", "refused", "failed"}
    BY <1>2, <1>6
  <1>8. AloneInv'
    BY <1>7 DEF AloneInv, Running
  <1>9. PutsInv'
    <2>1. ASSUME NEW c \in chunks  PROVE pc'[c.by] # "idle" /\ (pc'[c.by] = "done" => c.offset <= stream'.latest)
      <3>1. c.by \in Requests /\ c.offset \in Nat
        BY DEF TypeOK, Chunk, Requests
      <3>2. CASE c.by = p
        <4>1. c.offset <= stream.latest + puts[p]
          BY <1>1, <1>2, <1>3, <1>4, <3>1, <3>2 DEF PutsInv
        <4> QED BY <1>5, <1>6, <3>2, <4>1
      <3>3. CASE c.by # p
        BY <1>3, <1>4, <1>5, <1>6, <3>1, <3>3 DEF PutsInv
      <3> QED BY <3>2, <3>3
    <2>2. \A c \in chunks : c.by \in Requests
      BY DEF TypeOK, Chunk, Requests
    <2> QED BY <1>1, <1>7, <2>1, <2>2 DEF PutsInv
  <1>10. StatusInv'
    BY <1>5, <1>7 DEF StatusInv
  <1>11. BlobInv'
    <2>1. stream'.latest \in Nat /\ stream.latest <= stream'.latest
      BY <1>4, <1>5
    <2> QED BY <1>1, <1>3, <1>4, <2>1, BlobFrame
  <1>12. KeptInv'
    <2>1. \A q \in Requests : ~Written(q) /\ ~Written(q)'
      BY <1>1, <1>2, <1>7 DEF Written
    <2>2. \A k : Lost(k) => Lost(k)'
      BY <1>1, <1>6 DEF Lost, Requests
    <2>3. \A d : ~Blocks(d)
      BY <1>1, <1>4, ChunksAssumption DEF Blocks, FinishAppend, More
    <2>4. ASSUME NEW c \in Acknowledged'
          PROVE  c \in Acknowledged \/ (c.offset \in Nat /\ stream.latest < c.offset)
      <3>1. c \in chunks /\ c.by \in Requests /\ c.offset \in Nat
        BY <1>1 DEF Acknowledged, TypeOK, Chunk, Requests
      <3>2. CASE c.by = p
        BY <1>1, <1>2, <1>3, <1>4, <3>1, <3>2 DEF PutsInv
      <3>3. CASE c.by # p
        <4>1. pc'[c.by] = pc[c.by] /\ pc'[c.by] = "done"
          BY <1>6, <3>1, <3>3 DEF Acknowledged
        <4> QED BY <1>1, <3>1, <4>1 DEF Acknowledged
      <3> QED BY <3>2, <3>3
    <2>5. ASSUME NEW S \in SUBSET Chunk, Early(S)  PROVE Early(S)'
      <3>1. \A d \in S : d.offset \in Nat /\ d.offset <= stream.latest
        BY <2>3, <2>5 DEF Early, Chunk
      <3>2. \A d \in S : d.offset <= stream'.latest
        BY <1>4, <1>5, <3>1
      <3>3. ASSUME NEW c \in Acknowledged' \ S, NEW d \in S  PROVE d.offset < c.offset
        <4>1. CASE c \in Acknowledged
          BY <2>5, <3>3, <4>1 DEF Early
        <4>2. CASE c.offset \in Nat /\ stream.latest < c.offset
          BY <1>4, <3>1, <4>2
        <4> QED BY <2>4, <4>1, <4>2
      <3> QED BY <3>2, <3>3 DEF Early
    <2>6. ASSUME NEW k \in Keys, messages[k] # None  PROVE Stands(k)'
      <3>1. Lost(k) /\ Early(messages[k])
        BY <1>3, <1>4, <2>1, <2>6 DEF KeptInv, Stands
      <3>2. messages[k] \in SUBSET Chunk
        BY <2>6 DEF TypeOK
      <3> QED BY <1>1, <2>2, <2>5, <3>1, <3>2 DEF Stands
    <2> QED BY <1>1, <1>4, <1>5, <1>7, <2>1, <2>6 DEF KeptInv
  <1> QED BY <1>1, <1>8, <1>9, <1>10, <1>11, <1>12 DEF CalmInv

\* Tails change nothing the requests see.
LEMMA CalmTailFrame ==
  ASSUME CalmInv, UNCHANGED <<store, calm, stream, chunks, object, messages, requests>>, calm => BlobInv'
  PROVE  CalmInv'
  <1> SUFFICES ASSUME calm  PROVE CalmInv'
    BY DEF CalmInv
  <1>1. AloneInv' /\ PutsInv' /\ StatusInv' /\ KeptInv'
    BY DEF CalmInv, AloneInv, PutsInv, StatusInv, KeptInv, Stands, Early, Blocks, Lost, Holds, Written,
           Acknowledged, Running, requests
  <1> QED BY <1>1 DEF CalmInv

LEMMA CalmFetchStep ==
  ASSUME Inv, BlobInv, store = "blobs", NEW t \in Tails, FetchBlobs(t)
  PROVE  BlobInv'
  <1> USE DEF Inv
  <1>1. UNCHANGED <<store, calm, stream, chunks, object, messages, requests, told>>
    BY DEF FetchBlobs
  <1>2. /\ Size \in Nat /\ told[t].latest \in Nat /\ told[t].latest <= Size
        /\ offset[t] \in Nat /\ stream.latest \in Nat
    BY RowTyped DEF Filled, LatestInv, TypeOK
  <1> DEFINE S == {c \in chunks : c.offset <= told[t].latest /\ c.offset > offset[t]}
  <1>3. Fresh(t, Counted(t)) = S
    BY DEF Fresh, Counted
  <1>4. CASE Deliver(t, S)
    <2>1. /\ tail' = [tail EXCEPT ![t] = "poll"]
          /\ offset'[t] = told[t].latest
          /\ \A u \in Tails \ {t} : got'[u] = got[u] /\ offset'[u] = offset[u]
          /\ (\A k \in DOMAIN got[t] : got[t][k] \in chunks) => \A k \in DOMAIN got'[t] : got'[t][k] \in chunks
      BY <1>2, <1>4, DeliverStep
    <2>2. \A u \in Tails : tail'[u] = "eof" => u # t /\ tail[u] = "eof"
      BY <2>1 DEF TypeOK
    <2> QED BY <1>1, <2>1, <2>2 DEF BlobInv
  <1>5. CASE /\ S = {}
             /\ tail' = [tail EXCEPT ![t] = IF told[t].status = "open" THEN "wait" ELSE "eof"]
             /\ UNCHANGED <<offset, got>>
    <2>1. told[t].latest <= offset[t]
      <3> SUFFICES ASSUME offset[t] < told[t].latest  PROVE FALSE
        BY <1>2
      <3>1. told[t].latest \in {c.offset : c \in chunks}
        BY <1>2 DEF Filled, Fills
      <3>2. PICK c \in chunks : c.offset = told[t].latest
        BY <3>1
      <3>3. c \in S
        BY <1>2, <3>2
      <3> QED BY <1>5, <3>3
    <2>2. told[t].status # "open" => stream.status # "open" /\ offset[t] = stream.latest
      BY <1>2, <2>1 DEF BlobInv
    <2>3. \A u \in Tails : tail'[u] = "eof" => tail[u] = "eof" \/ (u = t /\ told[t].status # "open")
      BY <1>5 DEF TypeOK
    <2> QED BY <1>1, <1>5, <2>2, <2>3 DEF BlobInv
  <1> QED BY <1>3, <1>4, <1>5 DEF FetchBlobs

LEMMA CalmWatchStep ==
  ASSUME Inv, CalmInv, NEW t \in Tails, Watch(t)
  PROVE  CalmInv'
  <1> USE DEF Inv
  <1>1. UNCHANGED <<store, calm, stream, chunks, object, messages, requests>>
    BY DEF Watch, PollRows, ReadStatus, LoadRow, FetchBlobs, Sleep, Timeout
  <1>2. calm => BlobInv
    BY DEF CalmInv
  <1>3. CASE store = "rows"
    BY <1>1, <1>3, CalmTailFrame DEF BlobInv
  <1>4. CASE FetchBlobs(t) /\ store = "blobs"
    BY <1>1, <1>2, <1>4, CalmFetchStep, CalmTailFrame
  <1>5. CASE LoadRow(t)
    <2>1. /\ UNCHANGED <<offset, got>> /\ told' = [told EXCEPT ![t] = stream]
          /\ tail' = [tail EXCEPT ![t] = "fetch"]
      BY <1>5 DEF LoadRow
    <2>2. \A u \in Tails : /\ told'[u] = told[u] \/ told'[u] = stream
                           /\ tail'[u] = "eof" => tail[u] = "eof"
      BY <2>1 DEF TypeOK
    <2>3. stream.latest \in Nat /\ stream.latest <= stream.latest
      BY RowTyped DEF TypeOK
    <2>4. calm => BlobInv'
      BY <1>1, <1>2, <2>1, <2>2, <2>3 DEF BlobInv
    <2> QED BY <1>1, <2>4, CalmTailFrame
  <1>6. CASE Sleep(t) \/ Timeout(t)
    <2>1. UNCHANGED <<offset, got, told>> /\ \E l \in {"asleep", "poll"} : tail' = [tail EXCEPT ![t] = l]
      BY <1>6 DEF Sleep, Timeout
    <2>2. \A u \in Tails : tail'[u] = "eof" => tail[u] = "eof"
      BY <2>1 DEF TypeOK
    <2>3. calm => BlobInv'
      BY <1>1, <1>2, <2>1, <2>2 DEF BlobInv
    <2> QED BY <1>1, <2>3, CalmTailFrame
  <1>7. store \in {"rows", "blobs"}
    BY DEF TypeOK
  <1> QED BY <1>3, <1>4, <1>5, <1>6, <1>7 DEF Watch, PollRows, ReadStatus

LEMMA CalmStep == Inv /\ CalmInv /\ [Next]_vars => CalmInv'
  <1> SUFFICES ASSUME Inv, CalmInv, [Next]_vars  PROVE CalmInv'
    OBVIOUS
  <1>1. ASSUME NEW p \in Requests, Load(p)  PROVE CalmInv'
    BY <1>1, CalmLoadStep
  <1>2. ASSUME NEW p \in Requests, Step(p)  PROVE CalmInv'
    <2>1. CASE PutConflict(p)
      BY <2>1, CalmEndStep DEF PutConflict
    <2>2. CASE AppendDenied(p)
      BY <2>2, CalmEndStep DEF AppendDenied, Written
    <2> QED BY <1>2, <2>1, <2>2, CalmPutStep, CalmFinishAppendStep, CalmWorkStep, CalmFinishStep DEF Step
  <1>3. ASSUME NEW p \in Requests, Fail(p)  PROVE CalmInv'
    BY <1>3, CalmEndStep DEF Fail, Running
  <1>4. ASSUME NEW t \in Tails, Watch(t)  PROVE CalmInv'
    BY <1>4, CalmWatchStep
  <1>5. CASE UNCHANGED vars
    <2>1. UNCHANGED <<store, calm, stream, chunks, object, messages, requests, tail, offset, got, told>>
      BY <1>5 DEF vars, tails
    <2>2. calm => BlobInv'
      BY <2>1 DEF CalmInv, BlobInv
    <2> QED BY <2>1, <2>2, CalmTailFrame
  <1> QED BY <1>1, <1>2, <1>3, <1>4, <1>5 DEF Next

LEMMA CalmInvariant == Spec => [](Inv /\ CalmInv)
  <1>1. Inv /\ [Next]_vars => Inv'
    BY InvStep
  <1> QED BY <1>1, InvInit, CalmInit, CalmStep, PTL DEF Spec

\* POST /close, POST /commit and GET /tail, when requests come one after the
\* other and fail anywhere: on either plugin the backup of a finished stream
\* holds every acknowledged chunk, no tail of blobs is told eof before it has
\* them all, and a committed message lacks a chunk only when a commit under its
\* key has failed, and then only chunks that come after all it holds.
THEOREM CompleteWhenCalm == Spec => []CalmlyComplete
  <1>1. ASSUME Inv, CalmInv  PROVE CalmlyComplete
    <2> SUFFICES ASSUME calm
                 PROVE  /\ stream.committed # None =>
                              LET held == messages[stream.committed]
                              IN \A c \in Acknowledged \ held :
                                    Lost(stream.committed) /\ \A d \in held : d.offset < c.offset
                        /\ stream.backup => Acknowledged \subseteq object
                        /\ \A t \in Tails : store = "blobs" /\ tail[t] = "eof" =>
                              \A c \in Acknowledged : \E k \in DOMAIN got[t] : got[t][k] = c
      BY DEF CalmlyComplete
    <2>1. PutsInv /\ BlobInv /\ KeptInv
      BY <1>1 DEF CalmInv
    <2>2. ASSUME NEW t \in Tails, store = "blobs", tail[t] = "eof", NEW c \in Acknowledged
          PROVE  \E k \in DOMAIN got[t] : got[t][k] = c
      <3>1. c \in chunks /\ c.offset <= stream.latest
        BY <2>1 DEF Acknowledged, PutsInv
      <3>2. offset[t] = stream.latest /\ \A k \in DOMAIN got[t] : got[t][k] \in chunks
        BY <2>1, <2>2 DEF BlobInv
      <3>3. got[t] \in Seq(Chunk) /\ Len(got[t]) = offset[t] /\ c.offset \in Nat \ {0} /\ stream.latest \in Nat
        BY <1>1, <3>1, RowTyped DEF Inv, TypeOK, TailInv, Chunk
      <3>4. c.offset \in DOMAIN got[t]
        BY <3>1, <3>2, <3>3, LenProperties
      <3>5. got[t][c.offset].offset = c.offset /\ got[t][c.offset] \in chunks
        BY <1>1, <3>2, <3>4 DEF Inv, TailFaithful
      <3>6. got[t][c.offset] = c
        BY <1>1, <3>1, <3>5 DEF Inv, Filled, Fills
      <3> QED BY <3>4, <3>6
    <2>3. stream.committed # None => stream.committed \in Keys /\ Stands(stream.committed)
      BY <1>1, <2>1 DEF CalmInv, StatusInv, KeptInv
    <2> QED BY <2>1, <2>2, <2>3 DEF KeptInv, Stands, Early, Holds
  <1> QED BY <1>1, CalmInvariant, PTL
=============================================================================
