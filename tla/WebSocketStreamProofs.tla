------------------------- MODULE WebSocketStreamProofs -------------------------
(* Theorems about WebSocketStream, for every value of its constants. *)
EXTENDS WebSocketStream, TLAPS, FiniteSetTheorems, SequenceTheorems, WellFoundedInduction

(***************************************************************************)
(* The inductive invariant.                                                *)
(***************************************************************************)
\* The numbers of the log do not fall, and are no more than its events.
LogInv ==
    /\ \A i \in Events : log[i] <= i
    /\ \A i, j \in Events : i < j /\ log[i] > 0 /\ log[j] > 0 => log[i] <= log[j]

\* What r has before it is attached, and when it is; after the removal only
\* requests authorized before it query.
Prepared(r) ==
    /\ pc[r] # "attached" => r \notin listening /\ sent[r] = <<>> /\ overtaken[r] = {}
    /\ pc[r] \notin {"attach", "attached"} => rows[r] = <<>> /\ unheard[r] = {}
    /\ pc[r] = "attached" =>
          /\ lastSeq[r] >= ReplayedTo(r)
          /\ lastSeq[r] = fromSeq[r] \/ \E j \in Events : log[j] = lastSeq[r]
    /\ r \in listening => active[r]
    /\ pc[r] = "query" /\ ~readable => r \in late
SetUpInv == (removedAt = None <=> readable) /\ \A r \in Requests : Prepared(r)

\* A replay is a list of numbered events in the order of their numbers.
RowsInv ==
    \A r \in Requests :
        /\ \A k \in DOMAIN rows[r] : log[rows[r][k]] > fromSeq[r]
        /\ \A j, k \in DOMAIN rows[r] : j < k => rows[r][j] # rows[r][k] /\ log[rows[r][j]] <= log[rows[r][k]]
        /\ ~readable /\ r \notin late => \A k \in DOMAIN rows[r] : rows[r][k] <= removedAt

\* What the replay of r cannot have sent.
Beyond(r, i) == log[i] = 0 \/ log[i] > ReplayedTo(r)

\* The events of a transaction are published together.  An event being checked
\* was published, is checked once per listener, and was published to a
\* subscription that had not replayed it.
CheckInv ==
    /\ \A i \in unpublished : Batch(i) \subseteq unpublished
    /\ \A c \in checks :
          /\ pc[c.to] = "attached"
          /\ c.event \notin unpublished
          /\ Beyond(c.to, c.event)
          /\ c.found = "yes" /\ removedAt # None => c.event <= removedAt
    /\ \A c, d \in checks : c.to = d.to /\ c.event = d.event => c = d

\* A live frame is beyond the replay, and its event is through with r.
SentInv ==
    \A r \in Requests : \A k \in DOMAIN sent[r] :
        IF sent[r][k].live
          THEN /\ sent[r][k].event \notin unpublished
               /\ Beyond(r, sent[r][k].event)
               /\ \A c \in checks : c.to = r => c.event # sent[r][k].event
          ELSE ~Beyond(r, sent[r][k].event)

\* Before it attaches, too, a request that was not cut off knows what it missed.
Uncut(r) == Len(rows[r]) < Limit
QueriedInv ==
    \A r \in Requests : pc[r] = "attach" /\ Uncut(r) =>
        \A i \in Missed(r) : InRows(r, i) \/ i \in unpublished \/ i \in unheard[r]

Inv == /\ SentFaithfully /\ LogInv /\ SetUpInv /\ RowsInv /\ CheckInv /\ SentInv
       /\ LostOnlyInBetween /\ QueriedInv

(***************************************************************************)
(* LastOf does what it stands for.                                         *)
(***************************************************************************)
\* Every set of naturals with an element has a least one.
LEMMA Least == ASSUME NEW T \in SUBSET Nat, T # {}  PROVE  \E m \in T : \A k \in T : m <= k
  <1> DEFINE R == {ss \in Nat \X Nat : ss[1] < ss[2]}
  <1>1. IsWellFoundedOn(R, Nat)
    BY NatLessThanWellFounded DEF OpToRel
  <1>2. \A x, y \in Nat : x < y => <<x, y>> \in R
    OBVIOUS
  <1> HIDE DEF R
  <1>3. PICK x \in T : \A y \in T : <<y, x>> \notin R
    BY <1>1, WFMin
  <1>4. \A y \in T : ~(y < x)
    BY <1>2, <1>3
  <1> QED BY <1>4

\* LastOf is the greatest of a set of naturals that has a bound.
LEMMA LastOfIsGreatest ==
  ASSUME NEW b \in Nat, NEW S \in SUBSET (0 .. b), S # {}
  PROVE  LastOf(S) \in S /\ \A n \in S : n <= LastOf(S)
  <1> DEFINE Bounds == {n \in Nat : \A m \in S : m <= n}
  <1>1. b \in Bounds
    OBVIOUS
  <1>2. PICK l \in Bounds : \A k \in Bounds : l <= k
    BY <1>1, Least
  <1>3. l \in S
    <2> SUFFICES ASSUME l \notin S  PROVE FALSE
      OBVIOUS
    <2>1. PICK e \in S : TRUE
      OBVIOUS
    <2>2. l > 0 /\ \A m \in S : m <= l - 1
      BY <2>1
    <2> QED BY <1>2, <2>2
  <1>4. \E m \in S : \A n \in S : n <= m
    BY <1>3
  <1>5. S # {} 
    OBVIOUS
  <1> HIDE DEF Bounds
  <1> QED BY <1>4, <1>5 DEF LastOf

(***************************************************************************)
(* Initial states.                                                         *)
(***************************************************************************)
LEMMA InvInit == Init => Inv
  <1> SUFFICES ASSUME Init  PROVE Inv
    OBVIOUS
  <1> USE StreamAssumption DEF Init
  <1>1. TypeOK
    BY DEF TypeOK, Events, PCs
  <1>2. SentOnce /\ RemovalIsFinal
    BY DEF SentOnce, RemovalIsFinal
  <1>3. LogInv /\ SetUpInv /\ RowsInv
    BY DEF LogInv, Events, SetUpInv, Prepared, RowsInv
  <1>4. CheckInv /\ SentInv
    BY DEF CheckInv, SentInv
  <1>5. LostOnlyInBetween /\ QueriedInv
    BY DEF LostOnlyInBetween, Whole, QueriedInv
  <1> QED BY <1>1, <1>2, <1>3, <1>4, <1>5 DEF Inv, SentFaithfully

(***************************************************************************)
(* Commits.                                                                *)
(***************************************************************************)
LEMMA LogTypes ==
  ASSUME TypeOK
  PROVE  /\ log \in Seq(Nat) /\ Len(log) \in Nat /\ Events = 1 .. Len(log)
         /\ \A i \in Events : i \in Nat /\ log[i] \in Nat
  BY DEF TypeOK, Events

LEMMA NewestBounds ==
  ASSUME TypeOK, LogInv
  PROVE  Newest \in Nat /\ Newest <= Len(log) /\ \A i \in Events : log[i] <= Newest
  <1> DEFINE S == {log[i] : i \in Events}
  <1>0. Len(log) \in Nat
    BY LogTypes
  <1>1. S \in SUBSET (0 .. Len(log))
    BY LogTypes DEF LogInv
  <1>2. \A i \in Events : log[i] \in S
    OBVIOUS
  <1>3. Newest = LastOf(S)
    BY DEF Newest
  <1> HIDE DEF S
  <1>4. CASE S = {}
    <2>1. LastOf(S) = 0
      BY <1>4 DEF LastOf
    <2> QED BY <1>0, <1>2, <1>3, <1>4, <2>1
  <1>5. CASE S # {}
    <2>1. LastOf(S) \in S /\ \A n \in S : n <= LastOf(S)
      BY <1>0, <1>1, <1>5, LastOfIsGreatest
    <2>2. LastOf(S) \in 0 .. Len(log)
      BY <1>1, <2>1
    <2> QED BY <1>0, <1>2, <1>3, <2>1, <2>2
  <1> QED BY <1>4, <1>5

\* ReplayedTo is where the replay ends, or where it would have begun.
LEMMA ReplayedToIsThere ==
  ASSUME TypeOK, LogInv, NEW r \in Requests
  PROVE  /\ ReplayedTo(r) \in Nat
         /\ fromSeq[r] <= ReplayedTo(r)
         /\ \A k \in DOMAIN rows[r] : log[rows[r][k]] <= ReplayedTo(r)
         /\ ReplayedTo(r) = fromSeq[r] \/ \E k \in DOMAIN rows[r] : ReplayedTo(r) = log[rows[r][k]]
  <1> DEFINE S == {fromSeq[r]} \cup {log[rows[r][k]] : k \in DOMAIN rows[r]}
             b == fromSeq[r] + Len(log)
  <1>1. \A k \in DOMAIN rows[r] : rows[r][k] \in Events
    <2>1. rows[r] \in Seq(Events)
      BY DEF TypeOK
    <2> QED BY <2>1
  <1>2. \A i \in Events : log[i] \in 0 .. Len(log)
    BY LogTypes DEF LogInv
  <1>3. fromSeq[r] \in Nat /\ Len(log) \in Nat
    BY DEF TypeOK
  <1>4. b \in Nat /\ S \in SUBSET (0 .. b) /\ S # {}
    BY <1>1, <1>2, <1>3
  <1>5. LastOf(S) \in S /\ \A n \in S : n <= LastOf(S)
    <2> HIDE DEF S, b
    <2> QED BY <1>4, LastOfIsGreatest
  <1>6. ReplayedTo(r) = LastOf(S)
    BY DEF ReplayedTo
  <1>7. LastOf(S) = fromSeq[r] \/ \E k \in DOMAIN rows[r] : LastOf(S) = log[rows[r][k]]
    BY <1>5
  <1>8. fromSeq[r] \in S /\ \A k \in DOMAIN rows[r] : log[rows[r][k]] \in S
    OBVIOUS
  <1>9. LastOf(S) \in Nat
    <2>1. \A n \in S : n \in Nat
      BY <1>3, <1>4
    <2> HIDE DEF S
    <2> QED BY <1>5, <2>1
  <1>10. fromSeq[r] <= LastOf(S) /\ \A k \in DOMAIN rows[r] : log[rows[r][k]] <= LastOf(S)
    <2> HIDE DEF S
    <2> QED BY <1>5, <1>8
  <1> HIDE DEF S
  <1> QED BY <1>6, <1>7, <1>9, <1>10

\* A transaction adds events of one number, a new one or none, and changes
\* nothing else a subscription knows.
Emits(v) ==
    /\ \E n \in Nat \ {0} : log' = log \o [k \in 1 .. n |-> v] /\ Len(log) + n <= MaxEvents
    /\ unpublished' = unpublished \cup (Events' \ Events)
    /\ v = 0 => Len(log') = Len(log) + 1
    /\ calm => Quiet
    /\ UNCHANGED <<calm, open, entry, pc, fromSeq, rows, lastSeq, active, listening, checks, sent,
                   unheard, overtaken>>

LEMMA CommitEmits ==
  ASSUME TypeOK, LogInv, CommitMessage \/ CommitUnnumbered \/ Remove
  PROVE  \E v \in {0, Newest + 1} : Emits(v)
  <1>0. log \in Seq(Nat) /\ Len(log) \in Nat /\ Newest \in Nat
    BY NewestBounds, LogTypes
  <1>1. ASSUME NEW n \in Nat \ {0}, NEW v \in {0, Newest + 1}, v = 0 => n = 1,
               Emit([k \in 1 .. n |-> v]),
               UNCHANGED <<calm, open, entry, pc, fromSeq, rows, lastSeq, active, listening, checks, sent,
                           unheard, overtaken>>
        PROVE  Emits(v)
    <2> DEFINE s == [k \in 1 .. n |-> v]
    <2>1. s \in Seq(Nat) /\ Len(s) = n
      BY <1>0
    <2>2. /\ log' = log \o s /\ Len(log) + n <= MaxEvents
          /\ unpublished' = unpublished \cup (Len(log) + 1 .. Len(log) + n)
          /\ calm => Quiet
      BY <1>1, <2>1 DEF Emit
    <2> HIDE DEF s
    <2>3. Events = 1 .. Len(log) /\ Events' = 1 .. Len(log) + n /\ Len(log') = Len(log) + n
      <3>1. log' \in Seq(Nat) /\ Len(log') = Len(log) + n
        BY <1>0, <2>1, <2>2, ConcatProperties
      <3> QED BY <1>0, <3>1 DEF Events
    <2>4. Events' \ Events = Len(log) + 1 .. Len(log) + n
      BY <1>0, <2>3
    <2> QED BY <1>1, <2>2, <2>3, <2>4 DEF Emits, s
  <1>2. CASE CommitMessage
    <2>1. PICK n \in 1 .. PerMessage : Emit([k \in 1 .. n |-> Newest + 1])
      BY <1>2 DEF CommitMessage, Messages
    <2>2. n \in Nat \ {0} /\ Newest + 1 # 0
      BY <1>0, StreamAssumption
    <2> QED BY <1>1, <1>2, <2>1, <2>2 DEF CommitMessage, handler, history
  <1>3. CASE CommitUnnumbered \/ Remove
    <2>1. <<0>> = [k \in 1 .. 1 |-> 0]
      OBVIOUS
    <2>2. Emit([k \in 1 .. 1 |-> 0])
      BY <1>3, <2>1 DEF CommitUnnumbered, Remove
    <2>3. UNCHANGED <<calm, open, entry, pc, fromSeq, rows, lastSeq, active, listening, checks, sent,
                      unheard, overtaken>>
      BY <1>3 DEF CommitUnnumbered, Remove, handler, history
    <2>4. 1 \in Nat \ {0} /\ 0 \in {0, Newest + 1}
      OBVIOUS
    <2> HIDE DEF Newest
    <2> QED BY <1>1, <2>2, <2>3, <2>4
  <1> QED BY <1>2, <1>3

LEMMA EmitAppends ==
  ASSUME TypeOK, LogInv, NEW v \in {0, Newest + 1}, Emits(v)
  PROVE  /\ log' \in Seq(Nat) /\ Len(log') \in Nat /\ Len(log') <= MaxEvents
         /\ Events = 1 .. Len(log) /\ Events' = 1 .. Len(log') /\ Len(log) < Len(log')
         /\ \A i \in Events : i \in Events' /\ log'[i] = log[i]
         /\ \A i \in Events' \ Events : log'[i] = v /\ \A j \in Events : j < i
         /\ LogInv'
         /\ \A r \in Requests : ReplayedTo(r)' = ReplayedTo(r)
         /\ \A r \in Requests : \A i \in Events : Beyond(r, i)' = Beyond(r, i)
  <1>1. Newest \in Nat /\ Newest <= Len(log) /\ \A i \in Events : log[i] <= Newest
    BY NewestBounds
  <1>2. log \in Seq(Nat) /\ Len(log) \in Nat /\ Events = 1 .. Len(log) /\ v \in Nat
        /\ \A i \in Events : i \in Nat /\ log[i] \in Nat
    BY <1>1, LogTypes
  <1>3. PICK n \in Nat \ {0} : log' = log \o [k \in 1 .. n |-> v] /\ Len(log) + n <= MaxEvents
    BY DEF Emits
  <1> DEFINE s == [k \in 1 .. n |-> v]
  <1>4. s \in Seq(Nat) /\ Len(s) = n /\ \A k \in 1 .. n : s[k] = v
    BY <1>2
  <1> HIDE DEF s
  <1>5. log' = log \o s
    BY <1>3 DEF s
  <1>6. log' \in Seq(Nat) /\ Len(log') = Len(log) + n
        /\ \A i \in 1 .. Len(log) + n : log'[i] = IF i <= Len(log) THEN log[i] ELSE s[i - Len(log)]
    BY <1>2, <1>4, <1>5, ConcatProperties
  <1>7. Len(log') \in Nat /\ Events' = 1 .. Len(log') /\ Len(log) < Len(log') /\ Len(log') <= MaxEvents
    BY <1>2, <1>3, <1>6 DEF Events
  <1>8. \A i \in Events : i \in Events' /\ log'[i] = log[i]
    BY <1>2, <1>6, <1>7
  <1>9. \A i \in Events' \ Events : log'[i] = v /\ \A j \in Events : j < i
    <2> TAKE i \in Events' \ Events
    <2>1. i \in Nat /\ i > Len(log) /\ i <= Len(log) + n /\ i - Len(log) \in 1 .. n
      BY <1>2, <1>6, <1>7
    <2>2. log'[i] = s[i - Len(log)]
      BY <1>2, <1>6, <2>1
    <2> QED BY <1>2, <1>4, <2>1, <2>2
  <1>10. LogInv'
    <2>1. ASSUME NEW i \in Events'  PROVE log'[i] <= i
      <3>1. CASE i \in Events
        BY <1>2, <1>8, <3>1 DEF LogInv
      <3>2. CASE i \notin Events
        <4>1. i \in Nat /\ i > Len(log) /\ log'[i] = v
          BY <1>2, <1>7, <1>9, <3>2
        <4> QED BY <1>1, <1>2, <4>1
      <3> QED BY <3>1, <3>2
    <2>2. ASSUME NEW i \in Events', NEW j \in Events', i < j, log'[i] > 0, log'[j] > 0
          PROVE  log'[i] <= log'[j]
      <3>1. CASE i \in Events /\ j \in Events
        BY <1>8, <2>2, <3>1 DEF LogInv
      <3>2. CASE i \in Events /\ j \notin Events
        <4>1. log'[i] <= Newest /\ log'[j] = v /\ v = Newest + 1
          BY <1>1, <1>2, <1>8, <1>9, <2>2, <3>2
        <4>2. log'[i] \in Nat
          BY <1>2, <1>8, <3>2
        <4> HIDE DEF Newest
        <4> QED BY <1>1, <4>1, <4>2
      <3>3. CASE i \notin Events
        <4>1. j \notin Events
          BY <1>2, <1>7, <2>2, <3>3
        <4> QED BY <1>2, <1>9, <3>3, <4>1
      <3> QED BY <3>1, <3>2, <3>3
    <2> QED BY <2>1, <2>2 DEF LogInv
  <1>11. ASSUME NEW r \in Requests  PROVE ReplayedTo(r)' = ReplayedTo(r)
    <2>1. rows' = rows /\ fromSeq' = fromSeq
      BY DEF Emits
    <2>2. \A k \in DOMAIN rows[r] : rows[r][k] \in Events
      BY DEF TypeOK
    <2>3. \A k \in DOMAIN rows[r] : log'[rows[r][k]] = log[rows[r][k]]
      BY <1>8, <2>2
    <2> QED BY <2>1, <2>3 DEF ReplayedTo
  <1>12. \A r \in Requests : \A i \in Events : Beyond(r, i)' = Beyond(r, i)
    BY <1>8, <1>11 DEF Beyond
  <1> QED BY <1>2, <1>6, <1>7, <1>8, <1>9, <1>10, <1>11, <1>12

Frames == [event : Events, live : BOOLEAN]

LEMMA FramesTyped ==
  ASSUME TypeOK
  PROVE  \A r \in Requests : \A k \in DOMAIN sent[r] :
            sent[r][k].event \in Events /\ sent[r][k].live \in BOOLEAN
  <1> TAKE r \in Requests
  <1>1. sent[r] \in Seq(Frames)
    BY DEF TypeOK, Frames
  <1>2. \A k \in DOMAIN sent[r] : sent[r][k] \in Frames
    BY <1>1
  <1> QED BY <1>2 DEF Frames

LEMMA CommitStep ==
  ASSUME Inv, CommitMessage \/ CommitUnnumbered \/ Remove
  PROVE  Inv'
  <1> USE DEF Inv, SentFaithfully
  <1>1. PICK v \in {0, Newest + 1} : Emits(v)
    BY CommitEmits
  <1>2. /\ log' \in Seq(Nat) /\ Len(log') \in Nat /\ Len(log') <= MaxEvents
        /\ Events = 1 .. Len(log) /\ Events' = 1 .. Len(log') /\ Len(log) < Len(log')
        /\ \A i \in Events : i \in Events' /\ log'[i] = log[i]
        /\ \A i \in Events' \ Events : log'[i] = v /\ \A j \in Events : j < i
        /\ LogInv'
        /\ \A r \in Requests : ReplayedTo(r)' = ReplayedTo(r)
        /\ \A r \in Requests : \A i \in Events : Beyond(r, i)' = Beyond(r, i)
    BY <1>1, EmitAppends
  <1>3. UNCHANGED <<calm, open, entry, pc, fromSeq, rows, lastSeq, active, listening, checks, sent,
                    unheard, overtaken>>
        /\ unpublished' = unpublished \cup (Events' \ Events)
    BY <1>1 DEF Emits
  <1>4. Events \subseteq Events' /\ Len(log) \in Nat
    BY <1>2, LogTypes
  <1>5. \/ readable' = readable /\ removedAt' = removedAt /\ late' = late
        \/ /\ readable /\ readable' = FALSE /\ removedAt' = Len(log)
           /\ late' = {r \in Requests : pc[r] = "query"}
    BY DEF CommitMessage, CommitUnnumbered, Remove, history
  <1>6. TypeOK'
    <2>1. unpublished' \subseteq Events'
      BY <1>3, <1>4 DEF TypeOK
    <2>2. readable' \in BOOLEAN /\ removedAt' \in {None} \cup 0 .. MaxEvents
      <3>1. MaxEvents \in Nat
        BY StreamAssumption
      <3>2. Len(log) \in 0 .. MaxEvents
        BY <1>2, <1>4, <3>1
      <3> QED BY <1>5, <3>2 DEF TypeOK
    <2>3. rows \in [Requests -> Seq(Events')]
      BY <1>4, SeqMonotonic DEF TypeOK
    <2>4. sent \in [Requests -> Seq([event : Events', live : BOOLEAN])]
      <3>1. Frames \subseteq [event : Events', live : BOOLEAN]
        BY <1>4 DEF Frames
      <3>2. sent \in [Requests -> Seq(Frames)]
        BY DEF TypeOK, Frames
      <3> QED BY <3>1, <3>2, SeqMonotonic
    <2>5. checks \subseteq [to : Requests, event : Events', found : {"asked", "yes", "no"}]
      BY <1>4 DEF TypeOK
    <2>6. late' \subseteq Requests
      BY <1>5 DEF TypeOK
    <2>7. unheard \in [Requests -> SUBSET Events'] /\ overtaken \in [Requests -> SUBSET Events']
      BY <1>4 DEF TypeOK
    <2> QED BY <1>2, <1>3, <2>1, <2>2, <2>3, <2>4, <2>5, <2>6, <2>7 DEF TypeOK
  <1>7. SentOnce'
    BY <1>3 DEF SentOnce
  <1>8. RemovalIsFinal'
    <2>1. \A r \in Requests : \A k \in DOMAIN sent[r] : sent[r][k].event \in 1 .. Len(log)
      BY <1>2, FramesTyped
    <2> QED BY <1>2, <1>3, <1>5, <2>1, StreamAssumption DEF RemovalIsFinal, SetUpInv
  <1>9. SetUpInv'
    <2>1. removedAt' = None <=> readable'
      BY <1>4, <1>5, StreamAssumption DEF SetUpInv
    <2>2. \A r \in Requests : Prepared(r)'
      <3> TAKE r \in Requests
      <3>1. lastSeq[r] = fromSeq[r] \/ (\E j \in Events : log[j] = lastSeq[r])
            => lastSeq[r] = fromSeq[r] \/ \E j \in Events' : log'[j] = lastSeq[r]
        BY <1>2
      <3>2. pc[r] = "query" /\ ~readable' => r \in late'
        BY <1>5 DEF SetUpInv, Prepared
      <3> QED BY <1>2, <1>3, <3>1, <3>2 DEF SetUpInv, Prepared
    <2> QED BY <2>1, <2>2 DEF SetUpInv
  <1>10. RowsInv'
    <2>1. \A r \in Requests : \A k \in DOMAIN rows[r] : rows[r][k] \in Events
      BY DEF TypeOK
    <2>2. \A r \in Requests : ~readable' /\ r \notin late' =>
              \A k \in DOMAIN rows[r] : rows[r][k] <= removedAt'
      <3>1. CASE readable' = readable /\ removedAt' = removedAt /\ late' = late
        BY <3>1 DEF RowsInv
      <3>2. CASE removedAt' = Len(log)
        BY <1>2, <1>4, <2>1, <3>2
      <3> QED BY <1>5, <3>1, <3>2
    <2>3. \A r \in Requests : \A k \in DOMAIN rows[r] : log'[rows[r][k]] = log[rows[r][k]]
      BY <1>2, <2>1
    <2> QED BY <1>3, <2>2, <2>3 DEF RowsInv
  <1>11. CheckInv'
    <2>1. \A c \in checks : c.to \in Requests /\ c.event \in Events
      BY DEF TypeOK
    <2>2. ASSUME NEW i \in unpublished', NEW j \in Batch(i)'  PROVE j \in unpublished'
      <3>0. Newest \in Nat /\ \A e \in Events : log[e] <= Newest /\ log[e] \in Nat
        BY NewestBounds, LogTypes
      <3>1. i \in Events' /\ j \in Events' /\ (j = i \/ (log'[i] # 0 /\ log'[j] = log'[i]))
        BY <1>6, <2>2 DEF TypeOK, Batch
      <3>2. CASE j = i
        BY <3>2
      <3>3. CASE j \in Events /\ i \in Events /\ j # i
        <4>1. i \in unpublished /\ log[i] # 0 /\ log[j] = log[i]
          BY <1>2, <1>3, <2>2, <3>1, <3>3
        <4>2. j \in Batch(i)
          BY <3>3, <4>1 DEF Batch
        <4> QED BY <1>3, <4>1, <4>2 DEF CheckInv
      <3>4. CASE j \notin Events
        BY <1>3, <3>1, <3>4
      <3>5. CASE j \in Events /\ i \notin Events
        <4>1. log'[i] = v /\ log'[j] = log[j] /\ v # 0
          BY <1>2, <3>1, <3>5
        <4>2. v = Newest + 1 /\ log[j] = v
          BY <3>1, <3>5, <4>1
        <4> HIDE DEF Newest
        <4> QED BY <3>0, <3>5, <4>2
      <3> QED BY <3>2, <3>3, <3>4, <3>5
    <2>3. \A c \in checks : c.event \notin unpublished'
      BY <1>3, <2>1 DEF CheckInv
    <2>4. \A c \in checks : c.found = "yes" /\ removedAt' # None => c.event <= removedAt'
      BY <1>2, <1>5, <2>1 DEF CheckInv
    <2>5. \A c \in checks : pc'[c.to] = "attached" /\ Beyond(c.to, c.event)'
      BY <1>2, <1>3, <2>1 DEF CheckInv
    <2>6. \A i \in unpublished' : Batch(i)' \subseteq unpublished'
      BY <2>2
    <2> QED BY <1>3, <2>3, <2>4, <2>5, <2>6 DEF CheckInv
  <1>12. SentInv'
    <2>1. \A r \in Requests : \A k \in DOMAIN sent[r] : sent[r][k].event \in Events
      BY FramesTyped
    <2>2. \A i \in Events : i \in unpublished' => i \in unpublished
      BY <1>3
    <2> QED BY <1>2, <1>3, <2>1, <2>2 DEF SentInv
  <1>13. \A r \in Requests : \A i \in Missed(r)' : i \in Missed(r) \/ i \in unpublished'
    BY <1>2, <1>3 DEF Missed
  <1>14. \A r \in Requests : \A i \in Missed(r) : Underway(r, i) => Underway(r, i)'
    BY <1>3 DEF Underway
  <1>15. LostOnlyInBetween'
    BY <1>3, <1>13, <1>14 DEF LostOnlyInBetween, Whole, Ended, Got, Underway
  <1>16. QueriedInv'
    BY <1>3, <1>13 DEF QueriedInv, Uncut, InRows
  <1> QED BY <1>2, <1>6, <1>7, <1>8, <1>9, <1>10, <1>11, <1>12, <1>15, <1>16

(***************************************************************************)
(* The subscribe message.                                                  *)
(***************************************************************************)
\* Nothing that the log or the listeners depend on changes.
LEMMA HandlerFrame ==
  ASSUME Inv, NEW q \in Requests, pc[q] # "attached",
         UNCHANGED <<log, unpublished, readable, removedAt, open, active, checks, listening, sent,
                     lastSeq, late, unheard, overtaken>>,
         TypeOK', pc'[q] # "attached", pc'[q] = "query" => readable \/ q \in late,
         \A r \in Requests \ {q} : pc'[r] = pc[r] /\ fromSeq'[r] = fromSeq[r] /\ rows'[r] = rows[r],
         pc'[q] \notin {"attach", "attached"} => rows'[q] = <<>> /\ unheard[q] = {},
         \A k \in DOMAIN rows'[q] : log[rows'[q][k]] > fromSeq'[q],
         \A j, k \in DOMAIN rows'[q] : j < k =>
             rows'[q][j] # rows'[q][k] /\ log[rows'[q][j]] <= log[rows'[q][k]],
         ~readable /\ q \notin late => \A k \in DOMAIN rows'[q] : rows'[q][k] <= removedAt,
         pc'[q] = "attach" /\ Uncut(q)' => \A i \in Missed(q)' : InRows(q, i)'
  PROVE  Inv'
  <1> USE DEF Inv, SentFaithfully
  <1>1. UNCHANGED <<log, unpublished, readable, removedAt, checks, listening, sent, lastSeq, late>>
    OBVIOUS
  <1>2. ASSUME NEW r \in Requests, r # q  PROVE ReplayedTo(r)' = ReplayedTo(r)
    <2>1. rows'[r] = rows[r] /\ fromSeq'[r] = fromSeq[r] /\ log' = log
      BY <1>1, <1>2
    <2> QED BY <2>1 DEF ReplayedTo
  <1>3. \A r \in Requests : r # q => \A i : Beyond(r, i)' = Beyond(r, i)
    BY <1>1, <1>2 DEF Beyond
  <1>4. SentOnce' /\ RemovalIsFinal' /\ LogInv'
    BY <1>1 DEF SentOnce, RemovalIsFinal, LogInv, Events
  <1>5. SetUpInv'
    <2>1. ASSUME NEW r \in Requests, r # q  PROVE Prepared(r)'
      BY <1>1, <1>2, <2>1 DEF SetUpInv, Prepared, Events
    <2>2. Prepared(q)'
      BY <1>1 DEF SetUpInv, Prepared
    <2> QED BY <1>1, <2>1, <2>2 DEF SetUpInv
  <1>6. RowsInv'
    BY <1>1 DEF RowsInv
  <1>7. \A c \in checks : c.to \in Requests /\ c.to # q
    BY DEF TypeOK, CheckInv
  <1>8. CheckInv'
    BY <1>1, <1>3, <1>7 DEF CheckInv, Batch, Events
  <1>9. SentInv'
    BY <1>1, <1>3 DEF SentInv, SetUpInv, Prepared
  <1>10. \A r \in Requests \ {q} : Missed(r)' = Missed(r)
    BY <1>1 DEF Missed, Events
  <1>11. LostOnlyInBetween'
    <2>1. \A r \in Requests : Whole(r)' => r # q /\ Whole(r)
      BY DEF Whole
    <2>2. \A r \in Requests : Ended(r)' <=> Ended(r)
      BY DEF Ended
    <2>3. \A r \in Requests : \A i : (Got(r, i)' <=> Got(r, i)) /\ (Underway(r, i)' <=> Underway(r, i))
      BY DEF Got, Underway
    <2> QED BY <1>1, <1>10, <2>1, <2>2, <2>3 DEF LostOnlyInBetween
  <1>12. QueriedInv'
    BY <1>1, <1>10 DEF QueriedInv, Uncut, InRows
  <1> QED BY <1>4, <1>5, <1>6, <1>8, <1>9, <1>11, <1>12

\* A page is a list of missed events; a page that is not full has them all.
LEMMA PagesTyped ==
  ASSUME TypeOK, NEW r \in Requests, NEW page \in Pages(r)
  PROVE  /\ page \in Seq(Events) /\ Len(page) <= Limit
         /\ \A k \in DOMAIN page : page[k] \in Missed(r)
         /\ Len(page) < Limit => \A i \in Missed(r) : \E k \in DOMAIN page : page[k] = i
  <1> DEFINE M == Missed(r)
             c == Cardinality(M)
  <1>1. IsFiniteSet(M) /\ c \in Nat /\ M \subseteq Events
    <2>1. IsFiniteSet(Events) /\ M \subseteq Events
      BY LogTypes, FS_Interval DEF Missed
    <2> QED BY <2>1, FS_Subset, FS_CardinalityType
  <1>2. page \in [1 .. Length(c) -> M] /\ Ordered(page, M)
    BY DEF Pages
  <1>3. Length(c) \in Nat /\ Length(c) <= Limit /\ (Length(c) < Limit => Length(c) = c)
    BY <1>1, StreamAssumption DEF Length
  <1> HIDE DEF M
  <1>4. page \in Seq(M) /\ Len(page) = Length(c) /\ DOMAIN page = 1 .. Length(c)
    BY <1>2, <1>3, IsASeq, LenProperties
  <1>5. page \in Seq(Events)
    BY <1>1, <1>4, SeqMonotonic
  <1>6. ASSUME Length(c) = c, NEW i \in M, \A k \in 1 .. c : page[k] # i  PROVE FALSE
    <2>1. IsFiniteSet(M \ {i}) /\ Cardinality(M \ {i}) = c - 1
      BY <1>1, <1>6, FS_RemoveElement
    <2>2. IsFiniteSet(1 .. c) /\ Cardinality(1 .. c) = c
      BY <1>1, FS_Interval
    <2>3. page \in [1 .. c -> M \ {i}] /\ Cardinality(M \ {i}) < Cardinality(1 .. c)
      BY <1>1, <1>2, <1>6, <2>1, <2>2
    <2>4. \E x, y \in 1 .. c : x # y /\ page[x] = page[y]
      <3> DEFINE D == 1 .. c
                 T == M \ {i}
      <3>1. IsFiniteSet(D) /\ IsFiniteSet(T) /\ Cardinality(T) < Cardinality(D) /\ page \in [D -> T]
        BY <2>1, <2>2, <2>3
      <3> HIDE DEF D, T
      <3>2. \E x, y \in D : x # y /\ page[x] = page[y]
        BY <3>1, FS_PigeonHole
      <3> QED BY <3>2 DEF D
    <2>5. \A x, y \in 1 .. c : x < y => page[x] # page[y]
      BY <1>2, <1>4, <1>6 DEF Ordered
    <2> HIDE DEF c
    <2>6. \A x, y \in 1 .. c : x # y => x < y \/ y < x
      BY <1>1
    <2> QED BY <2>4, <2>5, <2>6
  <1>7. Len(page) < Limit => \A i \in M : \E k \in DOMAIN page : page[k] = i
    BY <1>3, <1>4, <1>6
  <1> QED BY <1>2, <1>3, <1>4, <1>5, <1>7 DEF M

LEMMA HandlerStep ==
  ASSUME Inv, NEW r \in Requests, Subscribe(r) \/ Authorize(r) \/ Query(r)
  PROVE  Inv'
  <1> USE DEF Inv, SentFaithfully
  <1>0. /\ rows \in [Requests -> Seq(Events)] /\ pc \in [Requests -> PCs]
        /\ fromSeq \in [Requests -> Nat] /\ \A q \in Requests : Len(rows[q]) <= Limit
    BY DEF TypeOK
  <1>00. /\ UNCHANGED <<service, calm, open, entry, lastSeq, active, listening, checks, sent, history>>
         /\ UNCHANGED <<log, unpublished, readable, removedAt, late, unheard, overtaken>>
    BY DEF Subscribe, Authorize, Query, service, history
  <1>1. CASE Subscribe(r)
    <2>1. PICK n \in FromSeqs : fromSeq' = [fromSeq EXCEPT ![r] = n]
      BY <1>1 DEF Subscribe
    <2>2. /\ rows' = rows
          /\ pc[r] = "idle" /\ \E l \in {"authorize", "refused"} : pc' = [pc EXCEPT ![r] = l]
      BY <1>1 DEF Subscribe
    <2>3. TypeOK'
      <3>1. fromSeq' \in [Requests -> Nat] /\ pc' \in [Requests -> PCs]
        BY <1>0, <2>1, <2>2, StreamAssumption DEF PCs
      <3> QED BY <1>00, <2>2, <3>1 DEF TypeOK, Events
    <2>4. rows[r] = <<>> /\ unheard[r] = {}
      BY <2>2 DEF SetUpInv, Prepared
    <2>5. /\ pc'[r] \notin {"query", "attach", "attached"}
          /\ \A q \in Requests \ {r} : pc'[q] = pc[q] /\ fromSeq'[q] = fromSeq[q] /\ rows'[q] = rows[q]
      BY <1>0, <2>1, <2>2
    <2> QED BY <1>00, <2>2, <2>3, <2>4, <2>5, HandlerFrame
  <1>2. CASE Authorize(r)
    <2>1. /\ rows' = rows /\ fromSeq' = fromSeq
          /\ pc[r] = "authorize" /\ pc' = [pc EXCEPT ![r] = IF readable THEN "query" ELSE "refused"]
      BY <1>2 DEF Authorize
    <2>2. TypeOK'
      <3>1. pc' \in [Requests -> PCs]
        BY <1>0, <2>1 DEF PCs
      <3> QED BY <1>00, <2>1, <3>1 DEF TypeOK, Events
    <2>3. rows[r] = <<>> /\ unheard[r] = {}
      BY <2>1 DEF SetUpInv, Prepared
    <2>4. /\ pc'[r] \notin {"attach", "attached"} /\ (pc'[r] = "query" => readable)
          /\ \A q \in Requests \ {r} : pc'[q] = pc[q] /\ fromSeq'[q] = fromSeq[q] /\ rows'[q] = rows[q]
      BY <1>0, <2>1
    <2> QED BY <1>00, <2>1, <2>2, <2>3, <2>4, HandlerFrame
  <1>3. CASE Query(r)
    <2>1. PICK page \in Pages(r) : rows' = [rows EXCEPT ![r] = page]
      BY <1>3 DEF Query
    <2>2. pc[r] = "query" /\ pc' = [pc EXCEPT ![r] = "attach"] /\ fromSeq' = fromSeq
      BY <1>3 DEF Query
    <2>3. /\ page \in Seq(Events) /\ Len(page) <= Limit
          /\ \A k \in DOMAIN page : page[k] \in Missed(r)
          /\ Len(page) < Limit => \A i \in Missed(r) : \E k \in DOMAIN page : page[k] = i
      BY PagesTyped
    <2>4. rows'[r] = page
      BY <1>0, <2>1
    <2>5. TypeOK'
      <3>1. /\ pc' \in [Requests -> PCs] /\ rows' \in [Requests -> Seq(Events)]
            /\ \A q \in Requests : Len(rows'[q]) <= Limit
        BY <1>0, <2>1, <2>2, <2>3 DEF PCs
      <3> QED BY <1>00, <2>2, <3>1 DEF TypeOK, Events
    <2>6. /\ pc'[r] = "attach"
          /\ \A q \in Requests \ {r} : pc'[q] = pc[q] /\ fromSeq'[q] = fromSeq[q] /\ rows'[q] = rows[q]
      BY <1>0, <2>1, <2>2
    <2>7. \A k \in DOMAIN rows'[r] : log[rows'[r][k]] > fromSeq'[r]
      BY <2>2, <2>3, <2>4 DEF Missed
    <2>8. \A j, k \in DOMAIN rows'[r] : j < k =>
             rows'[r][j] # rows'[r][k] /\ log[rows'[r][j]] <= log[rows'[r][k]]
      BY <2>4 DEF Pages, Ordered
    <2>9. readable \/ r \in late
      BY <2>2 DEF SetUpInv, Prepared
    <2>10. Uncut(r)' => \A i \in Missed(r)' : InRows(r, i)'
      BY <1>00, <2>2, <2>3, <2>4 DEF Uncut, Missed, Events, InRows
    <2> QED BY <1>00, <2>2, <2>5, <2>6, <2>7, <2>8, <2>9, <2>10, HandlerFrame
  <1> QED BY <1>1, <1>2, <1>3

\* Nothing is known to r before it attaches; then it has its replay.
LEMMA AttachStep ==
  ASSUME Inv, NEW r \in Requests, Attach(r)
  PROVE  Inv'
  <1> USE DEF Inv, SentFaithfully
  <1> DEFINE frames == [k \in DOMAIN rows[r] |-> Frame(rows[r][k], FALSE)]
  <1>1. /\ UNCHANGED <<service, calm, open, fromSeq, rows, checks, history>>
        /\ pc[r] = "attach" /\ pc' = [pc EXCEPT ![r] = "attached"]
        /\ lastSeq' = [lastSeq EXCEPT ![r] = ReplayedTo(r)]
        /\ active' = [active EXCEPT ![r] = TRUE]
        /\ listening' = listening \cup {r} /\ entry' = r
        /\ sent' = IF open THEN [sent EXCEPT ![r] = @ \o frames] ELSE sent
    BY DEF Attach, Send
  <1>2. sent[r] = <<>> /\ sent \in [Requests -> Seq(Frames)] /\ pc \in [Requests -> PCs]
    BY <1>1 DEF SetUpInv, Prepared, TypeOK, Frames
  <1>3. /\ rows[r] \in Seq(Events) /\ DOMAIN rows[r] = 1 .. Len(rows[r]) /\ Len(rows[r]) \in Nat
        /\ \A k \in DOMAIN rows[r] : rows[r][k] \in Events
        /\ \A i \in Events : i \in Nat /\ log[i] \in Nat
        /\ fromSeq[r] \in Nat
    <2>1. rows[r] \in Seq(Events) /\ fromSeq[r] \in Nat
      BY DEF TypeOK
    <2>2. \A i \in Events : i \in Nat /\ log[i] \in Nat
      BY LogTypes
    <2> QED BY <2>1, <2>2, LenProperties, ElementOfSeq
  <1>4. frames \in Seq(Frames) /\ DOMAIN frames = DOMAIN rows[r]
    <2>1. \A k \in DOMAIN rows[r] : Frame(rows[r][k], FALSE) \in Frames
      BY <1>3 DEF Frame, Frames
    <2>2. Len(rows[r]) \in Nat
      BY <1>3, LenProperties
    <2>3. frames \in [DOMAIN rows[r] -> Frames]
      BY <2>1
    <2>4. DOMAIN frames = DOMAIN rows[r]
      OBVIOUS
    <2> HIDE DEF frames
    <2>5. frames \in [1 .. Len(rows[r]) -> Frames]
      BY <1>3, <2>3
    <2>6. frames \in Seq(Frames)
      BY <2>2, <2>5, IsASeq
    <2> QED BY <2>4, <2>6
  <1>5. /\ sent' \in [Requests -> Seq(Frames)]
        /\ sent'[r] = IF open THEN frames ELSE <<>>
        /\ \A q \in Requests \ {r} : sent'[q] = sent[q]
    <2>1. sent[r] \o frames = frames
      BY <1>2, <1>4, ConcatEmptySeq
    <2> HIDE DEF frames
    <2> QED BY <1>1, <1>2, <1>4, <2>1, EmptySeq
  <1>6. /\ ReplayedTo(r) \in Nat
        /\ \A k \in DOMAIN rows[r] : log[rows[r][k]] <= ReplayedTo(r)
        /\ ReplayedTo(r) = fromSeq[r] \/ \E k \in DOMAIN rows[r] : ReplayedTo(r) = log[rows[r][k]]
    BY ReplayedToIsThere
  <1>7. UNCHANGED <<log, unpublished, readable, removedAt, late, unheard, overtaken>>
    BY <1>1 DEF service, history
  <1>8. \A q \in Requests : ReplayedTo(q)' = ReplayedTo(q) /\ \A i : Beyond(q, i)' = Beyond(q, i)
    BY <1>1, <1>7 DEF ReplayedTo, Beyond
  <1>9. TypeOK'
    <2>1. lastSeq' \in [Requests -> Nat] /\ pc' \in [Requests -> PCs] /\ active' \in [Requests -> BOOLEAN]
      BY <1>1, <1>2, <1>6 DEF TypeOK, PCs
    <2>2. entry' \in Requests \cup {None} /\ listening' \subseteq Requests
      BY <1>1 DEF TypeOK
    <2> QED BY <1>1, <1>5, <1>7, <2>1, <2>2 DEF TypeOK, Frames, Events
  <1>10. \A k \in DOMAIN sent'[r] : /\ k \in DOMAIN rows[r] /\ sent'[r] = frames
                                    /\ sent'[r][k].event = rows[r][k] /\ sent'[r][k].live = FALSE
    <2>1. \A k \in DOMAIN rows[r] : frames[k].event = rows[r][k] /\ frames[k].live = FALSE
      BY DEF Frame
    <2> HIDE DEF frames
    <2> QED BY <1>4, <1>5, <2>1
  <1>11. open => \A k \in DOMAIN rows[r] : k \in DOMAIN sent'[r] /\ sent'[r][k].event = rows[r][k]
    <2>1. open => DOMAIN sent'[r] = DOMAIN rows[r]
      BY <1>4, <1>5
    <2> QED BY <1>10, <2>1
  <1> HIDE DEF frames
  <1>12. SentOnce'
    <2>1. ASSUME NEW j \in DOMAIN sent'[r], NEW k \in DOMAIN sent'[r],
                 sent'[r][j].event = sent'[r][k].event
          PROVE  j = k
      <3>1. j \in DOMAIN rows[r] /\ k \in DOMAIN rows[r] /\ rows[r][j] = rows[r][k]
        BY <1>10, <2>1
      <3>2. j \in Nat /\ k \in Nat
        BY <1>3, <3>1
      <3> QED BY <3>1, <3>2 DEF RowsInv
    <2> QED BY <1>5, <2>1 DEF SentOnce
  <1>13. RemovalIsFinal'
    <2>1. ASSUME removedAt # None, NEW k \in DOMAIN sent'[r], sent'[r][k].event > removedAt
          PROVE  r \in late /\ ~sent'[r][k].live
      <3>1. ~readable /\ k \in DOMAIN rows[r] /\ rows[r][k] > removedAt /\ ~sent'[r][k].live
        BY <1>10, <2>1 DEF SetUpInv
      <3>2. ~(rows[r][k] <= removedAt)
        <4>1. rows[r][k] \in Nat /\ removedAt \in Nat
          BY <1>3, <2>1, <3>1 DEF TypeOK
        <4> QED BY <3>1, <4>1
      <3> QED BY <3>1, <3>2 DEF RowsInv
    <2> QED BY <1>5, <1>7, <2>1 DEF RemovalIsFinal
  <1>14. SetUpInv'
    <2>1. pc'[r] = "attached" /\ lastSeq'[r] = ReplayedTo(r) /\ active'[r]
      BY <1>1, <1>2 DEF TypeOK
    <2>2. lastSeq'[r] >= ReplayedTo(r)'
      BY <1>6, <1>8, <2>1
    <2>3. lastSeq'[r] = fromSeq'[r] \/ \E j \in Events' : log'[j] = lastSeq'[r]
      BY <1>1, <1>3, <1>6, <1>7, <2>1 DEF Events
    <2>4. ASSUME NEW q \in Requests \ {r}  PROVE Prepared(q)'
      <3>1. /\ pc'[q] = pc[q] /\ lastSeq'[q] = lastSeq[q] /\ fromSeq' = fromSeq /\ active'[q] = active[q]
            /\ rows'[q] = rows[q] /\ (q \in listening' <=> q \in listening) /\ sent'[q] = sent[q]
        BY <1>1, <1>2, <1>5 DEF TypeOK
      <3> QED BY <1>7, <1>8, <3>1 DEF SetUpInv, Prepared, Events
    <2>5. removedAt' = None <=> readable'
      BY <1>7 DEF SetUpInv
    <2> QED BY <2>1, <2>2, <2>3, <2>4, <2>5 DEF SetUpInv, Prepared
  <1>15. RowsInv' /\ LogInv'
    BY <1>1, <1>7 DEF RowsInv, LogInv, Events
  <1>16. CheckInv'
    <2>1. \A c \in checks : c.to \in Requests
      BY DEF TypeOK
    <2> QED BY <1>1, <1>2, <1>7, <1>8, <2>1 DEF CheckInv, Batch, Events
  <1>17. SentInv'
    <2>1. ASSUME NEW k \in DOMAIN sent'[r]  PROVE ~Beyond(r, sent'[r][k].event)
      <3>1. /\ k \in DOMAIN rows[r] /\ log[rows[r][k]] > fromSeq[r] /\ log[rows[r][k]] <= ReplayedTo(r)
            /\ log[rows[r][k]] \in Nat /\ fromSeq[r] \in Nat
        BY <1>3, <1>6, <1>10 DEF RowsInv
      <3> QED BY <1>6, <1>10, <3>1 DEF Beyond
    <2>2. \A k \in DOMAIN sent'[r] : ~sent'[r][k].live /\ ~Beyond(r, sent[r][k].event)'
      BY <1>8, <1>10, <2>1
    <2>3. ASSUME NEW q \in Requests \ {r}, NEW k \in DOMAIN sent'[q]
          PROVE  IF sent'[q][k].live
                   THEN /\ sent'[q][k].event \notin unpublished'
                        /\ Beyond(q, sent[q][k].event)'
                        /\ \A c \in checks' : c.to = q => c.event # sent'[q][k].event
                   ELSE ~Beyond(q, sent[q][k].event)'
      <3>1. sent'[q] = sent[q] /\ checks' = checks
        BY <1>1, <1>5
      <3> QED BY <1>7, <1>8, <3>1 DEF SentInv
    <2> QED BY <2>2, <2>3 DEF SentInv
  <1>18. \A q \in Requests : Missed(q)' = Missed(q)
    BY <1>1, <1>7 DEF Missed, Events
  <1>19. LostOnlyInBetween'
    <2>1. ASSUME Uncut(r), open, NEW i \in Missed(r)
          PROVE  Got(r, i)' \/ i \in unpublished \/ i \in unheard[r]
      <3>1. InRows(r, i) => Got(r, i)'
        BY <1>11, <2>1 DEF InRows, Got
      <3> QED BY <1>1, <2>1, <3>1 DEF QueriedInv
    <2>2. ASSUME NEW q \in Requests \ {r}
          PROVE  /\ (Whole(q)' <=> Whole(q)) /\ (Ended(q)' <=> Ended(q))
                 /\ \A i : (Got(q, i)' <=> Got(q, i)) /\ (Underway(q, i)' <=> Underway(q, i))
      BY <1>1, <1>2, <1>5, <1>7 DEF Whole, Ended, Got, Underway
    <2>3. Whole(r)' /\ ~Ended(r)' => Uncut(r) /\ open
      BY <1>1 DEF Whole, Ended, Uncut
    <2> QED BY <1>7, <1>18, <2>1, <2>2, <2>3 DEF LostOnlyInBetween, Underway
  <1>20. QueriedInv'
    <2>1. \A q \in Requests : pc'[q] = "attach" => pc[q] = "attach"
      BY <1>1, <1>2
    <2> QED BY <1>1, <1>7, <1>18, <2>1 DEF QueriedInv, Uncut, InRows
  <1> QED BY <1>9, <1>12, <1>13, <1>14, <1>15, <1>16, <1>17, <1>19, <1>20

(***************************************************************************)
(* Live events, and the end of a subscription.                             *)
(***************************************************************************)
\* What a listener call does leaves these alone.
LEMMA LiveFrame ==
  ASSUME UNCHANGED <<log, rows, fromSeq>>
  PROVE  /\ Events' = Events
         /\ \A q : ReplayedTo(q)' = ReplayedTo(q) /\ Missed(q)' = Missed(q)
         /\ \A q, i : Beyond(q, i)' = Beyond(q, i) /\ InRows(q, i)' = InRows(q, i)
         /\ \A i : Batch(i)' = Batch(i)
  BY DEF Events, ReplayedTo, Missed, Beyond, InRows, Batch

Checks == [to : Requests, event : Events, found : {"asked", "yes", "no"}]

LEMMA PublishStep ==
  ASSUME Inv, NEW i \in unpublished, Publish(i)
  PROVE  Inv'
  <1> USE DEF Inv, SentFaithfully
  <1> DEFINE asked == {c \in [to : listening, event : Batch(i), found : {"asked"}] : Passes(c.to, c.event)}
  <1>1. /\ UNCHANGED <<log, readable, removedAt, calm, open, entry, pc, fromSeq, rows, lastSeq, active,
                       listening, sent, late>>
        /\ unpublished' = unpublished \ Batch(i) /\ checks' = checks \cup asked
    BY DEF Publish, handler
  <1>2. /\ Events' = Events
        /\ \A q : ReplayedTo(q)' = ReplayedTo(q) /\ Missed(q)' = Missed(q)
        /\ \A q, j : Beyond(q, j)' = Beyond(q, j) /\ InRows(q, j)' = InRows(q, j)
        /\ \A j : Batch(j)' = Batch(j)
    BY <1>1, LiveFrame
  <1>3. Batch(i) \subseteq unpublished /\ Batch(i) \subseteq Events /\ listening \subseteq Requests
    BY DEF CheckInv, TypeOK, Batch
  <1>4. \A c \in asked : /\ c \in Checks
                         /\ c.event \in Batch(i) /\ c.found = "asked" /\ c.to \in listening
                         /\ Passes(c.to, c.event)
    BY <1>3 DEF Checks
  <1>5. \A c, d \in asked : c.to = d.to /\ c.event = d.event => c = d
    OBVIOUS
  <1>6. \A q \in listening, j \in Batch(i) : Passes(q, j) =>
            \E c \in asked : c.to = q /\ c.event = j
    <2> TAKE q \in listening, j \in Batch(i)
    <2> SUFFICES ASSUME Passes(q, j)  PROVE \E c \in asked : c.to = q /\ c.event = j
      OBVIOUS
    <2> DEFINE c == [to |-> q, event |-> j, found |-> "asked"]
    <2>1. c \in asked /\ c.to = q /\ c.event = j
      OBVIOUS
    <2> QED BY <2>1
  <1> HIDE DEF asked
  <1>7. /\ unheard' = [r \in Requests |->
                         unheard[r] \cup {j \in Batch(i) : pc[r] = "attach" /\ ~InRows(r, j)}]
        /\ overtaken' = [r \in Requests |->
                     overtaken[r] \cup {j \in Batch(i) : pc[r] = "attached" /\ 0 < log[j] /\ log[j] <= lastSeq[r]}]
    BY DEF Publish
  <1>8. TypeOK'
    <2>1. checks' \subseteq Checks
      BY <1>1, <1>4 DEF TypeOK, Checks
    <2>2. unpublished' \subseteq Events
      BY <1>1 DEF TypeOK
    <2>3. unheard' \in [Requests -> SUBSET Events] /\ overtaken' \in [Requests -> SUBSET Events]
      BY <1>3, <1>7 DEF TypeOK
    <2> QED BY <1>1, <1>2, <2>1, <2>2, <2>3 DEF TypeOK, Checks
  <1>9. SentOnce' /\ RemovalIsFinal' /\ LogInv' /\ RowsInv'
    BY <1>1, <1>2 DEF SentOnce, RemovalIsFinal, LogInv, RowsInv
  <1>10. SetUpInv'
    <2>1. \A r \in Requests : /\ pc[r] # "attached" => overtaken'[r] = overtaken[r]
                              /\ pc[r] # "attach" => unheard'[r] = unheard[r]
      BY <1>7 DEF TypeOK
    <2>2. ASSUME NEW r \in Requests  PROVE Prepared(r)'
      BY <1>1, <1>2, <2>1 DEF SetUpInv, Prepared
    <2> QED BY <1>1, <2>2 DEF SetUpInv
  <1>11. \A c \in checks : c.event \notin Batch(i)
    BY <1>3 DEF CheckInv
  <1>12. ASSUME NEW c \in asked  PROVE pc[c.to] = "attached" /\ Beyond(c.to, c.event)
    <2>1. c.to \in Requests /\ pc[c.to] = "attached" /\ c.event \in Events
      BY <1>3, <1>4 DEF SetUpInv, Prepared
    <2>2. log[c.event] = 0 \/ log[c.event] > lastSeq[c.to]
      BY <1>4 DEF Passes
    <2>3. lastSeq[c.to] >= ReplayedTo(c.to)
      BY <2>1 DEF SetUpInv, Prepared
    <2>4. ReplayedTo(c.to) \in Nat
      BY <2>1, ReplayedToIsThere
    <2>5. lastSeq[c.to] \in Nat /\ log[c.event] \in Nat
      BY <2>1, LogTypes DEF TypeOK
    <2> QED BY <2>1, <2>2, <2>3, <2>4, <2>5 DEF Beyond
  <1>13. CheckInv'
    <2>1. ASSUME NEW c \in checks'
          PROVE  /\ pc[c.to] = "attached" /\ c.event \notin unpublished' /\ Beyond(c.to, c.event)
                 /\ c.found = "yes" /\ removedAt # None => c.event <= removedAt
      BY <1>1, <1>4, <1>12 DEF CheckInv
    <2>2. \A c, d \in checks' : c.to = d.to /\ c.event = d.event => c = d
      BY <1>1, <1>4, <1>5, <1>11 DEF CheckInv
    <2>3. ASSUME NEW k \in unpublished', NEW j \in Batch(k)  PROVE j \in unpublished'
      <3>1. k \in unpublished /\ k \notin Batch(i) /\ j \in unpublished
        BY <1>1, <2>3 DEF CheckInv
      <3>2. j \notin Batch(i)
        <4>1. k \in Events /\ j \in Events
          BY <3>1 DEF TypeOK
        <4> QED BY <2>3, <3>1, <4>1 DEF Batch
      <3> QED BY <1>1, <3>1, <3>2
    <2>4. \A k \in unpublished' : Batch(k) \subseteq unpublished'
      BY <2>3
    <2> QED BY <1>1, <1>2, <2>1, <2>2, <2>4 DEF CheckInv
  <1>14. SentInv'
    <2>1. \A c \in checks' : c \in checks \/ c.event \in unpublished
      BY <1>1, <1>3, <1>4
    <2> QED BY <1>1, <1>2, <2>1 DEF SentInv
  <1>15. LostOnlyInBetween'
    <2> SUFFICES ASSUME NEW r \in Requests, Whole(r), ~Ended(r), NEW j \in Missed(r)
                 PROVE  Got(r, j) \/ Underway(r, j)' \/ j \in unheard'[r] \/ j \in overtaken'[r]
      <3>1. \A r \in Requests : /\ Whole(r)' <=> Whole(r) 
                                /\ Ended(r)' <=> Ended(r)
                                /\ \A j : Got(r, j)' <=> Got(r, j)
        BY <1>1 DEF Whole, Ended, Got
      <3> QED BY <1>2, <3>1 DEF LostOnlyInBetween
    <2>1. CASE j \in Batch(i)
      <3>1. log[j] > 0 /\ log[j] \in Nat /\ lastSeq[r] \in Nat
        <4>1. log[j] \in Nat /\ fromSeq[r] \in Nat /\ lastSeq[r] \in Nat
          BY LogTypes DEF Missed, TypeOK
        <4>2. log[j] > fromSeq[r]
          BY DEF Missed
        <4> QED BY <4>1, <4>2
      <3>2. pc[r] = "attached" /\ r \in listening /\ active[r]
        BY DEF Whole, Ended, SetUpInv, Prepared
      <3>3. CASE log[j] <= lastSeq[r]
        BY <1>7, <2>1, <3>1, <3>2, <3>3
      <3>4. CASE log[j] > lastSeq[r]
        <4>1. Passes(r, j)
          BY <3>2, <3>4 DEF Passes
        <4> QED BY <1>1, <1>6, <2>1, <3>2, <4>1 DEF Underway
      <3> QED BY <3>1, <3>3, <3>4
    <2>2. CASE j \notin Batch(i)
      <3>1. Got(r, j) \/ Underway(r, j) \/ j \in unheard[r] \/ j \in overtaken[r]
        BY DEF LostOnlyInBetween
      <3>2. Underway(r, j) => Underway(r, j)'
        BY <1>1, <2>2 DEF Underway
      <3> QED BY <1>7, <3>1, <3>2
    <2> QED BY <2>1, <2>2
  <1>16. QueriedInv'
    <2> SUFFICES ASSUME NEW r \in Requests, pc[r] = "attach", Uncut(r), NEW j \in Missed(r)
                 PROVE  InRows(r, j) \/ j \in unpublished' \/ j \in unheard'[r]
      BY <1>1, <1>2 DEF QueriedInv, Uncut
    <2>1. InRows(r, j) \/ j \in unpublished \/ j \in unheard[r]
      BY DEF QueriedInv
    <2> QED BY <1>1, <1>7, <2>1
  <1> QED BY <1>8, <1>9, <1>10, <1>13, <1>14, <1>15, <1>16

LEMMA CheckStep ==
  ASSUME Inv, NEW c \in checks, Check(c)
  PROVE  Inv'
  <1> USE DEF Inv, SentFaithfully
  <1> DEFINE d == [c EXCEPT !.found = Finds]
  <1>1. /\ UNCHANGED <<log, unpublished, readable, removedAt, calm, open, entry, pc, fromSeq, rows, lastSeq,
                       active, listening, sent, late, unheard, overtaken>>
        /\ checks' = (checks \ {c}) \cup {d}
    BY DEF Check, service, handler, history
  <1>2. /\ Events' = Events
        /\ \A q : ReplayedTo(q)' = ReplayedTo(q) /\ Missed(q)' = Missed(q)
        /\ \A q, j : Beyond(q, j)' = Beyond(q, j) /\ InRows(q, j)' = InRows(q, j)
        /\ \A j : Batch(j)' = Batch(j)
    BY <1>1, LiveFrame
  <1>3. /\ c \in Checks
        /\ Events \in SUBSET Nat /\ Len(log) \in Nat /\ Events = 1 .. Len(log)
    <2>1. Len(log) \in Nat /\ Events = 1 .. Len(log)
      BY LogTypes
    <2>2. c \in Checks
      BY DEF TypeOK, Checks
    <2>3. Events \in SUBSET Nat
      BY <2>1
    <2> QED BY <2>1, <2>2, <2>3
  <1>4. d \in Checks /\ d.to = c.to /\ d.event = c.event /\ (d.found = "yes" => readable)
    BY <1>3 DEF Finds, Checks
  <1> HIDE DEF d
  <1>5. TypeOK'
    <2>1. checks' \subseteq Checks
      BY <1>1, <1>4 DEF TypeOK, Checks
    <2> QED BY <1>1, <1>2, <2>1 DEF TypeOK, Checks
  <1>6. SentOnce' /\ RemovalIsFinal' /\ LogInv' /\ RowsInv'
    BY <1>1, <1>2 DEF SentOnce, RemovalIsFinal, LogInv, RowsInv
  <1>7. SetUpInv'
    <2>1. ASSUME NEW r \in Requests  PROVE Prepared(r)'
      BY <1>1, <1>2 DEF SetUpInv, Prepared
    <2> QED BY <1>1, <2>1 DEF SetUpInv
  <1>8. CheckInv'
    BY <1>1, <1>2, <1>4 DEF CheckInv, SetUpInv
  <1>9. /\ \A e \in checks' : \E f \in checks : e.to = f.to /\ e.event = f.event
        /\ \A f \in checks : \E e \in checks' : e.to = f.to /\ e.event = f.event
    BY <1>1, <1>4
  <1>10. SentInv'
    BY <1>1, <1>2, <1>9 DEF SentInv
  <1>11. LostOnlyInBetween'
    <2>1. \A r, j : Underway(r, j) => Underway(r, j)'
      BY <1>1, <1>9 DEF Underway
    <2>2. \A r : (Whole(r)' <=> Whole(r)) /\ (Ended(r)' <=> Ended(r)) /\ \A j : Got(r, j)' <=> Got(r, j)
      BY <1>1 DEF Whole, Ended, Got
    <2> QED BY <1>1, <1>2, <2>1, <2>2 DEF LostOnlyInBetween
  <1>12. QueriedInv'
    BY <1>1, <1>2 DEF QueriedInv, Uncut
  <1> QED BY <1>5, <1>6, <1>7, <1>8, <1>10, <1>11, <1>12

LEMMA ForwardStep ==
  ASSUME Inv, NEW c \in checks, Forward(c)
  PROVE  Inv'
  <1> USE DEF Inv, SentFaithfully
  <1> DEFINE f == Frame(c.event, TRUE)
             r == c.to
  <1>1. /\ UNCHANGED <<log, unpublished, readable, removedAt, calm, open, entry, pc, fromSeq, rows, active,
                       listening, late, unheard, overtaken>>
        /\ c.found = "yes" /\ checks' = checks \ {c}
        /\ lastSeq' = IF log[c.event] = 0 THEN lastSeq ELSE [lastSeq EXCEPT ![r] = log[c.event]]
        /\ sent' = IF open THEN [sent EXCEPT ![r] = @ \o <<f>>] ELSE sent
    BY DEF Forward, Send, service, history
  <1>2. /\ Events' = Events
        /\ \A q : ReplayedTo(q)' = ReplayedTo(q) /\ Missed(q)' = Missed(q)
        /\ \A q, j : Beyond(q, j)' = Beyond(q, j) /\ InRows(q, j)' = InRows(q, j)
        /\ \A j : Batch(j)' = Batch(j)
    BY <1>1, LiveFrame
  <1>3. /\ r \in Requests /\ c.event \in Events /\ log[c.event] \in Nat
        /\ sent \in [Requests -> Seq(Frames)] /\ lastSeq \in [Requests -> Nat]
    <2>1. r \in Requests /\ c.event \in Events /\ sent \in [Requests -> Seq(Frames)]
      BY DEF TypeOK, Frames
    <2> QED BY <2>1, LogTypes DEF TypeOK
  <1>4. f \in Frames /\ f.event = c.event /\ f.live = TRUE
    BY <1>3 DEF Frame, Frames
  <1> DEFINE n == Len(sent[r])
  <1>5. IF open
          THEN /\ sent' \in [Requests -> Seq(Frames)]
               /\ DOMAIN sent'[r] = 1 .. n + 1 /\ n \in Nat /\ DOMAIN sent[r] = 1 .. n
               /\ sent'[r][n + 1] = f /\ \A k \in 1 .. n : sent'[r][k] = sent[r][k]
               /\ \A q \in Requests \ {r} : sent'[q] = sent[q]
          ELSE sent' = sent
    <2> SUFFICES ASSUME open
          PROVE /\ sent' \in [Requests -> Seq(Frames)]
                /\ DOMAIN sent'[r] = 1 .. n + 1 /\ n \in Nat /\ DOMAIN sent[r] = 1 .. n
                /\ sent'[r][n + 1] = f /\ \A k \in 1 .. n : sent'[r][k] = sent[r][k]
                /\ \A q \in Requests \ {r} : sent'[q] = sent[q]
      BY <1>1
    <2>1. sent' = [sent EXCEPT ![r] = @ \o <<f>>]
      BY <1>1
    <2>2. sent[r] \in Seq(Frames)
      BY <1>3
    <2> HIDE DEF f, r
    <2>3. sent'[r] = Append(sent[r], f)
      BY <1>3, <1>4, <2>1, <2>2, AppendIsConcat
    <2>4. sent' \in [Requests -> Seq(Frames)] /\ \A q \in Requests \ {r} : sent'[q] = sent[q]
      BY <1>3, <1>4, <2>1, <2>2, <2>3, AppendProperties
    <2> QED BY <1>4, <2>2, <2>3, <2>4, AppendProperties, LenProperties
  <1> HIDE DEF f, r, n
  <1>7. TypeOK'
    <2>1. sent' \in [Requests -> Seq(Frames)]
      BY <1>3, <1>5
    <2>2. lastSeq' \in [Requests -> Nat]
      BY <1>1, <1>3
    <2>3. checks' \subseteq Checks
      BY <1>1 DEF TypeOK, Checks
    <2> QED BY <1>1, <1>2, <2>1, <2>2, <2>3 DEF TypeOK, Frames, Checks
  <1>8. /\ pc[r] = "attached" /\ c.event \notin unpublished /\ Beyond(r, c.event)
        /\ removedAt # None => c.event <= removedAt
    BY <1>1 DEF CheckInv, r
  <1>9. \A d \in checks : d.to = r /\ d.event = c.event => d = c
    BY DEF CheckInv, r
  <1>10. \A k \in DOMAIN sent[r] : sent[r][k].event # c.event
    BY <1>3, <1>8 DEF SentInv, r
  <1>0. ASSUME NEW q \in Requests, NEW k \in DOMAIN sent'[q]
        PROVE  \/ k \in DOMAIN sent[q] /\ sent'[q][k] = sent[q][k]
               \/ q = r /\ open /\ k = n + 1 /\ k \notin DOMAIN sent[r] /\ sent'[q][k] = f
    <2>1. CASE ~open
      BY <1>5, <2>1
    <2>2. CASE open /\ q # r
      BY <1>5, <2>2
    <2>3. CASE open /\ q = r
      <3>1. k \in 1 .. n + 1 /\ n \in Nat
        BY <1>5, <2>3
      <3>2. CASE k = n + 1
        BY <1>5, <2>3, <3>1, <3>2
      <3>3. CASE k \in 1 .. n
        BY <1>5, <2>3, <3>3
      <3> QED BY <3>1, <3>2, <3>3
    <2> QED BY <2>1, <2>2, <2>3
  <1>11. SentOnce'
    <2>1. ASSUME NEW q \in Requests, NEW j \in DOMAIN sent'[q], NEW k \in DOMAIN sent'[q],
                 sent'[q][j].event = sent'[q][k].event
          PROVE  j = k
      <3>1. CASE j \in DOMAIN sent[q] /\ sent'[q][j] = sent[q][j]
        BY <1>0, <1>4, <1>10, <2>1, <3>1 DEF SentOnce
      <3>2. CASE q = r /\ j = n + 1 /\ sent'[q][j] = f
        BY <1>0, <1>4, <1>10, <2>1, <3>2
      <3> QED BY <1>0, <3>1, <3>2
    <2> QED BY <2>1 DEF SentOnce
  <1>12. RemovalIsFinal'
    <2>1. ASSUME NEW q \in Requests, NEW k \in DOMAIN sent'[q], removedAt # None,
                 sent'[q][k].event > removedAt
          PROVE  q \in late /\ ~sent'[q][k].live
      <3>1. CASE k \in DOMAIN sent[q] /\ sent'[q][k] = sent[q][k]
        BY <2>1, <3>1 DEF RemovalIsFinal
      <3>2. CASE q = r /\ sent'[q][k] = f
        <4>1. c.event \in Nat
          BY <1>3, LogTypes
        <4>2. removedAt \in Nat
          BY <2>1, StreamAssumption DEF TypeOK
        <4> QED BY <1>4, <1>8, <2>1, <3>2, <4>1, <4>2
      <3> QED BY <1>0, <3>1, <3>2
    <2> QED BY <1>1, <2>1 DEF RemovalIsFinal
  <1>13. SetUpInv'
    <2>1. lastSeq'[r] >= ReplayedTo(r) /\ \A q \in Requests \ {r} : lastSeq'[q] = lastSeq[q]
      <3>1. ReplayedTo(r) \in Nat
        BY <1>3, ReplayedToIsThere
      <3>2. lastSeq[r] >= ReplayedTo(r)
        BY <1>3, <1>8 DEF SetUpInv, Prepared
      <3> QED BY <1>1, <1>3, <1>8, <3>1, <3>2 DEF Beyond
    <2>2. lastSeq'[r] = lastSeq[r] \/ lastSeq'[r] = log[c.event]
      BY <1>1, <1>3
    <2>3. Prepared(r)'
      BY <1>1, <1>2, <1>3, <1>8, <2>1, <2>2 DEF SetUpInv, Prepared
    <2>4. ASSUME NEW q \in Requests \ {r}  PROVE Prepared(q)'
      <3>1. sent'[q] = sent[q]
        BY <1>5
      <3> QED BY <1>1, <1>2, <2>1, <3>1 DEF SetUpInv, Prepared
    <2> QED BY <1>1, <2>3, <2>4 DEF SetUpInv
  <1>14. RowsInv' /\ LogInv'
    BY <1>1, <1>2 DEF RowsInv, LogInv
  <1>15. CheckInv'
    BY <1>1, <1>2 DEF CheckInv
  <1>16. SentInv'
    <2>1. ASSUME NEW q \in Requests, NEW k \in DOMAIN sent[q]
          PROVE  IF sent[q][k].live
                   THEN /\ sent[q][k].event \notin unpublished'
                        /\ Beyond(q, sent[q][k].event)'
                        /\ \A d \in checks' : d.to = q => d.event # sent[q][k].event
                   ELSE ~Beyond(q, sent[q][k].event)'
      BY <1>1, <1>2 DEF SentInv
    <2>2. /\ f.live /\ f.event \notin unpublished' /\ Beyond(r, f.event)'
          /\ \A d \in checks' : d.to = r => d.event # f.event
      BY <1>1, <1>2, <1>4, <1>8, <1>9
    <2>3. ASSUME NEW q \in Requests, NEW k \in DOMAIN sent'[q]
          PROVE  (k \in DOMAIN sent[q] /\ sent'[q][k] = sent[q][k]) \/ (q = r /\ sent'[q][k] = f)
      BY <1>0
    <2> QED BY <2>1, <2>2, <2>3 DEF SentInv
  <1>17. \A q \in Requests : \A j : Got(q, j) => Got(q, j)'
    <2>1. \A q \in Requests : \A k \in DOMAIN sent[q] : k \in DOMAIN sent'[q] /\ sent'[q][k] = sent[q][k]
      <3> TAKE q \in Requests
      <3>1. CASE ~open \/ q # r
        BY <1>5, <3>1
      <3>2. CASE open /\ q = r
        BY <1>5, <3>2
      <3> QED BY <3>1, <3>2
    <2> QED BY <2>1 DEF Got
  <1>18. open => Got(r, c.event)'
    <2>1. open => n + 1 \in DOMAIN sent'[r] /\ sent'[r][n + 1].event = c.event
      BY <1>4, <1>5
    <2> QED BY <2>1 DEF Got
  <1>19. LostOnlyInBetween'
    <2> SUFFICES ASSUME NEW q \in Requests, Whole(q), ~Ended(q), NEW j \in Missed(q)
                 PROVE  Got(q, j)' \/ Underway(q, j)' \/ j \in unheard[q] \/ j \in overtaken[q]
      BY <1>1, <1>2 DEF LostOnlyInBetween, Whole, Ended
    <2>1. Got(q, j) \/ Underway(q, j) \/ j \in unheard[q] \/ j \in overtaken[q]
      BY DEF LostOnlyInBetween
    <2>2. Underway(q, j) => Underway(q, j)' \/ Got(q, j)'
      <3>1. CASE \E d \in checks : d.to = q /\ d.event = j /\ d # c
        BY <1>1, <3>1 DEF Underway
      <3>2. CASE c.to = q /\ c.event = j
        BY <1>18, <3>2 DEF Ended, r
      <3> QED BY <1>1, <3>1, <3>2 DEF Underway
    <2> QED BY <1>17, <2>1, <2>2
  <1>20. QueriedInv'
    BY <1>1, <1>2 DEF QueriedInv, Uncut
  <1> QED BY <1>7, <1>11, <1>12, <1>13, <1>14, <1>15, <1>16, <1>19, <1>20

\* A subscription that ends takes nothing back.
LEMMA EndStep ==
  ASSUME Inv, (\E c \in checks : Drop(c)) \/ Unsubscribe \/ Close
  PROVE  Inv'
  <1> USE DEF Inv, SentFaithfully
  <1>1. /\ UNCHANGED <<log, unpublished, readable, removedAt, calm, pc, fromSeq, rows, lastSeq, sent, late,
                       unheard, overtaken>>
        /\ checks' \subseteq checks /\ listening' \subseteq listening
        /\ open' \in {open, FALSE} /\ entry' = None
    BY DEF Drop, Unsubscribe, Close, Detach, service, handler, history
  <1>2. /\ active' \in [Requests -> BOOLEAN]
        /\ \A r \in Requests : r \in listening' => active'[r] = active[r]
        /\ \A c \in checks \ checks' : c.to \notin listening'
    <2>1. CASE Unsubscribe \/ Close
      BY <2>1 DEF Unsubscribe, Close, handler, TypeOK
    <2>2. CASE \E c \in checks : Drop(c)
      <3>1. PICK c \in checks : Drop(c)
        BY <2>2
      <3> QED BY <3>1 DEF Drop, TypeOK
    <2> QED BY <2>1, <2>2
  <1>3. /\ Events' = Events
        /\ \A q : ReplayedTo(q)' = ReplayedTo(q) /\ Missed(q)' = Missed(q)
        /\ \A q, j : Beyond(q, j)' = Beyond(q, j) /\ InRows(q, j)' = InRows(q, j)
        /\ \A j : Batch(j)' = Batch(j)
    BY <1>1, LiveFrame
  <1>4. TypeOK'
    BY <1>1, <1>2, <1>3 DEF TypeOK
  <1>5. SentOnce' /\ RemovalIsFinal' /\ LogInv' /\ RowsInv'
    BY <1>1, <1>3 DEF SentOnce, RemovalIsFinal, LogInv, RowsInv
  <1>6. SetUpInv'
    <2>1. ASSUME NEW r \in Requests  PROVE Prepared(r)'
      BY <1>1, <1>2, <1>3 DEF SetUpInv, Prepared
    <2> QED BY <1>1, <2>1 DEF SetUpInv
  <1>7. CheckInv' /\ SentInv'
    BY <1>1, <1>3 DEF CheckInv, SentInv
  <1>8. LostOnlyInBetween'
    <2>1. \A r \in Requests : ~Ended(r)' => ~Ended(r) /\ r \in listening'
      BY <1>1 DEF Ended
    <2>2. \A r \in Requests : \A j : r \in listening' /\ Underway(r, j) => Underway(r, j)'
      BY <1>1, <1>2 DEF Underway
    <2>3. \A r : (Whole(r)' <=> Whole(r)) /\ \A j : Got(r, j)' <=> Got(r, j)
      BY <1>1 DEF Whole, Got
    <2> QED BY <1>1, <1>3, <2>1, <2>2, <2>3 DEF LostOnlyInBetween
  <1>9. QueriedInv'
    BY <1>1, <1>3 DEF QueriedInv, Uncut
  <1> QED BY <1>4, <1>5, <1>6, <1>7, <1>8, <1>9

(***************************************************************************)
(* The theorem.                                                            *)
(***************************************************************************)
LEMMA InvStep == Inv /\ [Next]_vars => Inv'
  <1> SUFFICES ASSUME Inv, [Next]_vars  PROVE Inv'
    OBVIOUS
  <1>1. CASE CommitMessage \/ CommitUnnumbered \/ Remove
    BY <1>1, CommitStep
  <1>2. ASSUME NEW r \in Requests, Subscribe(r) \/ Handle(r)  PROVE Inv'
    BY <1>2, HandlerStep, AttachStep DEF Handle
  <1>3. ASSUME NEW i \in unpublished, Publish(i)  PROVE Inv'
    BY <1>3, PublishStep
  <1>4. ASSUME NEW c \in checks, Continue(c)  PROVE Inv'
    BY <1>4, CheckStep, ForwardStep, EndStep DEF Continue
  <1>5. CASE Unsubscribe \/ Close
    BY <1>5, EndStep
  <1>6. CASE UNCHANGED vars
    <2>1. UNCHANGED <<log, unpublished, readable, removedAt, calm, open, entry, pc, fromSeq, rows,
                      lastSeq, active, listening, checks, sent, late, unheard, overtaken>>
      BY <1>6 DEF vars, service, handler, history
    <2>2. /\ Events' = Events
          /\ \A q : ReplayedTo(q)' = ReplayedTo(q) /\ Missed(q)' = Missed(q)
          /\ \A q, j : Beyond(q, j)' = Beyond(q, j) /\ InRows(q, j)' = InRows(q, j)
          /\ \A j : Batch(j)' = Batch(j)
      BY <2>1, LiveFrame
    <2>0. TypeOK'
      BY <2>1, <2>2 DEF Inv, SentFaithfully, TypeOK
    <2>3. SentOnce' /\ RemovalIsFinal' /\ LogInv' /\ RowsInv'
      BY <2>1, <2>2 DEF Inv, SentFaithfully, SentOnce, RemovalIsFinal, LogInv, RowsInv
    <2>4. SetUpInv' /\ CheckInv' /\ SentInv'
      BY <2>1, <2>2 DEF Inv, SetUpInv, Prepared, CheckInv, SentInv
    <2>5. LostOnlyInBetween' /\ QueriedInv'
      BY <2>1, <2>2 DEF Inv, LostOnlyInBetween, Whole, Ended, Got, Underway, QueriedInv, Uncut
    <2> QED BY <2>0, <2>3, <2>4, <2>5 DEF Inv, SentFaithfully
  <1> QED BY <1>1, <1>2, <1>3, <1>4, <1>5, <1>6 DEF Next

THEOREM Invariance == Spec => []Inv
  BY InvInit, InvStep, PTL DEF Spec

\* ws.ts: whatever the number of subscriptions, events and publications and
\* their order, a subscription sends an event at most once, by its replay or
\* live; no live frame carries an event newer than the removal of the actor, and
\* of the replays only one whose request was authorized before the removal and
\* queries after it carries newer events.
THEOREM FramesAreFaithful == Spec => []SentFaithfully
  <1>1. Inv => SentFaithfully
    BY DEF Inv
  <1> QED BY <1>1, Invariance, PTL

(***************************************************************************)
(* Calm: writers and subscribers keep out of each other's way.  Then the   *)
(* newest transaction is the only one under way, and what a subscription   *)
(* has not sent of the others it need not send.                            *)
(***************************************************************************)
Settled == unpublished = {} /\ checks = {}
Pending == unpublished \cup {c.event : c \in checks}

\* The events of one transaction are under way, no number is later than
\* theirs, and none is under way while a request is busy.
PendingInv ==
    /\ \A i, j \in unpublished : j \in Batch(i)
    /\ \A i \in Pending, j \in Events : log[i] > 0 => log[j] <= log[i]
    /\ unpublished = {} \/ checks = {}
    /\ \A r \in Requests : Busy(r) => Settled

\* Nothing is published unheard or out of turn.
HeardInv ==
    \A r \in Requests :
        /\ unheard[r] = {} /\ overtaken[r] \cap Missed(r) = {}
        /\ pc[r] = "attached" => \A i \in unpublished \cap Missed(r) : lastSeq[r] < log[i]

\* A subscription has sent what comes before the event being checked for it.
EarlierInv ==
    open => \A c \in checks : Uncut(c.to) =>
        \A j \in Missed(c.to) : log[j] < log[c.event] => Got(c.to, j)

SequenceInv == \A r \in Requests : Whole(r) => InSequence(r)

Calmly == PendingInv /\ HeardInv /\ EarlierInv /\ SequenceInv
CalmInv == Inv /\ (calm => Calmly)

LEMMA CalmInit == Init => Calmly
  BY DEF Init, Calmly, PendingInv, Pending, Settled, Busy, HeardInv, EarlierInv, SequenceInv, Whole

\* An event is committed only when nothing is under way.
LEMMA CalmCommit ==
  ASSUME CalmInv, calm, CommitMessage \/ CommitUnnumbered \/ Remove
  PROVE  Calmly'
  <1> USE DEF CalmInv, Calmly, Inv, SentFaithfully
  <1>1. PICK v \in {0, Newest + 1} : Emits(v)
    BY CommitEmits
  <1>2. /\ Events = 1 .. Len(log) /\ Events' = 1 .. Len(log') /\ Len(log') \in Nat
        /\ \A i \in Events : i \in Events' /\ log'[i] = log[i]
        /\ \A i \in Events' \ Events : log'[i] = v
    BY <1>1, EmitAppends
  <1>3. /\ UNCHANGED <<calm, open, pc, fromSeq, rows, lastSeq, active, listening, checks, sent,
                       unheard, overtaken>>
        /\ unpublished' = unpublished \cup (Events' \ Events)
        /\ Settled /\ \A r \in Requests : ~Busy(r)
        /\ v = 0 => Len(log') = Len(log) + 1
    BY <1>1 DEF Emits, Quiet, Settled
  <1>4. Newest \in Nat /\ \A i \in Events : log[i] <= Newest /\ log[i] \in Nat
    BY NewestBounds, LogTypes
  <1>5. unpublished' = Events' \ Events /\ checks' = {}
    BY <1>3 DEF Settled
  <1> HIDE DEF Newest
  <1>6. PendingInv'
    <2>1. ASSUME NEW i \in unpublished', NEW j \in unpublished'  PROVE j \in Batch(i)'
      <3>1. i \in Events' \ Events /\ j \in Events' \ Events /\ log'[i] = v /\ log'[j] = v
        BY <1>2, <1>5
      <3>2. CASE v = 0
        <4>1. Len(log) \in Nat
          BY LogTypes
        <4>2. i = j
          BY <1>2, <1>3, <3>1, <3>2, <4>1
        <4> QED BY <3>1, <3>2, <4>2 DEF Batch
      <3>3. CASE v # 0
        BY <3>1, <3>3 DEF Batch
      <3> QED BY <3>2, <3>3
    <2>2. ASSUME NEW i \in Pending', NEW j \in Events', log'[i] > 0  PROVE log'[j] <= log'[i]
      <3>1. log'[i] = v
        BY <1>2, <1>5 DEF Pending
      <3>2. v = Newest + 1
        BY <2>2, <3>1
      <3>3. log'[j] = v \/ (log'[j] \in Nat /\ log'[j] <= Newest)
        BY <1>2, <1>4
      <3> QED BY <1>4, <3>1, <3>2, <3>3
    <2>3. \A r \in Requests : ~Busy(r)'
      BY <1>3 DEF Busy
    <2> QED BY <1>5, <2>1, <2>2, <2>3 DEF PendingInv
  <1>7. HeardInv'
    <2> SUFFICES ASSUME NEW r \in Requests
                 PROVE  /\ overtaken[r] \cap Missed(r)' = {}
                        /\ pc[r] = "attached" => \A i \in unpublished' \cap Missed(r)' : lastSeq[r] < log'[i]
      BY <1>3 DEF HeardInv
    <2>1. overtaken[r] \subseteq Events /\ fromSeq[r] \in Nat
      BY DEF TypeOK
    <2>2. overtaken[r] \cap Missed(r)' = {}
      BY <1>2, <1>3, <2>1 DEF HeardInv, Missed
    <2>3. ASSUME pc[r] = "attached", NEW i \in unpublished' \cap Missed(r)'  PROVE lastSeq[r] < log'[i]
      <3>1. log'[i] = v /\ v > fromSeq[r]
        BY <1>2, <1>3, <1>5 DEF Missed
      <3>2. v = Newest + 1
        BY <2>1, <3>1
      <3>3. lastSeq[r] = fromSeq[r] \/ \E j \in Events : log[j] = lastSeq[r]
        BY <2>3 DEF SetUpInv, Prepared
      <3> QED BY <1>4, <3>1, <3>2, <3>3
    <2> QED BY <2>2, <2>3
  <1>8. EarlierInv'
    BY <1>5 DEF EarlierInv
  <1>9. SequenceInv'
    <2> SUFFICES ASSUME NEW r \in Requests, Whole(r)  PROVE InSequence(r)'
      BY <1>3 DEF SequenceInv, Whole
    <2>1. \A k \in DOMAIN sent[r] : Number(r, k)' = Number(r, k) /\ Number(r, k) \in Nat
                                    /\ Number(r, k) <= Newest
      BY <1>2, <1>3, <1>4, FramesTyped DEF Number
    <2>2. \A k \in DOMAIN sent[r] : \A j \in 1 .. k - 1 : j \in DOMAIN sent[r]
      <3>1. sent[r] \in Seq([event : Events, live : BOOLEAN])
        BY DEF TypeOK
      <3> QED BY <3>1
    <2>3. \A i, k : GotBefore(r, i, k)' <=> GotBefore(r, i, k)
      BY <1>3 DEF GotBefore
    <2>4. ASSUME NEW k \in DOMAIN sent[r], Number(r, k) > 0
          PROVE  /\ Number(r, k) > fromSeq[r]
                 /\ \A j \in 1 .. k - 1 : Number(r, j) <= Number(r, k)
                 /\ \A i \in Events : fromSeq[r] < log[i] /\ log[i] < Number(r, k) => GotBefore(r, i, k)
      BY <2>4 DEF SequenceInv, InSequence
    <2>5. ASSUME NEW k \in DOMAIN sent[r], NEW i \in Events', fromSeq[r] < log'[i],
                 log'[i] < Number(r, k)
          PROVE  i \in Events /\ log'[i] = log[i]
      <3>1. CASE i \in Events
        BY <1>2, <3>1
      <3>2. CASE i \notin Events
        <4>1. log'[i] = v /\ fromSeq[r] \in Nat
          BY <1>2, <3>2 DEF TypeOK
        <4>2. v = Newest + 1
          BY <2>5, <4>1
        <4> QED BY <1>4, <2>1, <2>5, <4>1, <4>2
      <3> QED BY <3>1, <3>2
    <2> SUFFICES ASSUME NEW k \in DOMAIN sent[r], Number(r, k)' > 0
                 PROVE  /\ Number(r, k)' > fromSeq[r]
                        /\ \A j \in 1 .. k - 1 : Number(r, j)' <= Number(r, k)'
                        /\ \A i \in Events' : fromSeq[r] < log'[i] /\ log'[i] < Number(r, k)'
                                              => GotBefore(r, i, k)'
      BY <1>3 DEF InSequence
    <2>6. Number(r, k) > 0
      BY <2>1
    <2>7. \A j \in 1 .. k - 1 : Number(r, j)' <= Number(r, k)'
      BY <2>1, <2>2, <2>4, <2>6
    <2>8. ASSUME NEW i \in Events', fromSeq[r] < log'[i], log'[i] < Number(r, k)'
          PROVE  GotBefore(r, i, k)'
      <3>1. log'[i] < Number(r, k)
        BY <2>1, <2>8
      <3>2. i \in Events /\ log'[i] = log[i]
        BY <2>5, <2>8, <3>1
      <3>3. GotBefore(r, i, k)
        BY <2>4, <2>6, <2>8, <3>1, <3>2
      <3> QED BY <2>3, <3>3
    <2> QED BY <2>1, <2>4, <2>6, <2>7, <2>8
  <1> QED BY <1>6, <1>7, <1>8, <1>9

\* A subscription whose frames stay has them in order as before.
LEMMA SequenceFrame ==
  ASSUME NEW r, sent'[r] = sent[r], log' = log, fromSeq'[r] = fromSeq[r]
  PROVE  InSequence(r)' <=> InSequence(r)
  <1>1. \A k : Number(r, k)' = Number(r, k)
    BY DEF Number
  <1>2. \A i, k : GotBefore(r, i, k)' <=> GotBefore(r, i, k)
    BY DEF GotBefore
  <1> QED BY <1>1, <1>2 DEF InSequence, Events

\* The requests but r stay, and so do the service and the bus.
LEMMA CalmHandler ==
  ASSUME CalmInv, calm, NEW r \in Requests, Subscribe(r) \/ Authorize(r) \/ Query(r)
  PROVE  Calmly'
  <1> USE DEF CalmInv, Calmly, Inv, SentFaithfully
  <1>1. /\ UNCHANGED <<log, unpublished, calm, open, lastSeq, active, listening, checks, sent,
                       unheard, overtaken>>
        /\ pc[r] # "attached" /\ pc'[r] # "attached"
        /\ \A q \in Requests \ {r} :
              pc'[q] = pc[q] /\ fromSeq'[q] = fromSeq[q] /\ rows'[q] = rows[q]
    <2>1. pc \in [Requests -> PCs] /\ fromSeq \in [Requests -> Nat]
          /\ rows \in [Requests -> Seq(Events)]
      BY DEF TypeOK
    <2> QED BY <2>1 DEF Subscribe, Authorize, Query, service, history, PCs
  <1>2. Settled
    BY DEF Subscribe, Authorize, Query, Quiet, Settled, PendingInv, Busy
  <1>3. PendingInv'
    BY <1>1, <1>2 DEF PendingInv, Pending, Settled
  <1>4. HeardInv'
    <2>1. overtaken[r] = {}
      BY <1>1 DEF SetUpInv, Prepared
    <2>2. \A q \in Requests \ {r} : Missed(q)' = Missed(q)
      BY <1>1 DEF Missed, Events
    <2> QED BY <1>1, <1>2, <2>1, <2>2 DEF HeardInv, Settled
  <1>5. EarlierInv'
    BY <1>1, <1>2 DEF EarlierInv, Settled
  <1>6. SequenceInv'
    <2>1. \A q \in Requests : Whole(q)' => q # r /\ Whole(q)
      BY <1>1 DEF Whole
    <2>2. \A q \in Requests : q # r => (InSequence(q)' <=> InSequence(q))
      BY <1>1, SequenceFrame
    <2> QED BY <2>1, <2>2 DEF SequenceInv
  <1> QED BY <1>3, <1>4, <1>5, <1>6

\* A replay that attaches is all there is, in the order of the numbers.
LEMMA CalmAttach ==
  ASSUME CalmInv, calm, NEW r \in Requests, Attach(r)
  PROVE  Calmly'
  <1> USE DEF CalmInv, Calmly, Inv, SentFaithfully
  <1> DEFINE frames == [k \in DOMAIN rows[r] |-> Frame(rows[r][k], FALSE)]
  <1>1. /\ UNCHANGED <<log, unpublished, calm, open, fromSeq, rows, checks, unheard, overtaken>>
        /\ pc[r] = "attach" /\ pc' = [pc EXCEPT ![r] = "attached"]
        /\ sent' = IF open THEN [sent EXCEPT ![r] = @ \o frames] ELSE sent
    BY DEF Attach, Send, service, history
  <1>2. /\ sent[r] = <<>> /\ sent \in [Requests -> Seq(Frames)] /\ pc \in [Requests -> PCs]
    BY <1>1 DEF SetUpInv, Prepared, TypeOK, Frames
  <1>3. /\ rows[r] \in Seq(Events) /\ DOMAIN rows[r] = 1 .. Len(rows[r]) /\ Len(rows[r]) \in Nat
        /\ \A k \in DOMAIN rows[r] : rows[r][k] \in Events
        /\ \A i \in Events : i \in Nat /\ log[i] \in Nat
        /\ fromSeq[r] \in Nat
    <2>1. rows[r] \in Seq(Events) /\ fromSeq[r] \in Nat
      BY DEF TypeOK
    <2>2. \A i \in Events : i \in Nat /\ log[i] \in Nat
      BY LogTypes
    <2> QED BY <2>1, <2>2, LenProperties, ElementOfSeq
  <1>4. /\ sent'[r] = IF open THEN frames ELSE <<>>
        /\ \A q \in Requests \ {r} : sent'[q] = sent[q]
    <2>1. frames \in [DOMAIN rows[r] -> Frames]
      BY <1>3 DEF Frame, Frames
    <2> HIDE DEF frames
    <2>2. frames \in Seq(Frames)
      <3>1. frames \in [1 .. Len(rows[r]) -> Frames]
        BY <1>3, <2>1
      <3>2. Len(rows[r]) \in Nat
        BY <1>3
      <3> QED BY <3>1, <3>2, IsASeq
    <2>3. sent[r] \o frames = frames
      BY <1>2, <2>2, ConcatEmptySeq
    <2> QED BY <1>1, <1>2, <2>3
  <1>5. \A k \in DOMAIN sent'[r] : k \in DOMAIN rows[r] /\ sent'[r][k].event = rows[r][k]
                                   /\ DOMAIN sent'[r] = DOMAIN rows[r]
    BY <1>4 DEF Frame
  <1> HIDE DEF frames
  <1>6. Settled
    BY <1>1 DEF PendingInv, Busy
  <1>7. PendingInv'
    <2>1. \A q \in Requests : Busy(q)' => Busy(q)
      BY <1>1, <1>2 DEF Busy
    <2> QED BY <1>1, <1>6, <2>1 DEF PendingInv, Pending, Settled
  <1>8. \A q \in Requests : Missed(q)' = Missed(q)
    BY <1>1 DEF Missed, Events
  <1>9. HeardInv'
    BY <1>1, <1>6, <1>8 DEF HeardInv, Settled
  <1>10. EarlierInv'
    BY <1>1, <1>6 DEF EarlierInv, Settled
  <1>11. SequenceInv'
    <2>1. ASSUME Uncut(r)  PROVE InSequence(r)'
      <3> SUFFICES ASSUME NEW k \in DOMAIN sent'[r], Number(r, k)' > 0
                   PROVE  /\ Number(r, k)' > fromSeq[r]
                          /\ \A j \in 1 .. k - 1 : Number(r, j)' <= Number(r, k)'
                          /\ \A i \in Events : fromSeq[r] < log[i] /\ log[i] < Number(r, k)'
                                               => GotBefore(r, i, k)'
        BY <1>1 DEF InSequence, Events
      <3>1. DOMAIN sent'[r] = DOMAIN rows[r] /\ k \in 1 .. Len(rows[r]) /\ k \in DOMAIN rows[r]
        BY <1>3, <1>5
      <3>2. \A j \in DOMAIN rows[r] : Number(r, j)' = log[rows[r][j]]
        BY <1>1, <1>5, <3>1 DEF Number
      <3>3. log[rows[r][k]] > fromSeq[r]
        BY <3>1 DEF RowsInv
      <3>4. \A j \in 1 .. k - 1 : j \in DOMAIN rows[r] /\ log[rows[r][j]] <= log[rows[r][k]]
        <4>1. \A j \in 1 .. k - 1 : j \in DOMAIN rows[r] /\ j < k
          BY <1>3, <3>1
        <4> QED BY <3>1, <4>1 DEF RowsInv
      <3>5. ASSUME NEW i \in Events, fromSeq[r] < log[i], log[i] < log[rows[r][k]]
            PROVE  GotBefore(r, i, k)'
        <4>1. i \in Missed(r)
          BY <1>3, <3>5 DEF Missed
        <4>2. InRows(r, i)
          <5>1. InRows(r, i) \/ i \in unpublished \/ i \in unheard[r]
            BY <1>1, <2>1, <4>1 DEF QueriedInv
          <5> QED BY <1>6, <5>1 DEF HeardInv, Settled
        <4>3. PICK j \in DOMAIN rows[r] : rows[r][j] = i
          BY <4>2 DEF InRows
        <4>4. j \in Nat /\ k \in Nat /\ log[rows[r][k]] \in Nat /\ log[i] \in Nat
          BY <1>3, <3>1
        <4>5. ~(k < j)
          <5> SUFFICES ASSUME k < j  PROVE FALSE
            OBVIOUS
          <5>1. log[rows[r][k]] <= log[rows[r][j]]
            BY <3>1 DEF RowsInv
          <5>2. log[rows[r][k]] <= log[i] /\ log[i] < log[rows[r][k]]
            BY <3>5, <4>3, <5>1
          <5> QED BY <4>4, <5>2
        <4>6. j # k
          BY <3>5, <4>3, <4>4
        <4>7. j \in 1 .. k - 1
          BY <1>3, <3>1, <4>4, <4>5, <4>6
        <4>8. sent'[r][j].event = i
          BY <1>5, <3>1, <4>3
        <4> QED BY <4>7, <4>8 DEF GotBefore
      <3> QED BY <3>1, <3>2, <3>3, <3>4, <3>5
    <2>2. \A q \in Requests \ {r} : InSequence(q)' <=> InSequence(q)
      BY <1>1, <1>4, SequenceFrame
    <2>3. \A q \in Requests \ {r} : Whole(q)' <=> Whole(q)
      BY <1>1, <1>2 DEF Whole
    <2>4. Whole(r)' => Uncut(r)
      BY <1>1 DEF Whole, Uncut
    <2> QED BY <2>1, <2>2, <2>3, <2>4 DEF SequenceInv
  <1> QED BY <1>7, <1>9, <1>10, <1>11

\* The newest transaction goes to every listener: none has had a later number.
LEMMA CalmPublish ==
  ASSUME CalmInv, calm, NEW i \in unpublished, Publish(i)
  PROVE  Calmly'
  <1> USE DEF CalmInv, Calmly, Inv, SentFaithfully
  <1> DEFINE asked == {c \in [to : listening, event : Batch(i), found : {"asked"}] : Passes(c.to, c.event)}
  <1>1. /\ UNCHANGED <<log, calm, open, pc, fromSeq, rows, lastSeq, active, listening, sent>>
        /\ unpublished' = unpublished \ Batch(i) /\ checks' = checks \cup asked
        /\ unheard' = [r \in Requests |->
                         unheard[r] \cup {j \in Batch(i) : pc[r] = "attach" /\ ~InRows(r, j)}]
        /\ overtaken' = [r \in Requests |->
                     overtaken[r] \cup {j \in Batch(i) : pc[r] = "attached" /\ 0 < log[j] /\ log[j] <= lastSeq[r]}]
    BY DEF Publish, handler
  <1>2. checks = {} /\ unpublished' = {} /\ \A r \in Requests : ~Busy(r)
    BY <1>1 DEF PendingInv, Settled
  <1>3. Batch(i) \subseteq unpublished /\ unpublished \subseteq Events
    BY DEF CheckInv, TypeOK
  <1>4. \A c \in checks' : c.event \in unpublished /\ c.to \in listening
    BY <1>1, <1>2, <1>3
  <1> HIDE DEF asked
  <1>5. Events' = Events /\ \A q : Missed(q)' = Missed(q)
    BY <1>1 DEF Events, Missed
  <1>6. PendingInv'
    <2>1. Pending' \subseteq Pending
      BY <1>2, <1>4 DEF Pending
    <2>2. \A r \in Requests : ~Busy(r)'
      BY <1>1, <1>2 DEF Busy
    <2> QED BY <1>1, <1>2, <1>5, <2>1, <2>2 DEF PendingInv
  <1>7. HeardInv'
    <2> SUFFICES ASSUME NEW r \in Requests
                 PROVE  unheard'[r] = {} /\ overtaken'[r] \cap Missed(r) = {}
      BY <1>2, <1>5 DEF HeardInv
    <2>1. unheard'[r] = {}
      BY <1>1, <1>2 DEF HeardInv, Busy
    <2>2. ASSUME NEW j \in Batch(i) \cap Missed(r), pc[r] = "attached", log[j] <= lastSeq[r]
          PROVE  FALSE
      <3>1. lastSeq[r] < log[j] /\ j \in Events
        BY <1>3, <2>2 DEF HeardInv
      <3>2. log[j] \in Nat /\ lastSeq[r] \in Nat
        BY <3>1, LogTypes DEF TypeOK
      <3> QED BY <2>2, <3>1, <3>2
    <2> QED BY <1>1, <2>1, <2>2 DEF HeardInv
  <1>8. EarlierInv'
    <2> SUFFICES ASSUME open, NEW c \in checks', Uncut(c.to), NEW j \in Missed(c.to), log[j] < log[c.event]
                 PROVE  Got(c.to, j)
      BY <1>1, <1>5 DEF EarlierInv, Uncut, Got
    <2>1. c.to \in listening /\ c.to \in Requests /\ c.event \in unpublished /\ c.event \in Events
      BY <1>3, <1>4 DEF TypeOK
    <2>2. Whole(c.to) /\ ~Ended(c.to)
      BY <2>1 DEF Whole, Uncut, Ended, SetUpInv, Prepared
    <2>3. Got(c.to, j) \/ Underway(c.to, j)
      BY <2>1, <2>2 DEF LostOnlyInBetween, HeardInv
    <2>4. j \notin unpublished
      <3> SUFFICES ASSUME j \in unpublished  PROVE FALSE
        OBVIOUS
      <3>1. j \in Events /\ log[j] \in Nat /\ log[c.event] \in Nat /\ log[j] > fromSeq[c.to]
            /\ fromSeq[c.to] \in Nat
        BY <2>1, LogTypes DEF Missed, TypeOK
      <3>2. log[c.event] <= log[j]
        BY <2>1, <3>1 DEF PendingInv, Pending
      <3> QED BY <3>1, <3>2
    <2> QED BY <1>2, <2>3, <2>4 DEF Underway
  <1>9. SequenceInv'
    <2>1. \A r \in Requests : InSequence(r)' <=> InSequence(r)
      BY <1>1, SequenceFrame
    <2> QED BY <1>1, <2>1 DEF SequenceInv, Whole
  <1> QED BY <1>6, <1>7, <1>8, <1>9

LEMMA CalmCheck ==
  ASSUME CalmInv, calm, NEW c \in checks, Check(c)
  PROVE  Calmly'
  <1> USE DEF CalmInv, Calmly, Inv, SentFaithfully
  <1> DEFINE d == [c EXCEPT !.found = Finds]
  <1>1. /\ UNCHANGED <<log, unpublished, calm, open, pc, fromSeq, rows, lastSeq, active, listening, sent,
                       unheard, overtaken>>
        /\ checks' = (checks \ {c}) \cup {d}
    BY DEF Check, service, handler, history
  <1>2. d.to = c.to /\ d.event = c.event
    BY DEF TypeOK
  <1> HIDE DEF d
  <1>3. /\ \A e \in checks' : \E f \in checks : e.to = f.to /\ e.event = f.event
        /\ checks # {}
    BY <1>1, <1>2
  <1>4. Events' = Events /\ \A q : Missed(q)' = Missed(q)
    BY <1>1 DEF Events, Missed
  <1>5. PendingInv'
    <2>1. Pending' \subseteq Pending
      BY <1>1, <1>3 DEF Pending
    <2>2. \A r \in Requests : ~Busy(r) /\ (Busy(r)' <=> Busy(r))
      BY <1>1, <1>3 DEF PendingInv, Busy, Settled
    <2>3. unpublished = {}
      BY <1>3 DEF PendingInv
    <2> QED BY <1>1, <1>4, <2>1, <2>2, <2>3 DEF PendingInv
  <1>6. HeardInv'
    BY <1>1, <1>4 DEF HeardInv
  <1>7. EarlierInv'
    <2>1. ASSUME open, NEW e \in checks', Uncut(e.to), NEW j \in Missed(e.to), log[j] < log[e.event]
          PROVE  Got(e.to, j)
      BY <1>3, <2>1 DEF EarlierInv
    <2> QED BY <1>1, <1>4, <2>1 DEF EarlierInv, Uncut, Got
  <1>8. SequenceInv'
    <2>1. \A r \in Requests : InSequence(r)' <=> InSequence(r)
      BY <1>1, SequenceFrame
    <2> QED BY <1>1, <2>1 DEF SequenceInv, Whole
  <1> QED BY <1>5, <1>6, <1>7, <1>8

\* An event of the newest transaction is sent after all others that were
\* missed.
LEMMA CalmForward ==
  ASSUME CalmInv, calm, NEW c \in checks, Forward(c)
  PROVE  Calmly'
  <1> USE DEF CalmInv, Calmly, Inv, SentFaithfully
  <1> DEFINE r == c.to
             i == c.event
             f == Frame(i, TRUE)
  <1>1. /\ UNCHANGED <<log, unpublished, calm, open, pc, fromSeq, rows, active, listening, unheard, overtaken>>
        /\ checks' = checks \ {c}
        /\ sent' = IF open THEN [sent EXCEPT ![r] = @ \o <<f>>] ELSE sent
    BY DEF Forward, Send, service, history
  <1>2. /\ r \in Requests /\ i \in Events /\ pc[r] = "attached"
        /\ sent \in [Requests -> Seq(Frames)]
        /\ fromSeq[r] \in Nat /\ \A j \in Events : j \in Nat /\ log[j] \in Nat
    <2>1. r \in Requests /\ i \in Events /\ pc[r] = "attached"
      BY DEF TypeOK, CheckInv
    <2>2. \A j \in Events : j \in Nat /\ log[j] \in Nat
      BY LogTypes
    <2>3. sent \in [Requests -> Seq(Frames)] /\ fromSeq[r] \in Nat
      BY <2>1 DEF TypeOK, Frames
    <2> QED BY <2>1, <2>2, <2>3
  <1>3. unpublished = {} /\ \A q \in Requests : ~Busy(q)
    BY DEF PendingInv, Settled
  <1>4. PICK n \in Nat : sent[r] \in Seq(Frames) /\ n = Len(sent[r]) /\ DOMAIN sent[r] = 1 .. n
    BY <1>2, LenProperties
  <1>5. IF open
          THEN /\ DOMAIN sent'[r] = 1 .. n + 1 /\ sent'[r][n + 1] = f
               /\ \A k \in 1 .. n : sent'[r][k] = sent[r][k]
               /\ \A q \in Requests \ {r} : sent'[q] = sent[q]
          ELSE sent' = sent
    <2> SUFFICES ASSUME open
                 PROVE /\ DOMAIN sent'[r] = 1 .. n + 1 /\ sent'[r][n + 1] = f
                       /\ \A k \in 1 .. n : sent'[r][k] = sent[r][k]
                       /\ \A q \in Requests \ {r} : sent'[q] = sent[q]
      BY <1>1
    <2>1. f \in Frames
      BY <1>2 DEF Frame, Frames
    <2> HIDE DEF f, r
    <2>2. sent' = [sent EXCEPT ![r] = @ \o <<f>>]
      BY <1>1
    <2>3. sent'[r] = Append(sent[r], f) /\ \A q \in Requests \ {r} : sent'[q] = sent[q]
      BY <1>2, <1>4, <2>1, <2>2, AppendIsConcat
    <2> QED BY <1>4, <2>1, <2>3, AppendProperties, LenProperties
  <1>6. f.event = i
    BY DEF Frame
  <1> HIDE DEF f
  <1>7. Events' = Events /\ \A q : Missed(q)' = Missed(q)
    BY <1>1 DEF Events, Missed
  <1>8. PendingInv'
    <2>1. Pending' \subseteq Pending
      BY <1>1 DEF Pending
    <2>2. \A q \in Requests : ~Busy(q)'
      BY <1>1, <1>3 DEF Busy
    <2> QED BY <1>1, <1>3, <1>7, <2>1, <2>2 DEF PendingInv
  <1>9. HeardInv'
    BY <1>1, <1>3, <1>7 DEF HeardInv
  <1>10. EarlierInv'
    <2>1. \A q \in Requests : \A j : Got(q, j) => Got(q, j)'
      <3>1. \A q \in Requests : \A k \in DOMAIN sent[q] : k \in DOMAIN sent'[q] /\ sent'[q][k] = sent[q][k]
        <4> TAKE q \in Requests
        <4>1. CASE ~open \/ q # r
          BY <1>5, <4>1
        <4>2. CASE open /\ q = r
          BY <1>4, <1>5, <4>2
        <4> QED BY <4>1, <4>2
      <3> QED BY <3>1 DEF Got
    <2>2. \A e \in checks : e.to \in Requests
      BY DEF TypeOK
    <2> QED BY <1>1, <1>7, <2>1, <2>2 DEF EarlierInv, Uncut
  <1>11. SequenceInv'
    <2> SUFFICES ASSUME open, Whole(r)  PROVE InSequence(r)'
      <3>1. \A q \in Requests : q # r \/ ~open => (InSequence(q)' <=> InSequence(q))
        BY <1>1, <1>5, SequenceFrame
      <3> QED BY <1>1, <3>1 DEF SequenceInv, Whole
    <2>0. Uncut(r)
      BY DEF Whole, Uncut
    <2>1. \A k \in 1 .. n : Number(r, k)' = Number(r, k) /\ Number(r, k) \in Nat
                            /\ sent[r][k].event \in Events
      <3>1. \A k \in 1 .. n : sent[r][k].event \in Events
        BY <1>2, <1>4, FramesTyped
      <3> QED BY <1>1, <1>2, <1>5, <3>1 DEF Number
    <2>2. Number(r, n + 1)' = log[i]
      <3>1. sent'[r][n + 1].event = i /\ log' = log
        BY <1>1, <1>5, <1>6
      <3>2. Number(r, n + 1)' = log'[sent'[r][n + 1].event]
        BY DEF Number
      <3> QED BY <3>1, <3>2
    <2>3. \A j : \A k \in 1 .. n : GotBefore(r, j, k)' <=> GotBefore(r, j, k)
      <3>1. \A k \in 1 .. n : \A l \in 1 .. k - 1 : sent'[r][l] = sent[r][l]
        BY <1>4, <1>5
      <3> QED BY <3>1 DEF GotBefore
    <2>4. ASSUME NEW k \in 1 .. n, Number(r, k)' > 0
          PROVE  /\ Number(r, k)' > fromSeq[r]
                 /\ \A j \in 1 .. k - 1 : Number(r, j)' <= Number(r, k)'
                 /\ \A j \in Events : fromSeq[r] < log[j] /\ log[j] < Number(r, k)' => GotBefore(r, j, k)'
      <3>1. \A j \in 1 .. k - 1 : j \in 1 .. n
        BY <1>4
      <3>2. InSequence(r) /\ k \in DOMAIN sent[r] /\ Number(r, k)' = Number(r, k)
        BY <1>2, <1>4, <2>1 DEF SequenceInv
      <3>3. /\ Number(r, k) > fromSeq[r]
            /\ \A j \in 1 .. k - 1 : Number(r, j) <= Number(r, k)
            /\ \A j \in Events : fromSeq[r] < log[j] /\ log[j] < Number(r, k) => GotBefore(r, j, k)
        BY <2>4, <3>2 DEF InSequence
      <3> QED BY <2>1, <2>3, <3>1, <3>2, <3>3
    <2>5. ASSUME log[i] > 0
          PROVE  /\ log[i] > fromSeq[r]
                 /\ \A j \in 1 .. n : Number(r, j)' <= log[i]
                 /\ \A j \in Events : fromSeq[r] < log[j] /\ log[j] < log[i] => GotBefore(r, j, n + 1)'
      <3>1. log[i] > fromSeq[r]
        <4>1. Beyond(r, i)
          BY DEF CheckInv
        <4>2. ReplayedTo(r) \in Nat /\ fromSeq[r] <= ReplayedTo(r)
          BY <1>2, ReplayedToIsThere
        <4> QED BY <1>2, <2>5, <4>1, <4>2 DEF Beyond
      <3>2. \A j \in 1 .. n : Number(r, j)' <= log[i]
        <4>1. i \in Pending
          BY DEF Pending
        <4> QED BY <2>1, <2>5, <4>1 DEF PendingInv, Number
      <3>3. ASSUME NEW j \in Events, fromSeq[r] < log[j], log[j] < log[i]  PROVE GotBefore(r, j, n + 1)'
        <4>1. j \in Missed(r)
          BY <1>2, <3>3 DEF Missed
        <4>2. Got(r, j)
          BY <2>0, <3>3, <4>1 DEF EarlierInv
        <4>3. PICK k \in 1 .. n : sent[r][k].event = j
          BY <1>4, <4>2 DEF Got
        <4>4. k \in 1 .. n + 1 - 1 /\ sent'[r][k].event = j
          BY <1>4, <1>5, <4>3
        <4> QED BY <4>4 DEF GotBefore
      <3> QED BY <3>1, <3>2, <3>3
    <2> SUFFICES ASSUME NEW k \in 1 .. n + 1, Number(r, k)' > 0
                 PROVE  /\ Number(r, k)' > fromSeq[r]
                        /\ \A j \in 1 .. k - 1 : Number(r, j)' <= Number(r, k)'
                        /\ \A j \in Events : fromSeq[r] < log[j] /\ log[j] < Number(r, k)'
                                             => GotBefore(r, j, k)'
      BY <1>1, <1>5, <1>7 DEF InSequence
    <2>6. CASE k = n + 1
      <3>1. k - 1 = n
        BY <1>4, <2>6
      <3> QED BY <2>2, <2>5, <2>6, <3>1
    <2>7. CASE k \in 1 .. n
      BY <2>4, <2>7
    <2> QED BY <1>4, <2>6, <2>7
  <1> QED BY <1>8, <1>9, <1>10, <1>11

\* A subscription that ended misses nothing, but a frame under way to it
\* still goes out.
LEMMA CalmEnd ==
  ASSUME CalmInv, calm, (\E c \in checks : Drop(c)) \/ Unsubscribe \/ Close
  PROVE  Calmly'
  <1> USE DEF CalmInv, Calmly
  <1>1. /\ UNCHANGED <<log, unpublished, calm, pc, fromSeq, rows, lastSeq, sent, unheard, overtaken>>
        /\ checks' \subseteq checks /\ open' \in {open, FALSE}
    BY DEF Drop, Unsubscribe, Close, Detach, service, handler, history
  <1>2. Events' = Events /\ \A q : Missed(q)' = Missed(q)
    BY <1>1 DEF Events, Missed
  <1>3. PendingInv'
    <2>1. Pending' \subseteq Pending
      BY <1>1 DEF Pending
    <2>2. \A r \in Requests : Busy(r)' => Busy(r)
      BY <1>1 DEF Busy
    <2>3. \A j : Batch(j)' = Batch(j)
      BY <1>1, <1>2 DEF Batch
    <2> QED BY <1>1, <1>2, <2>1, <2>2, <2>3 DEF PendingInv, Settled
  <1>4. HeardInv'
    BY <1>1, <1>2 DEF HeardInv
  <1>5. EarlierInv'
    BY <1>1, <1>2 DEF EarlierInv, Uncut, Got
  <1>6. SequenceInv'
    <2>1. \A r \in Requests : InSequence(r)' <=> InSequence(r)
      BY <1>1, SequenceFrame
    <2> QED BY <1>1, <2>1 DEF SequenceInv, Whole
  <1> QED BY <1>3, <1>4, <1>5, <1>6

LEMMA CalmStep == CalmInv /\ [Next]_vars => CalmInv'
  <1> SUFFICES ASSUME CalmInv, [Next]_vars  PROVE CalmInv'
    OBVIOUS
  <1>1. Inv'
    BY InvStep DEF CalmInv
  <1>2. calm' = calm
    BY DEF Next, CommitMessage, CommitUnnumbered, Remove, Subscribe, Handle, Authorize, Query, Attach,
           Publish, Continue, Check, Forward, Drop, Unsubscribe, Close, vars
  <1> SUFFICES ASSUME calm  PROVE Calmly'
    BY <1>1, <1>2 DEF CalmInv
  <1>3. CASE CommitMessage \/ CommitUnnumbered \/ Remove
    BY <1>3, CalmCommit
  <1>4. ASSUME NEW r \in Requests, Subscribe(r) \/ Handle(r)  PROVE Calmly'
    BY <1>4, CalmHandler, CalmAttach DEF Handle
  <1>5. ASSUME NEW i \in unpublished, Publish(i)  PROVE Calmly'
    BY <1>5, CalmPublish
  <1>6. ASSUME NEW c \in checks, Continue(c)  PROVE Calmly'
    BY <1>6, CalmCheck, CalmForward, CalmEnd DEF Continue
  <1>7. CASE Unsubscribe \/ Close
    BY <1>7, CalmEnd
  <1>8. CASE UNCHANGED vars
    <2>1. UNCHANGED <<log, unpublished, calm, open, pc, fromSeq, rows, lastSeq, active, listening,
                      checks, sent, unheard, overtaken>>
      BY <1>8 DEF vars, service, handler, history
    <2>2. Events' = Events /\ (\A q : Missed(q)' = Missed(q)) /\ \A j : Batch(j)' = Batch(j)
      BY <2>1 DEF Events, Missed, Batch
    <2>3. PendingInv' /\ HeardInv' /\ EarlierInv'
      BY <2>1, <2>2 DEF CalmInv, Calmly, PendingInv, Pending, Settled, Busy, HeardInv, EarlierInv, Uncut, Got
    <2>4. SequenceInv'
      <3>1. \A r \in Requests : InSequence(r)' <=> InSequence(r)
        BY <2>1, SequenceFrame
      <3> QED BY <2>1, <3>1 DEF CalmInv, Calmly, SequenceInv, Whole
    <2> QED BY <2>3, <2>4 DEF Calmly
  <1> QED BY <1>3, <1>4, <1>5, <1>6, <1>7, <1>8 DEF Next

\* ws.ts: however writers and subscribers overlap, an event that a subscription
\* has not sent though it listens, its replay was not cut off and the event is
\* not under way was published between its query and its listener or after a
\* later number.  When they keep out of each other's way neither happens: the
\* numbers sent come after fromSeq and never fall, no event of a smaller number
\* is left out, whatever number of events shares one, and at rest all are sent.
THEOREM StreamIsContiguous == Spec => []Contiguous
  <1>1. Init => CalmInv
    BY InvInit, CalmInit DEF CalmInv
  <1>2. CalmInv => Contiguous
    <2> SUFFICES ASSUME CalmInv  PROVE LostOnlyInBetween /\ CalmlyContiguous
      BY DEF Contiguous
    <2>1. LostOnlyInBetween
      BY DEF CalmInv, Inv
    <2>2. ASSUME calm, NEW r \in Requests, Whole(r)  PROVE InSequence(r)
      BY <2>2 DEF CalmInv, Calmly, SequenceInv
    <2>3. ASSUME calm, NEW r \in Requests, Whole(r), Quiet, ~Ended(r), NEW i \in Missed(r)
          PROVE  Got(r, i)
      BY <2>1, <2>3 DEF LostOnlyInBetween, Underway, Quiet, CalmInv, Calmly, HeardInv
    <2> QED BY <2>1, <2>2, <2>3 DEF CalmlyContiguous
  <1> QED BY <1>1, <1>2, CalmStep, PTL DEF Spec
=============================================================================
