---------------------------- MODULE ApprovalsProofs ----------------------------
(* Theorems about Approvals, for every value of its constants. *)
EXTENDS Approvals, TLAPS, FiniteSetTheorems

(***************************************************************************)
(* The inductive invariant, one part per call and one per row.             *)
(***************************************************************************)
\* Which steps belong to which operation; a call answers once, at its end.
StepOf(c) ==
    /\ pc[c] = "idle" => Op(c) = "none"
    /\ pc[c] = "auth" => Op(c) \in {"resolve", "issue", "revoke", "kick"}
    /\ pc[c] \in {"resolve", "reauth", "settle"} => Op(c) = "resolve"
    /\ pc[c] = "issue" => Op(c) \in {"issue", "resolve"}
    /\ pc[c] \in {"register", "insert"} => Op(c) = "register"
    /\ pc[c] \in {"delete", "disable"} => Op(c) = "delete"
    /\ pc[c] \in {"act", "pick", "charge"} => Op(c) = "act"
    /\ pc[c] \in {"revoke", "kick"} => Op(c) = pc[c]
    /\ pc[c] = "retire" => Op(c) \in {"revoke", "kick"}
    /\ pc[c] = "ask" => Op(c) = "ask"
    /\ answer[c] # "none" => pc[c] = "done"

\* The grant of a call does not exist before it is issued, and the grants a
\* call is about to change do.
GrantOf(c) ==
    /\ pc[c] \in {"idle", "auth", "resolve", "reauth", "issue"} => grants[c].status = "none"
    /\ pc[c] \in {"charge", "retire"} => \A g \in ids[c] : grants[g].status # "none"

Granted(c, r) == /\ grants[c].status # "none"
                 /\ grants[c].actor = input[r].actor /\ grants[c].cap = input[r].cap

\* A resolver has found its request, and one that approves a request for a
\* capability has issued the grant before it settles.
ResolverOf(c) ==
    /\ pc[c] \in {"reauth", "settle"} \/ (pc[c] = "issue" /\ Op(c) = "resolve")
          => requests[Target(c)].status # "none"
    /\ pc[c] = "reauth" \/ (pc[c] = "issue" /\ Op(c) = "resolve") => Issues(c)
    /\ pc[c] = "settle" /\ Issues(c) => ids[c] = {c} /\ Granted(c, Target(c))
    /\ pc[c] = "disable" => commands[Target(c)] # "none"

\* A call that spends or revokes, against what was so when it began.
RevokerOf(c) ==
    /\ \A g \in deadBefore[c] : grants[g].status = "revoked"
    /\ \A g \in aliveBefore[c] : grants[g].status # "none"
    /\ pc[c] = "charge" => ids[c] \cap deadBefore[c] = {}
    /\ pc[c] = "retire" /\ Op(c) = "kick" =>
          \A g \in aliveBefore[c] :
             grants[g].actor = Target(c) => g \in ids[c] \/ grants[g].status = "revoked"
    /\ pc[c] = "done" /\ Op(c) = "act" /\ answer[c] = "ok" => ids[c] \cap deadBefore[c] = {}
    /\ pc[c] = "done" /\ Op(c) = "kick" /\ answer[c] = "ok" =>
          \A g \in aliveBefore[c] : grants[g].actor = Target(c) => grants[g].status = "revoked"

\* A row is there when the call that creates it is done.
RowOf(r) ==
    /\ requests[r].status # "none" => pc[r] = "done" /\ Op(r) \in {"ask", "register"}
    /\ commands[r] # "none" <=> requests[r].status # "none" /\ Op(r) = "register"

ApprovedOf(r) ==
    requests[r].status = "approved" /\ AskedFor(r) =>
        requests[r].grant # NoOne /\ Granted(requests[r].grant, r)

CommandOf(r) ==
    commands[r] # "none" =>
        \/ commands[r] = "pending" /\ requests[r].status = "open"
        \/ commands[r] = "active" /\ requests[r].status = "approved"
        \/ commands[r] = "disabled" /\ requests[r].status = "denied"
        \/ commands[r] = "disabled" /\ Deletes(r) # {}

\* A channel's slot has one row for ever.
SlotOf(c) ==
    commands[c] # "none" /\ input[c].scope # OrgWide => \A d \in SameSlot(c) : d = c

CallOf(c) == StepOf(c) /\ GrantOf(c) /\ ResolverOf(c) /\ RevokerOf(c)
RequestOf(r) == RowOf(r) /\ ApprovedOf(r) /\ CommandOf(r) /\ SlotOf(r)

Inv == /\ TypeOK
       /\ \A c \in Calls : CallOf(c)
       /\ \A r \in Calls : RequestOf(r)

(***************************************************************************)
(* Calls one at a time.                                                    *)
(***************************************************************************)
\* The request a resolver has read is still open; an answer or a grant of a
\* resolver means it is not.
CalmOf(c) ==
    Op(c) = "resolve" =>
        /\ pc[c] \in {"reauth", "issue", "settle"} => requests[Target(c)].status = "open"
        /\ answer[c] = "ok" => requests[Target(c)].status \in {"approved", "denied"}
        /\ grants[c].status # "none" =>
              /\ input[c].approve
              /\ pc[c] = "settle" \/ requests[Target(c)].status = "approved"

CalmInv ==
    calm => /\ \A c, d \in Open : c = d
            /\ \A c \in Calls : CalmOf(c)
            /\ \A c, d \in Calls : /\ Op(c) = "resolve" /\ answer[c] = "ok"
                                   /\ Op(d) = "resolve" /\ answer[d] = "ok"
                                   /\ Target(c) = Target(d)
                                   => c = d

(***************************************************************************)
(* Initial states.                                                         *)
(***************************************************************************)
LEMMA InvInit == Init => Inv
  <1> SUFFICES ASSUME Init  PROVE Inv
    OBVIOUS
  <1> USE DEF Init
  <1>1. /\ NoRequest \in [status : {"none", "open", "approved", "denied"}, grant : Calls \cup {NoOne}]
        /\ NoRequest.status = "none" /\ NoGrant \in GrantRow /\ NoGrant.status = "none"
    BY RowsAssumption DEF NoRequest, NoGrant, GrantRow, Unlimited, GrantCreate
  <1>2. grants \in [GrantIds -> GrantRow]
    BY <1>1, RowsAssumption DEF GrantIds
  <1>3. TypeOK
    BY <1>1, <1>2 DEF TypeOK, Steps, Answers
  <1>4. ASSUME NEW c \in Calls  PROVE CallOf(c)
    <2>1. StepOf(c)
      BY DEF StepOf, Op
    <2>2. GrantOf(c)
      BY <1>1 DEF GrantOf, GrantIds
    <2>3. ResolverOf(c) /\ RevokerOf(c)
      BY DEF ResolverOf, RevokerOf
    <2> QED BY <2>1, <2>2, <2>3 DEF CallOf
  <1>5. ASSUME NEW r \in Calls  PROVE RequestOf(r)
    BY <1>1 DEF RequestOf, RowOf, ApprovedOf, CommandOf, SlotOf
  <1> QED BY <1>3, <1>4, <1>5 DEF Inv

(***************************************************************************)
(* What a step of one call leaves alone.                                   *)
(***************************************************************************)
\* A grant that was revoked or given stays so.
Ages ==
    \A g \in GrantIds :
        /\ grants[g].status = "revoked" => grants'[g].status = "revoked"
        /\ grants[g].status # "none" =>
              /\ grants'[g].status # "none"
              /\ grants'[g].actor = grants[g].actor /\ grants'[g].cap = grants[g].cap

\* The other calls rest, and none of their grants appears.
Aside(c) ==
    /\ pc[c] # "done"
    /\ \A d \in Calls \ {c} :
          /\ pc'[d] = pc[d] /\ input'[d] = input[d] /\ answer'[d] = answer[d] /\ ids'[d] = ids[d]
          /\ deadBefore'[d] = deadBefore[d] /\ aliveBefore'[d] = aliveBefore[d]
          /\ grants[d].status = "none" => grants'[d].status = "none"

\* A request stays, with its command or without.
Keeps ==
    \A r \in Calls : requests[r].status # "none" =>
        /\ requests'[r].status # "none"
        /\ commands'[r] = "none" <=> commands[r] = "none"

\* The creator of a row is done, so that it takes no step.
LEMMA RowIsDone ==
  ASSUME Inv, NEW c \in Calls, Aside(c), NEW r \in Calls, requests[r].status # "none"
  PROVE  r # c /\ pc[r] = "done" /\ pc'[r] = "done" /\ input'[r] = input[r]
  BY DEF Inv, RequestOf, RowOf, Aside

LEMMA OtherCall ==
  ASSUME Inv, NEW c \in Calls, Aside(c), Ages, Keeps, NEW d \in Calls \ {c}
  PROVE  CallOf(d)'
  <1> USE DEF Inv
  <1>1. CallOf(d)
    OBVIOUS
  <1>2. /\ pc'[d] = pc[d] /\ input'[d] = input[d] /\ answer'[d] = answer[d] /\ ids'[d] = ids[d]
        /\ deadBefore'[d] = deadBefore[d] /\ aliveBefore'[d] = aliveBefore[d]
        /\ grants[d].status = "none" => grants'[d].status = "none"
    BY DEF Aside
  <1>3. ids[d] \subseteq GrantIds /\ deadBefore[d] \subseteq GrantIds /\ aliveBefore[d] \subseteq GrantIds
    BY DEF TypeOK
  <1>4. StepOf(d)'
    BY <1>1, <1>2 DEF CallOf, StepOf, Op
  <1>5. GrantOf(d)'
    BY <1>1, <1>2, <1>3 DEF CallOf, GrantOf, Ages
  <1>6. RevokerOf(d)'
    <2>1. RevokerOf(d) /\ GrantOf(d)
      BY <1>1 DEF CallOf
    <2>2. \A g \in aliveBefore[d] : /\ g \in GrantIds /\ grants[g].status # "none"
                                    /\ grants'[g].actor = grants[g].actor
                                    /\ grants[g].status = "revoked" => grants'[g].status = "revoked"
      BY <1>3, <2>1 DEF RevokerOf, Ages
    <2>3. (\A g \in deadBefore[d] : grants'[g].status = "revoked")
            /\ \A g \in aliveBefore[d] : grants'[g].status # "none"
      BY <1>3, <2>1 DEF RevokerOf, Ages
    <2> QED BY <1>2, <2>1, <2>2, <2>3 DEF RevokerOf, Op, Target
  <1>7. ResolverOf(d)'
    <2>1. ResolverOf(d) /\ StepOf(d)
      BY <1>1 DEF CallOf
    <2>2. CASE pc[d] \in {"reauth", "settle"} \/ (pc[d] = "issue" /\ Op(d) = "resolve")
      <3>1. requests[Target(d)].status # "none"
        BY <2>1, <2>2 DEF ResolverOf
      <3>2. Target(d) \in Calls
        BY <2>1, <2>2, InputsAssumption DEF StepOf, Op, Target, TypeOK
      <3>3. /\ Target(d)' = Target(d) /\ Op(d)' = Op(d) /\ requests'[Target(d)].status # "none"
            /\ input'[Target(d)] = input[Target(d)] /\ Issues(d)' = Issues(d)
        BY <1>2, <3>1, <3>2, RowIsDone DEF Target, Op, Issues, Keeps
      <3>4. d \in GrantIds
        BY DEF GrantIds
      <3>5. Granted(d, Target(d)) => Granted(d, Target(d))'
        BY <3>3, <3>4 DEF Granted, Ages
      <3> QED BY <1>2, <2>1, <2>2, <3>3, <3>5 DEF ResolverOf
    <2>3. CASE pc[d] = "disable"
      <3>1. Target(d) \in Calls /\ commands[Target(d)] # "none"
        BY <2>1, <2>3, InputsAssumption DEF StepOf, Op, Target, TypeOK, ResolverOf
      <3>2. requests[Target(d)].status # "none"
        BY <3>1 DEF RequestOf, RowOf
      <3>3. commands'[Target(d)] # "none" /\ Target(d)' = Target(d)
        BY <1>2, <3>1, <3>2 DEF Keeps, Target
      <3> QED BY <1>2, <2>3, <3>3 DEF ResolverOf
    <2>4. CASE ~(pc[d] \in {"reauth", "settle", "disable"} \/ (pc[d] = "issue" /\ Op(d) = "resolve"))
      BY <1>2, <2>4 DEF ResolverOf, Op
    <2> QED BY <2>2, <2>3, <2>4
  <1> QED BY <1>4, <1>5, <1>6, <1>7 DEF CallOf

\* A row that is not written.
LEMMA OtherRow ==
  ASSUME Inv, NEW c \in Calls, Aside(c), Ages, NEW r \in Calls,
         requests'[r] = requests[r], commands'[r] = commands[r]
  PROVE  RowOf(r)' /\ ApprovedOf(r)' /\ CommandOf(r)'
  <1> USE DEF Inv
  <1>1. RowOf(r) /\ ApprovedOf(r) /\ CommandOf(r)
    BY DEF RequestOf
  <1>2. CASE requests[r].status = "none"
    BY <1>1, <1>2 DEF RowOf, ApprovedOf, CommandOf
  <1>3. CASE requests[r].status # "none"
    <2>1. pc[r] = "done" /\ pc'[r] = "done" /\ input'[r] = input[r]
      BY <1>3, RowIsDone
    <2>2. RowOf(r)'
      BY <1>1, <2>1 DEF RowOf, Op
    <2>3. ApprovedOf(r)'
      <3> SUFFICES ASSUME requests[r].status = "approved", AskedFor(r)
                   PROVE  requests[r].grant # NoOne /\ Granted(requests[r].grant, r)'
        BY <2>1 DEF ApprovedOf, AskedFor
      <3>1. requests[r].grant # NoOne /\ Granted(requests[r].grant, r)
        BY <1>1 DEF ApprovedOf
      <3>2. requests[r].grant \in GrantIds
        BY <3>1 DEF TypeOK, GrantIds
      <3> QED BY <2>1, <3>1, <3>2 DEF Granted, Ages
    <2>4. CommandOf(r)'
      <3>1. \A d \in Deletes(r) : d \in Deletes(r)'
        BY DEF Deletes, Aside, Op, Target
      <3> QED BY <1>1, <3>1 DEF CommandOf
    <2> QED BY <2>2, <2>3, <2>4
  <1> QED BY <1>2, <1>3

\* No new command.
LEMMA SameSlots ==
  ASSUME Inv, NEW c \in Calls, Aside(c), \A r \in Calls : commands'[r] = "none" <=> commands[r] = "none"
  PROVE  \A r \in Calls : SlotOf(r)'
  <1> SUFFICES ASSUME NEW r \in Calls, commands[r] # "none", input'[r].scope # OrgWide,
                      NEW d \in SameSlot(r)'
               PROVE  d = r
    BY DEF SlotOf
  <1>1. \A e \in Calls : commands[e] # "none" => input'[e] = input[e]
    BY RowIsDone DEF Inv, RequestOf, RowOf
  <1>2. d \in SameSlot(r) /\ input[r].scope # OrgWide
    BY <1>1 DEF SameSlot
  <1> QED BY <1>2 DEF Inv, RequestOf, SlotOf

\* A step that writes no row of requests or commands.
LEMMA CallStep ==
  ASSUME Inv, NEW c \in Calls, TypeOK', Aside(c), Ages, CallOf(c)', UNCHANGED <<requests, commands>>
  PROVE  Inv'
  <1>1. Keeps
    BY DEF Keeps
  <1>2. \A d \in Calls : CallOf(d)'
    BY <1>1, OtherCall
  <1>3. \A r \in Calls : SlotOf(r)'
    BY SameSlots
  <1>4. \A r \in Calls : RequestOf(r)'
    BY <1>3, OtherRow DEF RequestOf
  <1> QED BY <1>2, <1>4 DEF Inv

(***************************************************************************)
(* Steps that read.                                                        *)
(***************************************************************************)
\* Call c goes to step l, with answer a, having the ids S.
Moves(c, l, a, S) ==
    /\ UNCHANGED <<calm, input, deadBefore, aliveBefore>>
    /\ pc' \in [Calls -> Steps] /\ answer' \in [Calls -> Answers] /\ ids' \in [Calls -> SUBSET GrantIds]
    /\ pc'[c] = l /\ answer'[c] = a /\ ids'[c] = S
    /\ \A d \in Calls \ {c} : pc'[d] = pc[d] /\ answer'[d] = answer[d] /\ ids'[d] = ids[d]

LEMMA ReadStep ==
  ASSUME Inv, NEW c \in Calls, NEW l, NEW a, NEW S, Moves(c, l, a, S), pc[c] \notin {"idle", "done"},
         UNCHANGED <<requests, grants, commands>>, CallOf(c)'
  PROVE  Inv'
  <1>1. Aside(c) /\ Ages
    BY DEF Aside, Ages, Moves
  <1>2. TypeOK'
    <2>1. \A d \in Calls : pc'[d] # "idle" => input[d] \in InputsOf[d]
      BY DEF Inv, TypeOK, Moves
    <2> QED BY <2>1 DEF Inv, TypeOK, Moves
  <1> QED BY <1>1, <1>2, CallStep

\* A call that fails.
LEMMA RefusedStep ==
  ASSUME Inv, NEW c \in Calls, NEW a \in {"denied", "invalid", "conflict", "error"}, Finish(c, a),
         pc[c] \notin {"idle", "done"},
         UNCHANGED <<calm, input, ids, requests, grants, commands, deadBefore, aliveBefore>>
  PROVE  Inv'
  <1>1. Moves(c, "done", a, ids[c])
    BY DEF Finish, Goto, Moves, Inv, TypeOK, Steps, Answers
  <1>2. RevokerOf(c)
    BY DEF Inv, CallOf
  <1>3. CallOf(c)'
    BY <1>1, <1>2 DEF Moves, CallOf, StepOf, GrantOf, ResolverOf, RevokerOf
  <1> QED BY <1>1, <1>3, ReadStep

\* A call that goes on.
LEMMA GoesOn ==
  ASSUME Inv, NEW c \in Calls, NEW l \in Steps, Goto(c, l), UNCHANGED <<calm, input, answer, deadBefore, aliveBefore>>,
         ids' = ids \/ \E S \in SUBSET GrantIds : ids' = [ids EXCEPT ![c] = S]
  PROVE  Moves(c, l, answer[c], ids'[c])
  BY DEF Goto, Moves, Inv, TypeOK

LEMMA AuthorizeStep ==
  ASSUME Inv, NEW c \in Calls, Authorize(c)
  PROVE  Inv'
  <1>1. /\ pc[c] = "auth"
        /\ UNCHANGED <<calm, input, ids, requests, grants, commands, deadBefore, aliveBefore>>
    BY DEF Authorize
  <1>2. CASE Finish(c, "denied")
    BY <1>1, <1>2, RefusedStep
  <1>3. CASE Goto(c, Op(c)) /\ UNCHANGED answer
    <2>1. CallOf(c)
      BY DEF Inv
    <2>2. Op(c) \in {"resolve", "issue", "revoke", "kick"}
      BY <1>1, <2>1 DEF CallOf, StepOf
    <2>3. Moves(c, Op(c), answer[c], ids[c])
      BY <1>1, <1>3, <2>2, GoesOn DEF Steps
    <2>4. CallOf(c)'
      BY <1>1, <2>1, <2>2, <2>3 DEF Moves, CallOf, StepOf, GrantOf, ResolverOf, RevokerOf, Op
    <2> QED BY <1>1, <2>3, <2>4, ReadStep
  <1> QED BY <1>2, <1>3 DEF Authorize

LEMMA ReadRequestStep ==
  ASSUME Inv, NEW c \in Calls, ReadRequest(c)
  PROVE  Inv'
  <1>1. /\ pc[c] = "resolve"
        /\ UNCHANGED <<calm, input, ids, requests, grants, commands, deadBefore, aliveBefore>>
    BY DEF ReadRequest
  <1>2. CASE Finish(c, "invalid")
    BY <1>1, <1>2, RefusedStep
  <1>3. CASE FoundOpen(c) /\ Goto(c, IF Issues(c) THEN "reauth" ELSE "settle") /\ UNCHANGED answer
    <2> DEFINE l == IF Issues(c) THEN "reauth" ELSE "settle"
    <2>1. CallOf(c)
      BY DEF Inv
    <2>2. Moves(c, l, answer[c], ids[c])
      BY <1>1, <1>3, GoesOn DEF Steps
    <2>3. Op(c) = "resolve" /\ requests[Target(c)].status # "none"
      BY <1>1, <1>3, <2>1 DEF CallOf, StepOf, FoundOpen
    <2>4. Op(c)' = Op(c) /\ Target(c)' = Target(c) /\ Issues(c)' = Issues(c)
      BY <1>1 DEF Op, Target, Issues
    <2>5. (l = "reauth" => Issues(c)) /\ (l = "settle" => ~Issues(c)) /\ l \in {"reauth", "settle"}
      OBVIOUS
    <2> HIDE DEF l
    <2>6. StepOf(c)' /\ GrantOf(c)' /\ RevokerOf(c)'
      BY <1>1, <2>1, <2>2, <2>3, <2>4, <2>5 DEF Moves, CallOf, StepOf, GrantOf, RevokerOf
    <2>7. ResolverOf(c)'
      BY <1>1, <2>2, <2>3, <2>4, <2>5 DEF Moves, ResolverOf
    <2> QED BY <1>1, <2>2, <2>6, <2>7, ReadStep DEF CallOf
  <1> QED BY <1>2, <1>3 DEF ReadRequest

LEMMA ReauthorizeStep ==
  ASSUME Inv, NEW c \in Calls, Reauthorize(c)
  PROVE  Inv'
  <1>1. /\ pc[c] = "reauth"
        /\ UNCHANGED <<calm, input, ids, requests, grants, commands, deadBefore, aliveBefore>>
    BY DEF Reauthorize
  <1>2. CASE Finish(c, "denied")
    BY <1>1, <1>2, RefusedStep
  <1>3. CASE Goto(c, "issue") /\ UNCHANGED answer
    <2>1. CallOf(c)
      BY DEF Inv
    <2>2. Moves(c, "issue", answer[c], ids[c])
      BY <1>1, <1>3, GoesOn DEF Steps
    <2>3. Op(c)' = Op(c) /\ Target(c)' = Target(c) /\ Issues(c)' = Issues(c)
      BY <1>1 DEF Op, Target, Issues
    <2>4. CallOf(c)'
      BY <1>1, <2>1, <2>2, <2>3 DEF Moves, CallOf, StepOf, GrantOf, ResolverOf, RevokerOf
    <2> QED BY <1>1, <2>2, <2>4, ReadStep
  <1> QED BY <1>2, <1>3 DEF Reauthorize

\* CheckSlot, MayDelete and CheckGrant.
LEMMA CheckStep ==
  ASSUME Inv, NEW c \in Calls, CheckSlot(c) \/ MayDelete(c) \/ CheckGrant(c)
  PROVE  Inv'
  <1>1. /\ pc[c] \in {"register", "delete", "act"}
        /\ UNCHANGED <<calm, input, ids, requests, grants, commands, deadBefore, aliveBefore>>
    BY DEF CheckSlot, MayDelete, CheckGrant
  <1>2. CASE \E a \in {"invalid", "denied"} : Finish(c, a)
    BY <1>1, <1>2, RefusedStep
  <1>3. CASE \E l \in {"insert", "disable", "pick"} :
                /\ Goto(c, l) /\ UNCHANGED answer
                /\ l = "insert" <=> pc[c] = "register"
                /\ l = "disable" <=> pc[c] = "delete"
                /\ l = "disable" => commands[Target(c)] # "none"
    <2>1. PICK l \in {"insert", "disable", "pick"} :
                /\ Goto(c, l) /\ UNCHANGED answer
                /\ l = "insert" <=> pc[c] = "register"
                /\ l = "disable" <=> pc[c] = "delete"
                /\ l = "disable" => commands[Target(c)] # "none"
      BY <1>3
    <2>2. CallOf(c)
      BY DEF Inv
    <2>3. Moves(c, l, answer[c], ids[c])
      BY <1>1, <2>1, GoesOn DEF Steps
    <2>4. Op(c)' = Op(c) /\ Target(c)' = Target(c)
      BY <1>1 DEF Op, Target
    <2>5. CallOf(c)'
      BY <1>1, <2>1, <2>2, <2>3, <2>4 DEF Moves, CallOf, StepOf, GrantOf, ResolverOf, RevokerOf
    <2> QED BY <1>1, <2>3, <2>5, ReadStep
  <1> QED BY <1>1, <1>2, <1>3 DEF CheckSlot, MayDelete, CheckGrant

\* consumeGrantInTx picks a live grant: not one that was dead before.
LEMMA PickGrantStep ==
  ASSUME Inv, NEW c \in Calls, PickGrant(c)
  PROVE  Inv'
  <1>1. /\ pc[c] = "pick"
        /\ UNCHANGED <<calm, input, requests, grants, commands, aliveBefore>>
    BY DEF PickGrant
  <1>2. CASE Finish(c, "denied") /\ UNCHANGED <<ids, deadBefore>>
    BY <1>1, <1>2, RefusedStep
  <1>3. CASE \E g \in Spends(input[c].actor, input[c].cap) :
                /\ ids' = [ids EXCEPT ![c] = {g}]
                /\ deadBefore' = [deadBefore EXCEPT ![c] = Retired]
                /\ Goto(c, "charge") /\ UNCHANGED answer
    <2>1. PICK g \in Spends(input[c].actor, input[c].cap) :
                /\ ids' = [ids EXCEPT ![c] = {g}]
                /\ deadBefore' = [deadBefore EXCEPT ![c] = Retired]
                /\ Goto(c, "charge") /\ UNCHANGED answer
      BY <1>3
    <2>2. g \in GrantIds /\ grants[g].status = "active"
      BY <2>1 DEF Spends, Holds, Live
    <2>3. /\ ids' \in [Calls -> SUBSET GrantIds] /\ ids'[c] = {g}
          /\ pc' \in [Calls -> Steps] /\ pc'[c] = "charge"
          /\ deadBefore' \in [Calls -> SUBSET GrantIds] /\ deadBefore'[c] = Retired
          /\ \A d \in Calls \ {c} : pc'[d] = pc[d] /\ ids'[d] = ids[d] /\ deadBefore'[d] = deadBefore[d]
      BY <2>1, <2>2 DEF Inv, TypeOK, Goto, Steps, Retired
    <2>4. Aside(c) /\ Ages
      BY <1>1, <2>1, <2>3 DEF Aside, Ages
    <2>5. CallOf(c) /\ TypeOK
      BY DEF Inv
    <2>6. Op(c)' = Op(c) /\ Target(c)' = Target(c)
      BY <1>1 DEF Op, Target
    <2>7. StepOf(c)' /\ GrantOf(c)' /\ ResolverOf(c)'
      BY <1>1, <2>1, <2>2, <2>3, <2>5, <2>6 DEF CallOf, StepOf, GrantOf, ResolverOf
    <2>8. RevokerOf(c)'
      <3>1. /\ \A h \in deadBefore'[c] : grants'[h].status = "revoked"
            /\ ids'[c] \cap deadBefore'[c] = {}
        BY <1>1, <2>2, <2>3 DEF Retired
      <3> QED BY <1>1, <2>3, <2>5, <3>1 DEF CallOf, RevokerOf
    <2>9. TypeOK'
      <3>1. \A d \in Calls : pc'[d] # "idle" => input'[d] \in InputsOf[d]
        BY <1>1, <2>3, <2>5 DEF TypeOK
      <3> QED BY <1>1, <2>1, <2>3, <2>5, <3>1 DEF TypeOK
    <2> QED BY <1>1, <2>4, <2>7, <2>8, <2>9, CallStep DEF CallOf
  <1> QED BY <1>2, <1>3 DEF PickGrant

\* revokeAllGrantsForActor: of the grants that were active when it began, those
\* it does not find are revoked by now.
LEMMA ReadGrantsStep ==
  ASSUME Inv, NEW c \in Calls, ReadGrants(c)
  PROVE  Inv'
  <1> DEFINE found == IF Op(c) = "kick" THEN Kicked(Target(c))
                      ELSE {g \in {Target(c)} : grants[g].status # "none"}
  <1>1. /\ pc[c] \in {"revoke", "kick"}
        /\ UNCHANGED <<calm, input, requests, grants, commands, deadBefore, aliveBefore>>
        /\ ids' = [ids EXCEPT ![c] = found]
        /\ \/ found # {} /\ Goto(c, "retire") /\ UNCHANGED answer
           \/ found = {} /\ Finish(c, IF Op(c) = "kick" THEN "ok" ELSE "invalid")
    BY DEF ReadGrants
  <1>2. CallOf(c)
    BY DEF Inv
  <1>3. Op(c) = pc[c]
    BY <1>1, <1>2 DEF CallOf, StepOf
  <1>4. Op(c)' = Op(c) /\ Target(c)' = Target(c)
    BY <1>1 DEF Op, Target
  <1>5. /\ found \in SUBSET GrantIds /\ \A g \in found : grants[g].status # "none"
        /\ Op(c) = "kick" => \A g \in aliveBefore[c] :
              grants[g].actor = Target(c) => g \in found \/ grants[g].status = "revoked"
    <2>1. CASE Op(c) = "kick"
      <3>1. \A g \in GrantIds : grants[g].status \in {"none", "active", "revoked"}
        BY DEF Inv, TypeOK, GrantRow
      <3>2. \A g \in aliveBefore[c] : g \in GrantIds /\ grants[g].status # "none"
        BY <1>2 DEF CallOf, RevokerOf, Inv, TypeOK
      <3> QED BY <2>1, <3>1, <3>2 DEF Kicked
    <2>2. CASE Op(c) = "revoke"
      <3>1. Target(c) \in GrantIds
        BY <1>1, <2>2, InputsAssumption DEF Inv, TypeOK, Op, Target
      <3> QED BY <2>2, <3>1
    <2> QED BY <1>1, <1>3, <2>1, <2>2
  <1> HIDE DEF found
  <1>6. ids'[c] = found
    BY <1>1 DEF Inv, TypeOK
  <1>7. CASE found # {} /\ Goto(c, "retire") /\ UNCHANGED answer
    <2>1. Moves(c, "retire", answer[c], found)
      BY <1>1, <1>5, <1>6, <1>7, GoesOn DEF Steps
    <2>2. StepOf(c)' /\ GrantOf(c)' /\ ResolverOf(c)'
      BY <1>1, <1>2, <1>3, <1>4, <1>5, <2>1 DEF Moves, CallOf, StepOf, GrantOf, ResolverOf
    <2>3. RevokerOf(c)'
      BY <1>1, <1>2, <1>4, <1>5, <2>1 DEF Moves, CallOf, RevokerOf
    <2> QED BY <1>1, <2>1, <2>2, <2>3, ReadStep DEF CallOf
  <1>8. CASE found = {} /\ Finish(c, IF Op(c) = "kick" THEN "ok" ELSE "invalid")
    <2> DEFINE a == IF Op(c) = "kick" THEN "ok" ELSE "invalid"
    <2>1. a \in {"ok", "invalid"} /\ Finish(c, a)
      BY <1>8
    <2> HIDE DEF a
    <2>2. Moves(c, "done", a, found)
      BY <1>1, <1>5, <1>6, <2>1 DEF Finish, Goto, Moves, Inv, TypeOK, Steps, Answers
    <2>3. StepOf(c)' /\ GrantOf(c)' /\ ResolverOf(c)'
      BY <2>1, <2>2 DEF Moves, StepOf, GrantOf, ResolverOf
    <2>4. Op(c) # "act"
      BY <1>1, <1>3
    <2>5. RevokerOf(c)'
      BY <1>1, <1>2, <1>4, <1>5, <1>8, <2>2, <2>4 DEF Moves, CallOf, RevokerOf
    <2> QED BY <1>1, <2>2, <2>3, <2>5, ReadStep DEF CallOf
  <1> QED BY <1>1, <1>7, <1>8

LEMMA LoseStep ==
  ASSUME Inv, NEW c \in Calls, Lose(c) \/ InsertCommandFails(c)
  PROVE  Inv'
  BY RefusedStep DEF Lose, InsertCommandFails, Open

LEMMA StartStep ==
  ASSUME Inv, NEW c \in Calls, Start(c)
  PROVE  Inv'
  <1>1. PICK i \in InputsOf[c] : input' = [input EXCEPT ![c] = i] /\ Goto(c, FirstStep(i.op))
    BY DEF Start
  <1>2. /\ pc[c] = "idle" /\ UNCHANGED <<calm, answer, ids, requests, grants, commands>>
        /\ deadBefore' = [deadBefore EXCEPT ![c] = Retired]
        /\ aliveBefore' = [aliveBefore EXCEPT ![c] = {g \in GrantIds : grants[g].status = "active"}]
    BY DEF Start
  <1>r. Retired = {g \in GrantIds : grants[g].status = "revoked"}
    BY DEF Retired
  <1>3. i.op \in {"ask", "issue", "resolve", "delete", "revoke", "register", "kick", "act"}
    BY <1>1, InputsAssumption
  <1>4. /\ FirstStep(i.op) \in {"auth", "ask", "delete", "register", "act"}
        /\ FirstStep(i.op) = "auth" <=> i.op \in {"resolve", "issue", "revoke", "kick"}
        /\ FirstStep(i.op) # "auth" => FirstStep(i.op) = i.op
    BY <1>3 DEF FirstStep
  <1>5. /\ pc' = [pc EXCEPT ![c] = FirstStep(i.op)] /\ pc \in [Calls -> Steps] /\ DOMAIN input = Calls
        /\ deadBefore \in [Calls -> SUBSET GrantIds] /\ aliveBefore \in [Calls -> SUBSET GrantIds]
    BY <1>1 DEF Goto, Inv, TypeOK
  <1>6. Aside(c) /\ Ages
    BY <1>1, <1>2, <1>5 DEF Aside, Ages
  <1>7. TypeOK'
    <2>1. /\ pc' \in [Calls -> Steps] /\ DOMAIN input' = Calls
          /\ deadBefore' \in [Calls -> SUBSET GrantIds] /\ aliveBefore' \in [Calls -> SUBSET GrantIds]
      BY <1>1, <1>2, <1>r, <1>4, <1>5 DEF Steps
    <2>2. \A d \in Calls : pc'[d] # "idle" => input'[d] \in InputsOf[d]
      BY <1>1, <1>5 DEF Inv, TypeOK
    <2> QED BY <1>2, <2>1, <2>2 DEF Inv, TypeOK
  <1>8. CallOf(c)'
    <2>1. pc'[c] = FirstStep(i.op) /\ Op(c)' = i.op /\ CallOf(c)
      BY <1>1, <1>5 DEF Op, Inv
    <2>2. StepOf(c)'
      BY <1>2, <1>4, <2>1 DEF CallOf, StepOf
    <2>3. GrantOf(c)' /\ ResolverOf(c)'
      BY <1>2, <1>4, <2>1 DEF CallOf, GrantOf, ResolverOf
    <2>4. RevokerOf(c)'
      BY <1>2, <1>r, <1>4, <1>5, <2>1 DEF RevokerOf
    <2> QED BY <2>2, <2>3, <2>4 DEF CallOf
  <1> QED BY <1>2, <1>6, <1>7, <1>8, CallStep

(***************************************************************************)
(* Steps that write.                                                       *)
(***************************************************************************)
LEMMA MovesTyped ==
  ASSUME Inv, NEW c \in Calls, NEW l, NEW a, NEW S, Moves(c, l, a, S), pc[c] # "idle",
         requests' \in [Calls -> [status : {"none", "open", "approved", "denied"},
                                  grant : Calls \cup {NoOne}]],
         commands' \in [Calls -> {"none", "pending", "active", "disabled"}],
         grants' \in [GrantIds -> GrantRow]
  PROVE  TypeOK'
  <1>1. \A d \in Calls : pc'[d] # "idle" => input[d] \in InputsOf[d]
    BY DEF Inv, TypeOK, Moves
  <1> QED BY <1>1 DEF Inv, TypeOK, Moves

LEMMA CommittedIs ==
  ASSUME Inv, NEW c \in Calls, Committed(c),
         UNCHANGED <<calm, input, deadBefore, aliveBefore>>,
         ids' = ids \/ \E S \in SUBSET GrantIds : ids' = [ids EXCEPT ![c] = S]
  PROVE  \E a \in {"ok", "error"} : Moves(c, "done", a, ids'[c])
  <1>1. PICK a \in {"ok", "error"} : Finish(c, a)
    BY DEF Committed
  <1>2. ids' \in [Calls -> SUBSET GrantIds] /\ \A d \in Calls \ {c} : ids'[d] = ids[d]
    BY DEF Inv, TypeOK
  <1>3. Moves(c, "done", a, ids'[c])
    BY <1>1, <1>2 DEF Finish, Goto, Moves, Inv, TypeOK, Steps, Answers
  <1> QED BY <1>3

\* A call that ends, and neither spent nor revoked.
LEMMA DoneCall ==
  ASSUME Inv, NEW c \in Calls, NEW a, NEW S, Moves(c, "done", a, S), Ages, Op(c) \notin {"act", "kick"}
  PROVE  CallOf(c)'
  <1>1. RevokerOf(c) /\ Op(c)' = Op(c)
    BY DEF Inv, CallOf, Moves, Op
  <1>2. deadBefore[c] \subseteq GrantIds /\ aliveBefore[c] \subseteq GrantIds
    BY DEF Inv, TypeOK
  <1>3. RevokerOf(c)'
    BY <1>1, <1>2 DEF Moves, RevokerOf, Ages
  <1> QED BY <1>3 DEF Moves, CallOf, StepOf, GrantOf, ResolverOf

\* A step that writes the row r.
LEMMA RowStep ==
  ASSUME Inv, NEW c \in Calls, NEW a, NEW S, Moves(c, "done", a, S), pc[c] \notin {"idle", "done"},
         Op(c) \notin {"act", "kick"}, TypeOK', UNCHANGED grants, NEW r \in Calls,
         \A q \in Calls \ {r} : requests'[q] = requests[q] /\ commands'[q] = commands[q],
         requests'[r].status # "none",
         requests[r].status # "none" => (commands'[r] = "none" <=> commands[r] = "none"),
         RowOf(r)', ApprovedOf(r)', CommandOf(r)', \A q \in Calls : SlotOf(q)'
  PROVE  Inv'
  <1>1. Ages /\ Aside(c)
    BY DEF Ages, Aside, Moves
  <1>2. Keeps
    BY DEF Keeps
  <1>3. \A d \in Calls : CallOf(d)'
    BY <1>1, <1>2, DoneCall, OtherCall
  <1>4. ASSUME NEW q \in Calls  PROVE RequestOf(q)'
    BY <1>1, OtherRow DEF RequestOf
  <1> QED BY <1>3, <1>4 DEF Inv

LEMMA CreateStep ==
  ASSUME Inv, NEW c \in Calls, CreatePermissionRequest(c)
  PROVE  Inv'
  <1>1. /\ pc[c] = "ask" /\ requests' = [requests EXCEPT ![c].status = "open"]
        /\ Committed(c) /\ UNCHANGED <<calm, input, ids, grants, commands, deadBefore, aliveBefore>>
    BY DEF CreatePermissionRequest
  <1>2. PICK a \in {"ok", "error"} : Moves(c, "done", a, ids'[c])
    BY <1>1, CommittedIs
  <1>3. Op(c) = "ask" /\ Op(c)' = "ask" /\ requests[c].status = "none" /\ commands[c] = "none"
    BY <1>1 DEF Inv, CallOf, StepOf, RequestOf, RowOf, Op
  <1>4. /\ requests' \in [Calls -> [status : {"none", "open", "approved", "denied"},
                                    grant : Calls \cup {NoOne}]]
        /\ requests'[c].status = "open"
        /\ \A q \in Calls \ {c} : requests'[q] = requests[q]
    BY <1>1 DEF Inv, TypeOK
  <1>5. TypeOK'
    BY <1>1, <1>2, <1>4, MovesTyped DEF Inv, TypeOK
  <1>6. RowOf(c)' /\ ApprovedOf(c)' /\ CommandOf(c)'
    BY <1>1, <1>2, <1>3, <1>4 DEF RowOf, ApprovedOf, CommandOf, Moves
  <1>7. \A q \in Calls : SlotOf(q)'
    BY <1>1 DEF Inv, RequestOf, SlotOf, SameSlot
  <1> QED BY <1>1, <1>2, <1>3, <1>4, <1>5, <1>6, <1>7, RowStep

\* UNIQUE (org, channel, owner, name): the slot was empty.
LEMMA InsertStep ==
  ASSUME Inv, NEW c \in Calls, InsertCommand(c)
  PROVE  Inv'
  <1>1. /\ pc[c] = "insert" /\ UniqueConflict(c) = {}
        /\ commands' = [commands EXCEPT ![c] = "pending"]
        /\ requests' = [requests EXCEPT ![c].status = "open"]
        /\ Committed(c) /\ UNCHANGED <<calm, input, ids, grants, deadBefore, aliveBefore>>
    BY DEF InsertCommand
  <1>2. PICK a \in {"ok", "error"} : Moves(c, "done", a, ids'[c])
    BY <1>1, CommittedIs
  <1>3. Op(c) = "register" /\ Op(c)' = "register" /\ requests[c].status = "none" /\ commands[c] = "none"
    BY <1>1 DEF Inv, CallOf, StepOf, RequestOf, RowOf, Op
  <1>4. /\ requests' \in [Calls -> [status : {"none", "open", "approved", "denied"},
                                    grant : Calls \cup {NoOne}]]
        /\ requests'[c].status = "open" /\ commands'[c] = "pending"
        /\ commands' \in [Calls -> {"none", "pending", "active", "disabled"}]
        /\ \A q \in Calls \ {c} : requests'[q] = requests[q] /\ commands'[q] = commands[q]
    BY <1>1 DEF Inv, TypeOK
  <1>5. TypeOK'
    BY <1>1, <1>2, <1>4, MovesTyped DEF Inv, TypeOK
  <1>6. RowOf(c)' /\ ApprovedOf(c)' /\ CommandOf(c)'
    BY <1>1, <1>2, <1>3, <1>4 DEF RowOf, ApprovedOf, CommandOf, Moves
  <1>7. ASSUME NEW q \in Calls  PROVE SlotOf(q)'
    <2> SUFFICES ASSUME commands'[q] # "none", input[q].scope # OrgWide, NEW d \in SameSlot(q)'
                 PROVE  d = q
      BY <1>1 DEF SlotOf
    <2>1. d \in Calls /\ commands'[d] # "none" /\ input[d].actor = input[q].actor /\ input[d].scope = input[q].scope
      BY <1>1 DEF SameSlot
    <2>2. input[c].scope # OrgWide => SameSlot(c) = {}
      BY <1>1 DEF UniqueConflict
    <2>3. CASE q = c
      BY <1>4, <2>1, <2>2, <2>3 DEF SameSlot
    <2>4. CASE q # c /\ d = c
      <3>1. q \in SameSlot(c)
        BY <1>4, <2>1, <2>4 DEF SameSlot
      <3> QED BY <2>1, <2>2, <2>4, <3>1
    <2>5. CASE q # c /\ d # c
      <3>1. commands[q] # "none" /\ d \in SameSlot(q)
        BY <1>4, <2>1, <2>5 DEF SameSlot
      <3> QED BY <3>1 DEF Inv, RequestOf, SlotOf
    <2> QED BY <2>3, <2>4, <2>5
  <1> QED BY <1>1, <1>2, <1>3, <1>4, <1>5, <1>6, <1>7, RowStep

\* The resolver's request, which has its creator's input.
LEMMA Found ==
  ASSUME Inv, NEW c \in Calls, pc[c] = "settle" \/ (pc[c] = "issue" /\ Op(c) = "resolve")
  PROVE  /\ Op(c) = "resolve" /\ Target(c) \in Calls /\ input[c].approve \in BOOLEAN
         /\ input[c].max \in Nat
         /\ requests[Target(c)].status # "none" /\ pc[Target(c)] = "done" /\ Target(c) # c
         /\ commands[Target(c)] = "none" => /\ AskedFor(Target(c))
                                            /\ input[Target(c)].actor \in Actors
                                            /\ input[Target(c)].cap \in Capabilities
         /\ commands[Target(c)] # "none" => Op(Target(c)) = "register"
  <1>1. CallOf(c) /\ input[c] \in InputsOf[c]
    BY DEF Inv, TypeOK
  <1>2. Op(c) = "resolve" /\ requests[Target(c)].status # "none"
    BY <1>1 DEF CallOf, StepOf, ResolverOf
  <1>3. Target(c) \in Calls /\ input[c].approve \in BOOLEAN /\ input[c].max \in Nat
    BY <1>1, <1>2, InputsAssumption DEF Op, Target
  <1>4. RowOf(Target(c))
    BY <1>3 DEF Inv, RequestOf
  <1>5. pc[Target(c)] = "done" /\ input[Target(c)] \in InputsOf[Target(c)]
    BY <1>2, <1>3, <1>4 DEF RowOf, Inv, TypeOK
  <1>6. Op(Target(c)) = "ask" => input[Target(c)].actor \in Actors /\ input[Target(c)].cap \in Capabilities
    BY <1>3, <1>5, InputsAssumption DEF Op
  <1> QED BY <1>2, <1>3, <1>4, <1>5, <1>6 DEF RowOf, AskedFor, Op

LEMMA SettleRequestStep ==
  ASSUME Inv, NEW c \in Calls, SettleRequest(c)
  PROVE  Inv'
  <1>1. /\ pc[c] = "settle" /\ commands[Target(c)] = "none" /\ Committed(c)
        /\ requests' = [requests EXCEPT ![Target(c)] = [status |-> Verdict(c), grant |-> Issued(c)]]
        /\ UNCHANGED <<calm, input, ids, grants, commands, deadBefore, aliveBefore>>
    BY DEF SettleRequest
  <1>2. PICK a \in {"ok", "error"} : Moves(c, "done", a, ids'[c])
    BY <1>1, CommittedIs
  <1>3. PICK r \in Calls : r = Target(c)
    BY <1>1, Found
  <1>4. /\ Op(c) = "resolve" /\ pc[r] = "done" /\ r # c /\ AskedFor(r) /\ commands[r] = "none"
        /\ input[c].approve \in BOOLEAN /\ requests[r].status # "none"
    BY <1>1, <1>3, Found
  <1>5. /\ Verdict(c) \in {"approved", "denied"} /\ Issued(c) \in Calls \cup {NoOne}
        /\ Verdict(c) = "approved" => input[c].approve
    BY DEF Verdict, Issued
  <1>6. /\ requests' \in [Calls -> [status : {"none", "open", "approved", "denied"},
                                    grant : Calls \cup {NoOne}]]
        /\ requests'[r].status = Verdict(c) /\ requests'[r].grant = Issued(c)
        /\ \A q \in Calls \ {r} : requests'[q] = requests[q]
    BY <1>1, <1>3, <1>5 DEF Inv, TypeOK
  <1>7. TypeOK'
    BY <1>1, <1>2, <1>6, MovesTyped DEF Inv, TypeOK
  <1>8. RowOf(r)' /\ CommandOf(r)'
    <2>1. Op(r) = "ask" /\ Op(r)' = "ask" /\ pc'[r] = "done"
      BY <1>1, <1>2, <1>4 DEF Moves, Op, AskedFor
    <2> QED BY <1>1, <1>4, <1>5, <1>6, <2>1 DEF RowOf, CommandOf
  <1>9. ApprovedOf(r)'
    <2> SUFFICES ASSUME Verdict(c) = "approved"  PROVE Issued(c) = c /\ c # NoOne /\ Granted(c, r)'
      BY <1>5, <1>6 DEF ApprovedOf, Granted
    <2>1. Issues(c)
      BY <1>1, <1>5 DEF Issues
    <2>2. ids[c] = {c} /\ Granted(c, r)
      BY <1>1, <1>3, <2>1 DEF Inv, CallOf, ResolverOf
    <2>3. Issued(c) = c
      BY <2>2 DEF Issued
    <2> QED BY <1>1, <2>2, <2>3, RowsAssumption DEF Granted
  <1>10. \A q \in Calls : SlotOf(q)'
    BY <1>1 DEF Inv, RequestOf, SlotOf, SameSlot
  <1> QED BY <1>1, <1>2, <1>4, <1>5, <1>6, <1>7, <1>8, <1>9, <1>10, RowStep

LEMMA SettleCommandStep ==
  ASSUME Inv, NEW c \in Calls, SettleCommand(c)
  PROVE  Inv'
  <1>1. /\ pc[c] = "settle" /\ commands[Target(c)] # "none" /\ Committed(c)
        /\ commands' = [commands EXCEPT ![Target(c)] = CommandAfter(input[c].approve, @)]
        /\ requests' = [requests EXCEPT ![Target(c)] = [status |-> Verdict(c), grant |-> NoOne]]
        /\ UNCHANGED <<calm, input, ids, grants, deadBefore, aliveBefore>>
    BY DEF SettleCommand
  <1>2. PICK a \in {"ok", "error"} : Moves(c, "done", a, ids'[c])
    BY <1>1, CommittedIs
  <1>3. PICK r \in Calls : r = Target(c)
    BY <1>1, Found
  <1>4. /\ Op(c) = "resolve" /\ pc[r] = "done" /\ r # c /\ Op(r) = "register" /\ commands[r] # "none"
        /\ input[c].approve \in BOOLEAN /\ requests[r].status # "none"
    BY <1>1, <1>3, Found
  <1> DEFINE s == CommandAfter(input[c].approve, commands[r])
  <1>5. \/ Verdict(c) = "approved" /\ s = "active"
        \/ Verdict(c) = "denied" /\ s = "disabled"
    BY <1>4 DEF Verdict, CommandAfter
  <1>6. /\ commands' = [commands EXCEPT ![r] = s]
        /\ requests' = [requests EXCEPT ![r] = [status |-> Verdict(c), grant |-> NoOne]]
    BY <1>1, <1>3
  <1> HIDE DEF s
  <1>7. /\ requests' \in [Calls -> [status : {"none", "open", "approved", "denied"},
                                    grant : Calls \cup {NoOne}]]
        /\ commands' \in [Calls -> {"none", "pending", "active", "disabled"}]
        /\ requests'[r].status = Verdict(c) /\ commands'[r] = s
        /\ \A q \in Calls \ {r} : requests'[q] = requests[q] /\ commands'[q] = commands[q]
    BY <1>5, <1>6 DEF Inv, TypeOK
  <1>8. TypeOK'
    BY <1>1, <1>2, <1>7, MovesTyped DEF Inv, TypeOK
  <1>9. Op(r)' = "register" /\ pc'[r] = "done"
    BY <1>1, <1>2, <1>4 DEF Moves, Op
  <1>10. RowOf(r)' /\ CommandOf(r)'
    BY <1>5, <1>7, <1>9 DEF RowOf, CommandOf
  <1>11. ApprovedOf(r)'
    BY <1>9 DEF ApprovedOf, AskedFor, Op
  <1>12. commands'[r] # "none"
    BY <1>5, <1>7
  <1>13. Aside(c)
    BY <1>1, <1>2 DEF Aside, Moves
  <1>14. \A q \in Calls : SlotOf(q)'
    BY <1>4, <1>7, <1>12, <1>13, SameSlots
  <1> QED BY <1>1, <1>2, <1>4, <1>5, <1>7, <1>8, <1>10, <1>11, <1>12, <1>14, RowStep

LEMMA DeleteStep ==
  ASSUME Inv, NEW c \in Calls, DeleteCommand(c)
  PROVE  Inv'
  <1>1. /\ pc[c] = "disable" /\ commands' = [commands EXCEPT ![Target(c)] = "disabled"]
        /\ Committed(c) /\ UNCHANGED <<calm, input, ids, requests, grants, deadBefore, aliveBefore>>
    BY DEF DeleteCommand
  <1>2. PICK a \in {"ok", "error"} : Moves(c, "done", a, ids'[c])
    BY <1>1, CommittedIs
  <1>3. CallOf(c) /\ input[c] \in InputsOf[c]
    BY <1>1 DEF Inv, TypeOK
  <1>4. Op(c) = "delete" /\ commands[Target(c)] # "none"
    BY <1>1, <1>3 DEF CallOf, StepOf, ResolverOf
  <1>5. PICK r \in Calls : r = Target(c)
    BY <1>3, <1>4, InputsAssumption DEF Op, Target
  <1>6. /\ commands' \in [Calls -> {"none", "pending", "active", "disabled"}] /\ commands'[r] = "disabled"
        /\ \A q \in Calls \ {r} : commands'[q] = commands[q]
    BY <1>1, <1>5 DEF Inv, TypeOK
  <1>7. TypeOK'
    BY <1>1, <1>2, <1>6, MovesTyped DEF Inv, TypeOK
  <1>8. Aside(c) /\ Ages
    BY <1>1, <1>2 DEF Aside, Ages, Moves
  <1>9. /\ requests[r].status # "none" /\ Op(r) = "register" /\ pc'[r] = "done" /\ Op(r)' = Op(r)
    <2>1. requests[r].status # "none" /\ Op(r) = "register"
      BY <1>4, <1>5 DEF Inv, RequestOf, RowOf
    <2> QED BY <1>1, <1>8, <2>1, RowIsDone DEF Op
  <1>10. RowOf(r)' /\ ApprovedOf(r)'
    BY <1>1, <1>6, <1>9 DEF RowOf, ApprovedOf, AskedFor, Op
  <1>11. CommandOf(r)'
    <2>1. c \in Deletes(r)'
      BY <1>1, <1>2, <1>4, <1>5 DEF Deletes, Moves, Op, Target
    <2> QED BY <1>6, <2>1 DEF CommandOf
  <1>12. \A q \in Calls : SlotOf(q)'
    BY <1>4, <1>5, <1>6, <1>8, SameSlots
  <1> QED BY <1>1, <1>2, <1>4, <1>5, <1>6, <1>7, <1>9, <1>10, <1>11, <1>12, RowStep

(***************************************************************************)
(* Steps that write a grant.                                               *)
(***************************************************************************)
LEMMA GrantStep ==
  ASSUME Inv, NEW c \in Calls, NEW l, NEW a, NEW S, Moves(c, l, a, S), pc[c] \notin {"idle", "done"},
         grants' \in [GrantIds -> GrantRow], Ages,
         \A d \in Calls \ {c} : grants[d].status = "none" => grants'[d].status = "none",
         UNCHANGED <<requests, commands>>, CallOf(c)'
  PROVE  Inv'
  <1>1. TypeOK'
    BY MovesTyped DEF Inv, TypeOK
  <1>2. Aside(c)
    BY DEF Aside, Moves
  <1> QED BY <1>1, <1>2, CallStep

LEMMA IssueStep ==
  ASSUME Inv, NEW c \in Calls, IssueGrant(c)
  PROVE  Inv'
  <1> DEFINE new == [status |-> "active", uses |-> 0, max |-> input[c].max,
                     actor |-> IF Op(c) = "issue" THEN input[c].to ELSE input[Target(c)].actor,
                     cap |-> IF Op(c) = "issue" THEN input[c].cap ELSE input[Target(c)].cap]
  <1>1. /\ pc[c] = "issue" /\ grants' = [grants EXCEPT ![c] = new] /\ ids' = [ids EXCEPT ![c] = {c}]
        /\ UNCHANGED <<calm, input, requests, commands, deadBefore, aliveBefore>>
        /\ IF Op(c) = "issue" THEN Committed(c) ELSE Goto(c, "settle") /\ UNCHANGED answer
    BY DEF IssueGrant
  <1>2. CallOf(c) /\ c \in GrantIds /\ input[c] \in InputsOf[c]
    BY <1>1 DEF Inv, TypeOK, GrantIds
  <1>3. Op(c) \in {"issue", "resolve"} /\ grants[c].status = "none"
    BY <1>1, <1>2 DEF CallOf, StepOf, GrantOf
  <1>4. CASE Op(c) = "resolve"
    <2>1. PICK r \in Calls : r = Target(c)
      BY <1>1, <1>4, Found
    <2>2. Issues(c) /\ commands[r] = "none" /\ requests[r].status # "none"
      BY <1>1, <1>2, <1>4, <2>1 DEF CallOf, ResolverOf, Issues
    <2>3. input[r].actor \in Actors /\ input[r].cap \in Capabilities /\ input[c].max \in Nat
      BY <1>1, <1>4, <2>1, <2>2, Found
    <2>4. /\ new.status = "active" /\ new.actor = input[r].actor /\ new.cap = input[r].cap
          /\ new \in GrantRow
      BY <1>4, <2>1, <2>3 DEF GrantRow
    <2> HIDE DEF new
    <2>5. /\ grants' \in [GrantIds -> GrantRow] /\ grants'[c] = new
          /\ \A g \in GrantIds \ {c} : grants'[g] = grants[g]
      BY <1>1, <1>2, <2>4 DEF Inv, TypeOK
    <2>6. Ages
      BY <1>3, <2>5 DEF Ages
    <2>7. Moves(c, "settle", answer[c], {c})
      <3>1. {c} \in SUBSET GrantIds /\ ids'[c] = {c}
        BY <1>1, <1>2 DEF Inv, TypeOK
      <3> QED BY <1>1, <1>4, <3>1, GoesOn DEF Steps
    <2>8. Granted(c, r)'
      BY <1>1, <2>4, <2>5 DEF Granted
    <2>9. Op(c)' = Op(c) /\ Target(c)' = Target(c)
      BY <1>1 DEF Op, Target
    <2>10. StepOf(c)' /\ GrantOf(c)'
      BY <1>1, <1>2, <1>4, <2>7, <2>9 DEF Moves, CallOf, StepOf, GrantOf
    <2>11. ResolverOf(c)'
      <3>1. requests'[Target(c)'].status # "none" /\ Granted(c, Target(c))'
        BY <1>1, <2>1, <2>2, <2>8, <2>9 DEF Granted
      <3> QED BY <2>7, <3>1 DEF Moves, ResolverOf
    <2>12. RevokerOf(c)'
      <3>1. deadBefore[c] \subseteq GrantIds /\ aliveBefore[c] \subseteq GrantIds
        BY DEF Inv, TypeOK
      <3> QED BY <1>2, <2>6, <2>7, <3>1 DEF CallOf, Moves, RevokerOf, Ages
    <2> QED BY <1>1, <2>5, <2>6, <2>7, <2>10, <2>11, <2>12, GrantStep DEF CallOf, GrantIds
  <1>5. CASE Op(c) = "issue"
    <2>1. new \in GrantRow
      BY <1>2, <1>5, InputsAssumption DEF GrantRow, Op
    <2> HIDE DEF new
    <2>2. /\ grants' \in [GrantIds -> GrantRow]
          /\ \A g \in GrantIds \ {c} : grants'[g] = grants[g]
      BY <1>1, <1>2, <2>1 DEF Inv, TypeOK
    <2>3. Ages
      BY <1>3, <2>2 DEF Ages
    <2>4. PICK a \in {"ok", "error"} : Moves(c, "done", a, ids'[c])
      <3>1. {c} \in SUBSET GrantIds
        BY <1>2
      <3> QED BY <1>1, <1>5, <3>1, CommittedIs
    <2>5. CallOf(c)'
      BY <1>5, <2>3, <2>4, DoneCall
    <2> QED BY <1>1, <2>2, <2>3, <2>4, <2>5, GrantStep DEF GrantIds
  <1> QED BY <1>3, <1>4, <1>5

LEMMA RevokeStep ==
  ASSUME Inv, NEW c \in Calls, Revoke(c)
  PROVE  Inv'
  <1>1. /\ pc[c] = "retire" /\ Committed(c)
        /\ grants' = [g \in GrantIds |-> IF g \in ids[c] THEN [grants[g] EXCEPT !.status = "revoked"]
                                         ELSE grants[g]]
        /\ UNCHANGED <<calm, input, ids, requests, commands, deadBefore, aliveBefore>>
    BY DEF Revoke
  <1>2. CallOf(c) /\ ids[c] \subseteq GrantIds /\ aliveBefore[c] \subseteq GrantIds /\ deadBefore[c] \subseteq GrantIds
    BY DEF Inv, TypeOK
  <1>3. Op(c) \in {"revoke", "kick"} /\ \A g \in ids[c] : grants[g].status # "none"
    BY <1>1, <1>2 DEF CallOf, StepOf, GrantOf
  <1>4. \A g \in GrantIds : /\ grants'[g] \in GrantRow
                            /\ grants'[g].actor = grants[g].actor /\ grants'[g].cap = grants[g].cap
                            /\ grants'[g].status = IF g \in ids[c] THEN "revoked" ELSE grants[g].status
    <2>1. \A g \in GrantIds : grants[g] \in GrantRow
      BY DEF Inv, TypeOK
    <2> QED BY <1>1, <2>1 DEF GrantRow
  <1>5. grants' \in [GrantIds -> GrantRow]
    BY <1>1, <1>4
  <1>6. Ages /\ \A d \in Calls : grants[d].status = "none" => grants'[d].status = "none"
    BY <1>3, <1>4 DEF Ages, GrantIds
  <1>7. PICK a \in {"ok", "error"} : Moves(c, "done", a, ids'[c])
    BY <1>1, CommittedIs
  <1>8. Op(c)' = Op(c) /\ Target(c)' = Target(c)
    BY <1>1 DEF Op, Target
  <1>9. RevokerOf(c)'
    <2>1. \A g \in deadBefore[c] : grants'[g].status = "revoked"
      BY <1>2, <1>6 DEF CallOf, RevokerOf, Ages
    <2>2. \A g \in aliveBefore[c] : grants'[g].status # "none"
      BY <1>2, <1>6 DEF CallOf, RevokerOf, Ages
    <2>3. Op(c) = "kick" => \A g \in aliveBefore[c] :
             grants'[g].actor = Target(c) => grants'[g].status = "revoked"
      BY <1>1, <1>2, <1>4 DEF CallOf, RevokerOf
    <2> QED BY <1>3, <1>7, <1>8, <2>1, <2>2, <2>3 DEF Moves, RevokerOf
  <1>10. CallOf(c)'
    BY <1>7, <1>9 DEF Moves, CallOf, StepOf, GrantOf, ResolverOf
  <1> QED BY <1>1, <1>5, <1>6, <1>7, <1>10, GrantStep

LEMMA ChargeStep ==
  ASSUME Inv, NEW c \in Calls, ChargeGrant(c)
  PROVE  Inv'
  <1>1. /\ pc[c] = "charge" /\ Committed(c)
        /\ UNCHANGED <<calm, input, ids, requests, commands, deadBefore, aliveBefore>>
    BY DEF ChargeGrant
  <1>2. PICK g \in ids[c] : grants' = [grants EXCEPT ![g].uses = @ + 1,
                                                     ![g].status = IF LastUse(g) THEN "revoked" ELSE @]
    BY DEF ChargeGrant
  <1>3. /\ CallOf(c) /\ g \in GrantIds /\ grants[g] \in GrantRow /\ grants \in [GrantIds -> GrantRow]
        /\ aliveBefore[c] \subseteq GrantIds /\ deadBefore[c] \subseteq GrantIds
    BY DEF Inv, TypeOK
  <1>4. grants[g].status # "none" /\ Op(c) = "act"
    BY <1>1, <1>3 DEF CallOf, GrantOf, StepOf
  <1>5. /\ \A h \in GrantIds \ {g} : grants'[h] = grants[h]
        /\ grants'[g] = [grants[g] EXCEPT !.uses = @ + 1, !.status = IF LastUse(g) THEN "revoked" ELSE @]
        /\ DOMAIN grants' = GrantIds
    BY <1>2, <1>3
  <1>6. /\ grants'[g] \in GrantRow /\ grants'[g].actor = grants[g].actor /\ grants'[g].cap = grants[g].cap
        /\ grants'[g].status \in {"revoked", grants[g].status}
    <2>1. PICK s \in {"revoked", grants[g].status} :
                grants'[g] = [grants[g] EXCEPT !.uses = @ + 1, !.status = s]
      BY <1>5
    <2>2. s \in {"none", "active", "revoked"} /\ grants[g].uses + 1 \in Nat
      BY <1>3, <2>1 DEF GrantRow
    <2> QED BY <1>3, <2>1, <2>2 DEF GrantRow
  <1>7. grants' \in [GrantIds -> GrantRow]
    BY <1>2, <1>3, <1>5, <1>6
  <1>8. Ages /\ \A d \in Calls : grants[d].status = "none" => grants'[d].status = "none"
    BY <1>4, <1>5, <1>6 DEF Ages, GrantIds
  <1>9. PICK a \in {"ok", "error"} : Moves(c, "done", a, ids'[c])
    BY <1>1, CommittedIs
  <1>10. Op(c)' = Op(c)
    BY <1>1 DEF Op
  <1>11. RevokerOf(c)'
    <2>1. \A h \in deadBefore[c] : grants'[h].status = "revoked"
      BY <1>3, <1>8 DEF CallOf, RevokerOf, Ages
    <2>2. \A h \in aliveBefore[c] : grants'[h].status # "none"
      BY <1>3, <1>8 DEF CallOf, RevokerOf, Ages
    <2>3. ids[c] \cap deadBefore[c] = {}
      BY <1>1, <1>3 DEF CallOf, RevokerOf
    <2> QED BY <1>1, <1>4, <1>9, <1>10, <2>1, <2>2, <2>3 DEF Moves, RevokerOf
  <1>12. CallOf(c)'
    BY <1>9, <1>11 DEF Moves, CallOf, StepOf, GrantOf, ResolverOf
  <1> QED BY <1>1, <1>7, <1>8, <1>9, <1>12, GrantStep

(***************************************************************************)
(* The theorems.                                                           *)
(***************************************************************************)
LEMMA InvStep == Inv /\ [Next]_vars => Inv'
  <1> SUFFICES ASSUME Inv, [Next]_vars  PROVE Inv'
    OBVIOUS
  <1>1. ASSUME NEW c \in Calls,
               \/ Start(c) \/ Authorize(c) \/ CreatePermissionRequest(c)
               \/ ReadRequest(c) \/ Reauthorize(c) \/ IssueGrant(c) \/ SettleRequest(c) \/ SettleCommand(c)
               \/ CheckSlot(c) \/ InsertCommand(c) \/ InsertCommandFails(c) \/ MayDelete(c) \/ DeleteCommand(c)
               \/ ReadGrants(c) \/ Revoke(c) \/ CheckGrant(c) \/ PickGrant(c) \/ ChargeGrant(c) \/ Lose(c)
        PROVE  Inv'
    BY <1>1, StartStep, AuthorizeStep, CreateStep, ReadRequestStep, ReauthorizeStep, IssueStep,
       SettleRequestStep, SettleCommandStep, CheckStep, InsertStep, LoseStep, DeleteStep,
       ReadGrantsStep, RevokeStep, PickGrantStep, ChargeStep
  <1>2. CASE UNCHANGED vars
    <2>1. UNCHANGED <<calm, pc, input, answer, ids, requests, grants, commands, deadBefore, aliveBefore>>
      BY <1>2 DEF vars
    <2>2. TypeOK'
      BY <2>1 DEF Inv, TypeOK
    <2>3. \A c \in Calls : CallOf(c)'
      BY <2>1 DEF Inv, CallOf, StepOf, GrantOf, ResolverOf, RevokerOf, Op, Target, Issues, Granted
    <2>4. \A r \in Calls : RequestOf(r)'
      BY <2>1 DEF Inv, RequestOf, RowOf, ApprovedOf, CommandOf, SlotOf, Op, Target, Granted,
                  AskedFor, Deletes, SameSlot
    <2> QED BY <2>2, <2>3, <2>4 DEF Inv
  <1> QED BY <1>1, <1>2 DEF Next, Stopped

THEOREM Invariance == Spec => []Inv
  BY InvInit, InvStep, PTL DEF Spec

\* resolvePermissionRequest, registerCommand and deleteCommand: the status of a
\* request, its grant and its command tell one story in every state, whatever
\* resolvers and deletions overlap or are cut off between two transactions.
THEOREM OutcomesAlwaysAgree == Spec => []OutcomesAgree
  <1>1. ASSUME Inv  PROVE OutcomesAgree
    <2>1. ApprovedHasGrant
      BY <1>1 DEF Inv, RequestOf, ApprovedOf, Granted, ApprovedHasGrant
    <2>2. CommandFollowsRequest
      BY <1>1 DEF Inv, RequestOf, CommandOf, CommandFollowsRequest
    <2> QED BY <1>1, <2>1, <2>2 DEF Inv, OutcomesAgree
  <1> QED BY <1>1, Invariance, PTL

\* registerCommand: two registrations that overlap never both hold a channel's
\* slot, for the unique index finds what the check had missed.
THEOREM SlotsAreSingle == Spec => []OneLivePerChannelSlot
  <1>1. ASSUME Inv  PROVE OneLivePerChannelSlot
    BY <1>1 DEF Inv, RequestOf, SlotOf, Taken, SameSlot, OneLivePerChannelSlot
  <1> QED BY <1>1, Invariance, PTL

\* revokeGrant, revokeAllGrantsForActor and consumeGrantInTx: a revocation that
\* was answered is never undone by a call that had read the grants before it.
THEOREM RevocationsAreFinal == Spec => []RevocationIsFinal
  <1>1. ASSUME Inv  PROVE RevocationIsFinal
    BY <1>1 DEF Inv, CallOf, RevokerOf, RevocationIsFinal, NoUseAfterRevocation, KickIsComplete
  <1> QED BY <1>1, Invariance, PTL

(***************************************************************************)
(* Calls one at a time: the theorem.                                       *)
(***************************************************************************)
LEMMA CalmInit == Init => CalmInv
  <1> SUFFICES ASSUME Init  PROVE CalmInv
    OBVIOUS
  <1>1. Open = {}
    BY DEF Init, Open
  <1>2. \A c \in Calls : Op(c) # "resolve"
    BY DEF Init, Op
  <1> QED BY <1>1, <1>2 DEF CalmInv, CalmOf

\* The others rest: they have not begun or are done.
Rests(c) == \A d \in Calls \ {c} : pc[d] \in {"idle", "done"}

\* A request that is resolved is not written again.
AnswersStand ==
  \A r \in Calls : requests[r].status \in {"approved", "denied"} => requests'[r] = requests[r]

\* Neither does c move them, nor make a grant of theirs appear.
LeavesOthers(c) ==
    \A d \in Calls \ {c} : /\ pc'[d] = pc[d] /\ input'[d] = input[d] /\ answer'[d] = answer[d]
                           /\ grants[d].status = "none" => grants'[d].status = "none"

\* It is told that it resolved a request only when the request was open.
ResolvesOpen(c) ==
    input'[c].op = "resolve" /\ answer'[c] = "ok" =>
        requests[input'[c].target].status \notin {"approved", "denied"}

LEMMA CalmFrame ==
  ASSUME Inv, CalmInv, calm, NEW c \in Calls, Rests(c), AnswersStand, Inv', CalmOf(c)',
         LeavesOthers(c), ResolvesOpen(c)
  PROVE  CalmInv'
  <1>1. \A d \in Open' : d = c
    BY DEF Open, Rests, LeavesOthers
  <1>2. ASSUME NEW d \in Calls \ {c}
        PROVE  /\ Op(d)' = Op(d) /\ Target(d)' = Target(d) /\ CalmOf(d)
               /\ Op(d) = "resolve" => Target(d) \in Calls
    <2>1. pc[d] = "idle" => Op(d) = "none"
      BY DEF Inv, CallOf, StepOf
    <2>2. pc[d] # "idle" => input[d] \in InputsOf[d]
      BY DEF Inv, TypeOK
    <2>3. Op(d) = "resolve" => Target(d) \in Calls
      BY <2>1, <2>2, InputsAssumption DEF Op, Target
    <2> QED BY <2>3 DEF Op, Target, CalmInv, LeavesOthers
  <1>3. ASSUME NEW d \in Calls \ {c}  PROVE CalmOf(d)'
    BY <1>2 DEF CalmOf, AnswersStand, Rests, LeavesOthers
  <1>4. ASSUME NEW d \in Calls, NEW e \in Calls,
               Op(d)' = "resolve", answer'[d] = "ok", Op(e)' = "resolve", answer'[e] = "ok",
               Target(d)' = Target(e)'
        PROVE  d = e
    <2>1. CASE d # c /\ e # c
      BY <1>2, <1>4, <2>1 DEF CalmInv, LeavesOthers
    <2>2. CASE d = c /\ e # c
      BY <1>2, <1>4, <2>2 DEF CalmOf, Op, Target, LeavesOthers, ResolvesOpen
    <2>3. CASE d # c /\ e = c
      BY <1>2, <1>4, <2>3 DEF CalmOf, Op, Target, LeavesOthers, ResolvesOpen
    <2> QED BY <2>1, <2>2, <2>3
  <1> QED BY <1>1, <1>3, <1>4 DEF CalmInv

LEMMA RestOthers ==
  ASSUME CalmInv, calm, NEW c \in Calls, pc[c] \notin {"idle", "done"}
  PROVE  Rests(c)
  BY DEF CalmInv, Open, Rests

Act(c) ==
    \/ Authorize(c) \/ CreatePermissionRequest(c)
    \/ ReadRequest(c) \/ Reauthorize(c) \/ IssueGrant(c) \/ SettleRequest(c) \/ SettleCommand(c)
    \/ CheckSlot(c) \/ InsertCommand(c) \/ InsertCommandFails(c) \/ MayDelete(c) \/ DeleteCommand(c)
    \/ ReadGrants(c) \/ Revoke(c) \/ CheckGrant(c) \/ PickGrant(c) \/ ChargeGrant(c) \/ Lose(c)

LEMMA CallIs ==
  ASSUME Inv, NEW c \in Calls, Act(c)
  PROVE  /\ pc[c] \notin {"idle", "done"}
         /\ UNCHANGED <<calm, input>>
         /\ \E l \in Steps : pc' = [pc EXCEPT ![c] = l]
         /\ answer' = answer \/ \E a \in Answers : answer' = [answer EXCEPT ![c] = a]
  <1> USE DEF Goto, Finish, Committed, Steps, Answers, Open
  <1>1. CallOf(c)
    BY DEF Inv
  <1>2. CASE Authorize(c)
    BY <1>1, <1>2 DEF Authorize, CallOf, StepOf
  <1>3. CASE CreatePermissionRequest(c) \/ SettleRequest(c) \/ SettleCommand(c) \/ InsertCommand(c)
    BY <1>3 DEF CreatePermissionRequest, SettleRequest, SettleCommand, InsertCommand
  <1>4. CASE ReadRequest(c) \/ Reauthorize(c) \/ IssueGrant(c)
    BY <1>4 DEF ReadRequest, Reauthorize, IssueGrant
  <1>5. CASE CheckSlot(c) \/ InsertCommandFails(c) \/ MayDelete(c) \/ DeleteCommand(c)
    BY <1>5 DEF CheckSlot, InsertCommandFails, MayDelete, DeleteCommand
  <1>6. CASE ReadGrants(c) \/ Revoke(c)
    BY <1>6 DEF ReadGrants, Revoke
  <1>7. CASE CheckGrant(c) \/ PickGrant(c) \/ ChargeGrant(c) \/ Lose(c)
    BY <1>7 DEF CheckGrant, PickGrant, ChargeGrant, Lose
  <1> QED BY <1>2, <1>3, <1>4, <1>5, <1>6, <1>7 DEF Act

\* No call makes another's grant appear.
LEMMA OthersGrants ==
  ASSUME Inv, NEW c \in Calls, Act(c)
  PROVE  \A d \in Calls \ {c} : grants[d].status = "none" => grants'[d].status = "none"
  <1>1. CASE IssueGrant(c)
    BY <1>1 DEF IssueGrant, Inv, TypeOK, GrantIds
  <1>2. CASE Revoke(c)
    <2>1. \A g \in ids[c] : grants[g].status # "none"
      BY <1>2 DEF Revoke, Inv, CallOf, GrantOf
    <2> QED BY <1>2, <2>1 DEF Revoke, GrantIds
  <1>3. CASE ChargeGrant(c)
    <2>1. \A g \in ids[c] : g \in GrantIds /\ grants[g].status # "none"
      BY <1>3 DEF ChargeGrant, Inv, TypeOK, CallOf, GrantOf
    <2> QED BY <1>3, <2>1 DEF ChargeGrant, Inv, TypeOK, GrantIds
  <1>4. CASE UNCHANGED grants
    BY <1>4
  <1> QED BY <1>1, <1>2, <1>3, <1>4 DEF Act, Authorize, CreatePermissionRequest, ReadRequest, Reauthorize,
        SettleRequest, SettleCommand, CheckSlot, InsertCommand, InsertCommandFails, MayDelete,
        DeleteCommand, ReadGrants, CheckGrant, PickGrant, Lose

LEMMA AnswersStandStep ==
  ASSUME Inv, CalmInv, calm, NEW c \in Calls, Act(c)
  PROVE  AnswersStand
  <1>1. CASE CreatePermissionRequest(c) \/ InsertCommand(c)
    <2>1. requests[c].status = "none"
      BY <1>1 DEF CreatePermissionRequest, InsertCommand, Inv, RequestOf, RowOf
    <2> QED BY <1>1, <2>1 DEF CreatePermissionRequest, InsertCommand, AnswersStand, Inv, TypeOK
  <1>2. CASE SettleRequest(c) \/ SettleCommand(c)
    <2>1. pc[c] = "settle"
      BY <1>2 DEF SettleRequest, SettleCommand
    <2>2. Op(c) = "resolve"
      BY <2>1, Found
    <2>3. requests[Target(c)].status = "open"
      BY <2>1, <2>2 DEF CalmInv, CalmOf
    <2> QED BY <1>2, <2>3 DEF SettleRequest, SettleCommand, AnswersStand, Inv, TypeOK
  <1>3. CASE UNCHANGED requests
    BY <1>3 DEF AnswersStand
  <1> QED BY <1>1, <1>2, <1>3 DEF Act, Authorize, ReadRequest, Reauthorize, IssueGrant, CheckSlot,
        InsertCommandFails, MayDelete, DeleteCommand, ReadGrants, Revoke, CheckGrant, PickGrant,
        ChargeGrant, Lose

\* A resolver's own step.
LEMMA ResolverStep ==
  ASSUME Inv, CalmInv, calm, NEW c \in Calls, Act(c), Op(c) = "resolve"
  PROVE  /\ CalmOf(c)'
         /\ answer'[c] = "ok" => requests[Target(c)].status \notin {"approved", "denied"}
  <1>1. /\ pc[c] \notin {"idle", "done"} /\ CallOf(c) /\ CalmOf(c)
        /\ Op(c)' = Op(c) /\ Target(c)' = Target(c)
    BY CallIs DEF Inv, CalmInv, Op, Target
  <1>2. answer[c] = "none" /\ pc[c] \in {"auth", "resolve", "reauth", "issue", "settle"}
    BY <1>1 DEF CallOf, StepOf, Inv, TypeOK, Steps
  <1>3. /\ pc[c] \in {"reauth", "issue", "settle"} => requests[Target(c)].status = "open"
        /\ pc[c] # "settle" => grants[c].status = "none"
        /\ grants[c].status # "none" => input[c].approve
    BY <1>1, <1>2 DEF CalmOf, CallOf, GrantOf
  <1>4. pc \in [Calls -> Steps] /\ answer \in [Calls -> Answers]
    BY DEF Inv, TypeOK
  <1>5. CASE Authorize(c)
    BY <1>1, <1>2, <1>3, <1>4, <1>5 DEF Authorize, Goto, Finish, CalmOf
  <1>6. CASE ReadRequest(c)
    BY <1>1, <1>2, <1>3, <1>4, <1>6 DEF ReadRequest, Goto, Finish, CalmOf, FoundOpen
  <1>7. CASE Reauthorize(c)
    BY <1>1, <1>2, <1>3, <1>4, <1>7 DEF Reauthorize, Goto, Finish, CalmOf
  <1>8. CASE IssueGrant(c)
    <2>1. Issues(c) /\ pc[c] = "issue" /\ UNCHANGED <<answer, requests, input>>
      BY <1>1, <1>8 DEF IssueGrant, CallOf, ResolverOf
    <2>2. pc'[c] = "settle"
      BY <1>4, <1>8 DEF IssueGrant, Goto
    <2> QED BY <1>1, <1>2, <1>3, <2>1, <2>2 DEF CalmOf, Issues
  <1>9. CASE SettleRequest(c) \/ SettleCommand(c)
    <2>1. pc[c] = "settle" /\ UNCHANGED <<grants, input>>
      BY <1>9 DEF SettleRequest, SettleCommand
    <2>2. Target(c) \in Calls /\ input[c].approve \in BOOLEAN
      BY <2>1, Found
    <2>3. pc'[c] = "done" /\ answer'[c] = "ok"
      BY <1>4, <1>9 DEF SettleRequest, SettleCommand, Committed, Finish, Goto
    <2>4. requests'[Target(c)].status = Verdict(c)
      <3>1. PICK g : requests' = [requests EXCEPT ![Target(c)] = [status |-> Verdict(c), grant |-> g]]
        BY <1>9 DEF SettleRequest, SettleCommand
      <3>2. Target(c) \in DOMAIN requests
        BY <2>2 DEF Inv, TypeOK
      <3> QED BY <3>1, <3>2
    <2> QED BY <1>1, <1>3, <2>1, <2>2, <2>3, <2>4 DEF CalmOf, Verdict
  <1>10. ~Lose(c)
    BY DEF Lose
  <1> QED BY <1>2, <1>5, <1>6, <1>7, <1>8, <1>9, <1>10 DEF Act, CreatePermissionRequest, CheckSlot,
        InsertCommand, InsertCommandFails, MayDelete, DeleteCommand, ReadGrants, Revoke, CheckGrant,
        PickGrant, ChargeGrant

LEMMA CalmActStep ==
  ASSUME Inv, CalmInv, calm, NEW c \in Calls, Act(c), Inv'
  PROVE  CalmInv'
  <1>1. /\ pc[c] \notin {"idle", "done"} /\ UNCHANGED <<calm, input>>
        /\ \A d \in Calls \ {c} : pc'[d] = pc[d] /\ answer'[d] = answer[d]
    <2>1. pc \in [Calls -> Steps] /\ answer \in [Calls -> Answers]
      BY DEF Inv, TypeOK
    <2>2. \E l \in Steps : pc' = [pc EXCEPT ![c] = l]
      BY CallIs
    <2>3. \A d \in Calls \ {c} : pc'[d] = pc[d]
      BY <2>1, <2>2
    <2>4. answer' = answer \/ \E a \in Answers : answer' = [answer EXCEPT ![c] = a]
      BY CallIs
    <2>5. \A d \in Calls \ {c} : answer'[d] = answer[d]
      BY <2>1, <2>4
    <2> QED BY <2>3, <2>5, CallIs
  <1>2. Rests(c)
    BY <1>1, RestOthers
  <1>3. /\ Op(c)' = Op(c) /\ Target(c)' = Target(c)
    BY <1>1 DEF Op, Target
  <1>4. CalmOf(c)' /\ (Op(c) = "resolve" /\ answer'[c] = "ok" =>
                         requests[Target(c)].status \notin {"approved", "denied"})
    BY <1>3, ResolverStep DEF CalmOf
  <1>5. LeavesOthers(c)
    BY <1>1, OthersGrants DEF LeavesOthers
  <1>6. ResolvesOpen(c)
    BY <1>1, <1>4 DEF ResolvesOpen, Op, Target
  <1> QED BY <1>2, <1>4, <1>5, <1>6, AnswersStandStep, CalmFrame

LEMMA CalmStartStep ==
  ASSUME Inv, CalmInv, calm, NEW c \in Calls, Start(c), Inv'
  PROVE  CalmInv'
  <1>1. /\ pc[c] = "idle" /\ Cardinality(Open) < 1
        /\ UNCHANGED <<calm, answer, requests, grants>>
        /\ \E i \in InputsOf[c] : input' = [input EXCEPT ![c] = i] /\ Goto(c, FirstStep(i.op))
    BY DEF Start
  <1>2. Open = {}
    <2> SUFFICES ASSUME NEW d \in Open  PROVE FALSE
      OBVIOUS
    <2>1. Open = {d}
      BY DEF CalmInv
    <2>2. Cardinality(Open) = 1
      BY <2>1, FS_Singleton
    <2> QED BY <1>1, <2>2
  <1>3. Rests(c)
    BY <1>2 DEF Rests, Open
  <1>4. \A d \in Calls \ {c} : pc'[d] = pc[d] /\ input'[d] = input[d]
    BY <1>1 DEF Goto, Inv, TypeOK
  <1>5. answer[c] = "none" /\ grants[c].status = "none"
    BY <1>1 DEF Inv, CallOf, StepOf, GrantOf, TypeOK
  <1>6. pc'[c] \notin {"reauth", "issue", "settle"}
    <2>1. PICK i \in InputsOf[c] : Goto(c, FirstStep(i.op))
      BY <1>1
    <2>2. FirstStep(i.op) \notin {"reauth", "issue", "settle"}
      BY InputsAssumption DEF FirstStep
    <2> QED BY <2>1, <2>2 DEF Goto, Inv, TypeOK
  <1>7. CalmOf(c)'
    BY <1>1, <1>5, <1>6 DEF CalmOf
  <1>8. AnswersStand
    BY <1>1 DEF AnswersStand
  <1>9. LeavesOthers(c) /\ ResolvesOpen(c)
    BY <1>1, <1>4, <1>5 DEF LeavesOthers, ResolvesOpen
  <1> QED BY <1>3, <1>7, <1>8, <1>9, CalmFrame

LEMMA CalmStep == Inv /\ CalmInv /\ [Next]_vars => CalmInv'
  <1> SUFFICES ASSUME Inv, CalmInv, [Next]_vars  PROVE CalmInv'
    OBVIOUS
  <1>1. Inv'
    BY InvStep
  <1>2. ASSUME NEW c \in Calls, Start(c)  PROVE CalmInv'
    BY <1>1, <1>2, CalmStartStep DEF Start, CalmInv
  <1>3. ASSUME NEW c \in Calls, Act(c)  PROVE CalmInv'
    BY <1>1, <1>3, CalmActStep, CallIs DEF CalmInv
  <1>4. CASE UNCHANGED vars
    BY <1>4 DEF vars, CalmInv, Open, CalmOf, Op, Target
  <1> QED BY <1>2, <1>3, <1>4 DEF Next, Act, Stopped

\* resolvePermissionRequest, when calls come one at a time: a request is
\* resolved once, and one that is denied leaves no grant behind.
THEOREM ResolvedWhenCalm == Spec => []CalmlyResolved
  <1>1. ASSUME Inv, CalmInv  PROVE CalmlyResolved
    <2> SUFFICES ASSUME calm, NEW r \in Calls
                 PROVE  /\ Cardinality({c \in Resolvers(r) : answer[c] = "ok"}) <= 1
                        /\ requests[r].status = "denied" =>
                              \A c \in Resolvers(r) : grants[c].status = "none"
      BY DEF CalmlyResolved, ResolvedOnce
    <2> DEFINE R == {c \in Resolvers(r) : answer[c] = "ok"}
    <2>1. \A c, d \in R : c = d
      BY <1>1 DEF CalmInv, Resolvers
    <2>2. Cardinality(R) <= 1
      <3> HIDE DEF R
      <3>1. CASE R = {}
        BY <3>1, FS_EmptySet
      <3>2. CASE R # {}
        <4>1. PICK c \in R : R = {c}
          BY <2>1, <3>2
        <4>2. Cardinality(R) = 1
          BY <4>1, FS_Singleton
        <4> QED BY <4>2
      <3> QED BY <3>1, <3>2
    <2>3. ASSUME requests[r].status = "denied", NEW c \in Resolvers(r)  PROVE grants[c].status = "none"
      <3>1. c \in Calls /\ Op(c) = "resolve" /\ Target(c) = r /\ CalmOf(c)
        BY <1>1, <2>3 DEF Resolvers, CalmInv
      <3>2. pc[c] # "settle"
        BY <2>3, <3>1 DEF CalmOf
      <3> QED BY <2>3, <3>1, <3>2 DEF CalmOf
    <2> QED BY <2>2, <2>3
  <1>2. Inv /\ [Next]_vars => Inv'
    BY InvStep
  <1>3. Spec => [](Inv /\ CalmInv)
    BY <1>2, InvInit, CalmInit, CalmStep, PTL DEF Spec
  <1> QED BY <1>1, <1>3, PTL

(***************************************************************************)
(* The events.                                                             *)
(***************************************************************************)
\* What a reader knows when it knows the tables.
View(R, C, G) == [request |-> R, command |-> C, grant |-> G]
Statuses == [g \in GrantIds |-> grants[g].status]

\* What an event does to one row.
Opened(R, i) == [R EXCEPT ![i].status = "open"]
Settled(R, i, s, g) == [R EXCEPT ![i] = [status |-> s, grant |-> g]]
Put(F, i, v) == [F EXCEPT ![i] = v]
Shut(C, i, s) == [C EXCEPT ![i] = IF s = "denied" /\ @ # "none" THEN "disabled" ELSE @]

LEMMA HearCreated ==
  ASSUME NEW R, NEW C, NEW G, NEW i
  PROVE  Hear(View(R, C, G), Event("permission_request.created", i)) = View(Opened(R, i), C, G)
  BY DEF Hear, Event, View, Opened

LEMMA HearRegistration ==
  ASSUME NEW R, NEW C, NEW G, NEW i
  PROVE  Hear(View(R, C, G), Event("command.registration_requested", i))
            = View(Opened(R, i), Put(C, i, "pending"), G)
  BY DEF Hear, Event, View, Opened, Put

LEMMA HearResolved ==
  ASSUME NEW R, NEW C, NEW G, NEW i, NEW s, NEW g
  PROVE  Hear(View(R, C, G), Resolved(i, s, g)) = View(Settled(R, i, s, g), Shut(C, i, s), G)
  BY DEF Hear, Resolved, View, Settled, Shut

LEMMA HearCommand ==
  ASSUME NEW R, NEW C, NEW G, NEW i
  PROVE  /\ Hear(View(R, C, G), Event("command.registered", i)) = View(R, Put(C, i, "active"), G)
         /\ Hear(View(R, C, G), Event("command.deleted", i)) = View(R, Put(C, i, "disabled"), G)
  BY DEF Hear, Event, View, Put

LEMMA HearGrant ==
  ASSUME NEW R, NEW C, NEW G, NEW i
  PROVE  /\ Hear(View(R, C, G), Event("grant.created", i)) = View(R, C, Put(G, i, "active"))
         /\ Hear(View(R, C, G), Event("grant.revoked", i)) = View(R, C, Put(G, i, "revoked"))
  BY DEF Hear, Event, View, Put

Retold == told = View(requests, commands, Statuses)

LEMMA EventsStep ==
  ASSUME Inv, Retold, NEW c \in Calls, Act(c)
  PROVE  Retold'
  <1> SUFFICES told' = View(requests', commands', Statuses')
    BY DEF Retold
  <1>r. told = View(requests, commands, Statuses)
    BY DEF Retold
  <1> USE <1>r
  <1>0. /\ requests \in [Calls -> [status : {"none", "open", "approved", "denied"}, grant : Calls \cup {NoOne}]]
        /\ commands \in [Calls -> {"none", "pending", "active", "disabled"}]
        /\ grants \in [GrantIds -> GrantRow]
    BY DEF Inv, TypeOK
  <1>1. CASE UNCHANGED <<requests, commands, grants, told>>
    BY <1>1 DEF Statuses
  <1>2. CASE CreatePermissionRequest(c)
    <2>1. /\ requests' = Opened(requests, c) /\ UNCHANGED <<commands, grants>>
          /\ told' = Hear(told, Event("permission_request.created", c))
      BY <1>2 DEF CreatePermissionRequest, Emit, Opened
    <2>2. Statuses' = Statuses
      BY <2>1 DEF Statuses
    <2> QED BY <2>1, <2>2, HearCreated
  <1>3. CASE InsertCommand(c)
    <2>1. /\ requests' = Opened(requests, c) /\ UNCHANGED grants
          /\ commands' = Put(commands, c, "pending")
          /\ told' = Hear(told, Event("command.registration_requested", c))
      BY <1>3 DEF InsertCommand, Emit, Opened, Put
    <2>2. Statuses' = Statuses
      BY <2>1 DEF Statuses
    <2> QED BY <2>1, <2>2, HearRegistration
  <1>4. CASE DeleteCommand(c)
    <2>1. /\ commands' = Put(commands, Target(c), "disabled") /\ UNCHANGED <<requests, grants>>
          /\ told' = Hear(told, Event("command.deleted", Target(c)))
      BY <1>4 DEF DeleteCommand, Emit, Put
    <2>2. Statuses' = Statuses
      BY <2>1 DEF Statuses
    <2> QED BY <2>1, <2>2, HearCommand
  <1>5. CASE SettleRequest(c)
    <2>1. /\ requests' = Settled(requests, Target(c), Verdict(c), Issued(c))
          /\ UNCHANGED <<commands, grants>> /\ commands[Target(c)] = "none" /\ pc[c] = "settle"
          /\ told' = Hear(told, Resolved(Target(c), Verdict(c), Issued(c)))
      BY <1>5 DEF SettleRequest, Emit, Settled
    <2>2. Statuses' = Statuses
      BY <2>1 DEF Statuses
    <2>3. commands = Shut(commands, Target(c), Verdict(c))
      BY <1>0, <2>1 DEF Shut
    <2> QED BY <2>1, <2>2, <2>3, HearResolved
  <1>6. CASE SettleCommand(c)
    <2> DEFINE i == Target(c)
               v == Verdict(c)
    <2>1. /\ requests' = Settled(requests, i, v, NoOne)
          /\ commands' = Put(commands, i, CommandAfter(input[c].approve, commands[i]))
          /\ UNCHANGED grants /\ commands[i] # "none" /\ pc[c] = "settle"
          /\ IF input[c].approve
             THEN told' = Hear(Hear(told, Resolved(i, v, NoOne)), Event("command.registered", i))
             ELSE told' = Hear(told, Resolved(i, v, NoOne))
      BY <1>6 DEF SettleCommand, Emit, EmitBoth, Settled, Put
    <2>2. Statuses' = Statuses
      BY <2>1 DEF Statuses
    <2>3. input[c].approve \in BOOLEAN /\ i \in Calls
      BY <2>1, Found
    <2>4. Hear(told, Resolved(i, v, NoOne)) = View(requests', Shut(commands, i, v), Statuses)
      BY <2>1, HearResolved
    <2>5. CASE input[c].approve
      <3>1. v = "approved" /\ commands' = Put(commands, i, "active")
        BY <2>1, <2>5 DEF Verdict, CommandAfter
      <3>2. Shut(commands, i, v) = commands
        BY <1>0, <3>1 DEF Shut
      <3> HIDE DEF v, i
      <3>3. told' = Hear(View(requests', commands, Statuses), Event("command.registered", i))
        BY <2>1, <2>4, <2>5, <3>2
      <3>4. told' = View(requests', Put(commands, i, "active"), Statuses)
        BY <3>3, HearCommand
      <3> QED BY <2>2, <3>1, <3>4
    <2>6. CASE ~input[c].approve
      <3>1. v = "denied" /\ commands' = Put(commands, i, "disabled")
        BY <2>1, <2>6 DEF Verdict, CommandAfter
      <3>2. Shut(commands, i, v) = Put(commands, i, "disabled")
        BY <1>0, <2>1, <2>3, <3>1 DEF Shut, Put
      <3> QED BY <2>1, <2>2, <2>4, <2>6, <3>1, <3>2
    <2> QED BY <2>3, <2>5, <2>6
  <1>7. CASE IssueGrant(c)
    <2>1. PICK new : /\ grants' = [grants EXCEPT ![c] = new] /\ new.status = "active"
                     /\ UNCHANGED <<requests, commands>>
                     /\ told' = Hear(told, Event("grant.created", c))
      BY <1>7 DEF IssueGrant, Emit
    <2>2. Statuses' = Put(Statuses, c, "active")
      BY <1>0, <2>1 DEF Statuses, GrantIds, Put
    <2> QED BY <2>1, <2>2, HearGrant
  <1>8. CASE Revoke(c)
    <2>1. /\ grants' = [g \in GrantIds |-> IF g \in ids[c] THEN [grants[g] EXCEPT !.status = "revoked"]
                                           ELSE grants[g]]
          /\ UNCHANGED <<requests, commands>>
          /\ told' = [told EXCEPT !.grant =
                        [g \in GrantIds |-> IF g \in ids[c] THEN Hear(told, Event("grant.revoked", g)).grant[g]
                                            ELSE told.grant[g]]]
      BY <1>8 DEF Revoke, EmitRevoked
    <2>2. told.grant = Statuses
      BY DEF View
    <2>3. ASSUME NEW g \in GrantIds  PROVE Hear(told, Event("grant.revoked", g)).grant[g] = "revoked"
      <3>1. Hear(told, Event("grant.revoked", g)) = View(requests, commands, Put(Statuses, g, "revoked"))
        BY HearGrant
      <3>2. Hear(told, Event("grant.revoked", g)).grant = Put(Statuses, g, "revoked")
        BY <3>1 DEF View
      <3> QED BY <3>2 DEF Statuses, Put
    <2>4. \A g \in GrantIds : grants'[g].status = IF g \in ids[c] THEN "revoked" ELSE grants[g].status
      <3>1. \A g \in GrantIds : grants[g] \in GrantRow
        BY <1>0
      <3> QED BY <2>1, <3>1 DEF GrantRow
    <2> DEFINE H == [g \in GrantIds |-> IF g \in ids[c] THEN Hear(told, Event("grant.revoked", g)).grant[g]
                                        ELSE told.grant[g]]
    <2>5. H = Statuses'
      BY <2>2, <2>3, <2>4 DEF Statuses
    <2>6. told' = [told EXCEPT !.grant = H]
      BY <2>1
    <2> HIDE DEF H
    <2> QED BY <2>1, <2>5, <2>6 DEF View
  <1>9. CASE ChargeGrant(c)
    <2>1. PICK g \in ids[c] :
            /\ grants' = [grants EXCEPT ![g].uses = @ + 1,
                                        ![g].status = IF LastUse(g) THEN "revoked" ELSE @]
            /\ IF LastUse(g) THEN told' = Hear(told, Event("grant.revoked", g)) ELSE told' = told
      BY <1>9 DEF ChargeGrant, Emit, Tells
    <2>2. UNCHANGED <<requests, commands>>
      BY <1>9 DEF ChargeGrant
    <2>3. g \in GrantIds /\ grants[g] \in GrantRow
      BY DEF Inv, TypeOK
    <2>4. Statuses' = IF LastUse(g) THEN Put(Statuses, g, "revoked") ELSE Statuses
      <3>1. \A h \in GrantIds \ {g} : grants'[h] = grants[h]
        BY <1>0, <2>1
      <3>2. grants'[g] = [grants[g] EXCEPT !.uses = @ + 1, !.status = IF LastUse(g) THEN "revoked" ELSE @]
        BY <1>0, <2>1, <2>3
      <3>3. grants'[g].status = IF LastUse(g) THEN "revoked" ELSE grants[g].status
        BY <2>3, <3>2 DEF GrantRow
      <3> QED BY <2>3, <3>1, <3>3 DEF Statuses, Put
    <2> QED BY <2>1, <2>2, <2>4, HearGrant
  <1> QED BY <1>1, <1>2, <1>3, <1>4, <1>5, <1>6, <1>7, <1>8, <1>9 DEF Act, Authorize, ReadRequest,
        Reauthorize, CheckSlot, InsertCommandFails, MayDelete, ReadGrants, CheckGrant, PickGrant, Lose

\* emit, in the transaction of every change: a reader that applies the events
\* in their order knows every request, grant and command exactly.
THEOREM EventsTellAll == Spec => []EventsRetell
  <1>1. Init => EventsRetell
    BY DEF Init, EventsRetell
  <1>2. ASSUME Inv, EventsRetell, [Next]_vars  PROVE EventsRetell'
    <2>1. Retold
      BY <1>2 DEF EventsRetell, Retold, View, Statuses
    <2>2. ASSUME NEW c \in Calls, Act(c)  PROVE Retold'
      BY <1>2, <2>1, <2>2, EventsStep
    <2>3. ASSUME UNCHANGED <<requests, commands, grants, told>>  PROVE Retold'
      BY <2>1, <2>3 DEF Retold, Statuses
    <2>4. ASSUME NEW c \in Calls, Start(c)  PROVE UNCHANGED <<requests, commands, grants, told>>
      BY <2>4 DEF Start
    <2>5. UNCHANGED vars => UNCHANGED <<requests, commands, grants, told>>
      BY DEF vars
    <2>6. (\E c \in Calls : Start(c) \/ Act(c)) \/ UNCHANGED vars
      BY <1>2 DEF Next, Act, Stopped
    <2>7. Retold'
      BY <2>2, <2>3, <2>4, <2>5, <2>6
    <2> QED BY <2>7 DEF Retold, EventsRetell, View, Statuses
  <1> QED BY <1>1, <1>2, Invariance, PTL DEF Spec
=============================================================================
