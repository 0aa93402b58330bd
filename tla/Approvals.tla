------------------------------- MODULE Approvals -------------------------------
(***************************************************************************)
(* Grants, permission requests and registered commands: the operations of  *)
(* MessageLayer that ask for a capability, give it, take it back and spend *)
(* it.  An operation reads outside its transactions, one statement at a    *)
(* time, and most have one transaction; approving a request has two.       *)
(*                                                                         *)
(* The transactions here write rows they name by id, emit, and commit: one *)
(* action each, since a row stays locked from its UPDATE to COMMIT and the *)
(* events about it are emitted in between.  Spending also reads in its     *)
(* transaction, so its statement is two actions (see AppendMessage).       *)
(* A row created by a call is named by the call.                           *)
(***************************************************************************)
EXTENDS Integers, FiniteSets

CONSTANTS Actors, Capabilities,
          Calls,
          InputsOf,     \* [Calls -> SUBSET inputs]: what each call may be asked to do
          ChannelAdmin, \* [channel_id -> the capability channel:admin on that channel]
          Admin,        \* the actor whose principal carries the scope grant:create
          OldGrants,    \* [ids -> rows]: grants that exist at the start
          NoOne,        \* grant_id NULL
          OrgWide,      \* channel_id NULL
          MaxOpen       \* how many calls may overlap

ASSUME OverlapAssumption == MaxOpen \in Nat \ {0}

GrantIds == Calls \cup DOMAIN OldGrants
GrantCreate == "grant:create"
Unlimited == 0        \* max_uses NULL
GrantRow == [status : {"none", "active", "revoked"}, actor : Actors, cap : Capabilities,
             max : Nat, uses : Nat]

ASSUME RowsAssumption ==
    /\ \A g \in DOMAIN OldGrants : OldGrants[g] \in GrantRow
    /\ Admin \in Actors /\ GrantCreate \in Capabilities /\ NoOne \notin Calls

ASSUME InputsAssumption ==
    \A c \in Calls : \A i \in InputsOf[c] :
        \/ i.op = "ask" /\ i.actor \in Actors /\ i.cap \in Capabilities
        \/ i.op = "issue" /\ i.to \in Actors /\ i.cap \in Capabilities /\ i.max \in Nat
        \/ i.op = "resolve" /\ i.target \in Calls /\ i.approve \in BOOLEAN /\ i.max \in Nat
        \/ i.op = "delete" /\ i.target \in Calls
        \/ i.op = "revoke" /\ i.target \in GrantIds
        \/ i.op \in {"register", "kick", "act"}

VARIABLES
    calm,         \* chosen at the start: calls come one at a time and none is cut off
    pc, input, answer,
    ids,          \* the rows a call has read or created: kicked grants, the grant
                  \* to charge, the grant just issued
    requests,     \* [Calls -> [status, grant]], permission_requests
    grants,       \* [GrantIds -> [status, actor, cap, max, uses]]
    commands,     \* [Calls -> status], registered_commands
    told,         \* what a reader of the org's events believes of the three tables
    deadBefore,   \* history: grants retired before the call began, or before it
                  \* chose the one it charges
    aliveBefore   \* history: grants active when the call began

vars == <<calm, pc, input, answer, ids, requests, grants, commands, told, deadBefore, aliveBefore>>

NoRequest == [status |-> "none", grant |-> NoOne]
NoGrant == [status |-> "none", actor |-> Admin, cap |-> GrantCreate, max |-> Unlimited, uses |-> 0]

Goto(c, label) == pc' = [pc EXCEPT ![c] = label]
Finish(c, a) == Goto(c, "done") /\ answer' = [answer EXCEPT ![c] = a]
(* After COMMIT the caller learns of it, unless the process is lost first. *)
Committed(c) == Finish(c, "ok") \/ (~calm /\ Finish(c, "error"))
Op(c) == input[c].op
Target(c) == input[c].target

(***************************************************************************)
(* Events, and how a reader applies them.                                  *)
(***************************************************************************)
Event(type, id) == [type |-> type, id |-> id, status |-> "none", grant |-> NoOne]
Resolved(id, status, grant) ==
    [type |-> "permission_request.resolved", id |-> id, status |-> status, grant |-> grant]

Hear(v, e) ==
    CASE e.type = "permission_request.created" -> [v EXCEPT !.request[e.id].status = "open"]
      [] e.type = "command.registration_requested" ->
            [v EXCEPT !.request[e.id].status = "open", !.command[e.id] = "pending"]
      [] e.type = "permission_request.resolved" ->
            [v EXCEPT !.request[e.id] = [status |-> e.status, grant |-> e.grant],
                      !.command[e.id] = IF e.status = "denied" /\ @ # "none" THEN "disabled" ELSE @]
      [] e.type = "command.registered" -> [v EXCEPT !.command[e.id] = "active"]
      [] e.type = "command.deleted" -> [v EXCEPT !.command[e.id] = "disabled"]
      [] e.type = "grant.created" -> [v EXCEPT !.grant[e.id] = "active"]
      [] e.type = "grant.revoked" -> [v EXCEPT !.grant[e.id] = "revoked"]

Emit(e) == told' = Hear(told, e)
EmitBoth(e, f) == told' = Hear(Hear(told, e), f)
(* Each about a grant of its own, so that their order does not show. *)
EmitRevoked(S) ==
    told' = [told EXCEPT !.grant =
               [g \in GrantIds |-> IF g \in S THEN Hear(told, Event("grant.revoked", g)).grant[g]
                                  ELSE told.grant[g]]]

Init ==
    /\ calm \in BOOLEAN
    /\ pc = [c \in Calls |-> "idle"]
    /\ input = [c \in Calls |-> [op |-> "none"]]
    /\ answer = [c \in Calls |-> "none"]
    /\ ids = [c \in Calls |-> {}]
    /\ requests = [c \in Calls |-> NoRequest]
    /\ grants = [g \in GrantIds |-> IF g \in Calls THEN NoGrant ELSE OldGrants[g]]
    /\ commands = [c \in Calls |-> "none"]
    /\ told = [request |-> requests, command |-> commands,
               grant |-> [g \in GrantIds |-> grants[g].status]]
    /\ deadBefore = [c \in Calls |-> {}]
    /\ aliveBefore = [c \in Calls |-> {}]

(***************************************************************************)
(* Reading grants.                                                         *)
(***************************************************************************)
Live(g) == /\ grants[g].status = "active"
           /\ grants[g].max # Unlimited => grants[g].uses < grants[g].max
Holds(actor, cap) == {g \in GrantIds : /\ Live(g) /\ grants[g].actor = actor
                                       /\ grants[g].cap = cap}
MutantSpends(actor, cap) == {g \in GrantIds : /\ grants[g].status # "none"
                                              /\ grants[g].actor = actor /\ grants[g].cap = cap}
Spends(actor, cap) == Holds(actor, cap)      \* consumeGrantInTx's own WHERE clause
MayResolve(actor) == actor = Admin \/ Holds(actor, GrantCreate) # {}
MutantKicked(actor) == Holds(actor, GrantCreate)
Kicked(actor) == {g \in GrantIds : grants[g].status = "active" /\ grants[g].actor = actor}

Retired == {g \in GrantIds : grants[g].status = "revoked"}

Open == {c \in Calls : pc[c] \notin {"idle", "done"}}
FirstStep(op) == CASE op \in {"resolve", "issue", "revoke", "kick"} -> "auth"
                   [] OTHER -> op

Start(c) ==
    /\ pc[c] = "idle" /\ Cardinality(Open) < (IF calm THEN 1 ELSE MaxOpen)
    /\ \E i \in InputsOf[c] : /\ input' = [input EXCEPT ![c] = i]
                              /\ Goto(c, FirstStep(i.op))
    /\ deadBefore' = [deadBefore EXCEPT ![c] = Retired]
    /\ aliveBefore' = [aliveBefore EXCEPT ![c] = {g \in GrantIds : grants[g].status = "active"}]
    /\ UNCHANGED <<calm, answer, ids, requests, grants, commands, told>>

(* The check that opens resolve, createGrant, revoke and revokeAll. *)
Authorize(c) ==
    /\ pc[c] = "auth"
    /\ IF MayResolve(input[c].actor) THEN Goto(c, Op(c)) /\ UNCHANGED answer
                                     ELSE Finish(c, "denied")
    /\ UNCHANGED <<calm, input, ids, requests, grants, commands, told, deadBefore, aliveBefore>>

(***************************************************************************)
(* Permission requests.                                                    *)
(***************************************************************************)
CreatePermissionRequest(c) ==
    /\ pc[c] = "ask"
    /\ requests' = [requests EXCEPT ![c].status = "open"]
    /\ Emit(Event("permission_request.created", c))
    /\ Committed(c)
    /\ UNCHANGED <<calm, input, ids, grants, commands, deadBefore, aliveBefore>>

FoundOpen(c) == requests[Target(c)].status = "open"
MutantIssues(c) == commands[Target(c)] = "none"
Issues(c) == input[c].approve /\ commands[Target(c)] = "none"   \* not command:register

(* The request is read before the transactions and found open. *)
ReadRequest(c) ==
    /\ pc[c] = "resolve"
    /\ IF FoundOpen(c)
       THEN /\ Goto(c, IF Issues(c) THEN "reauth" ELSE "settle")
            /\ UNCHANGED answer
       ELSE Finish(c, "invalid")
    /\ UNCHANGED <<calm, input, ids, requests, grants, commands, told, deadBefore, aliveBefore>>

(* An approval calls createGrant, which checks the resolver again. *)
Reauthorize(c) ==
    /\ pc[c] = "reauth"
    /\ IF MayResolve(input[c].actor) THEN Goto(c, "issue") /\ UNCHANGED answer
                                     ELSE Finish(c, "denied")
    /\ UNCHANGED <<calm, input, ids, requests, grants, commands, told, deadBefore, aliveBefore>>

(* createGrant's transaction, for its own caller or for an approval. *)
IssueGrant(c) ==
    /\ pc[c] = "issue"
    /\ grants' = [grants EXCEPT ![c] =
                    [status |-> "active", uses |-> 0, max |-> input[c].max,
                     actor |-> IF Op(c) = "issue" THEN input[c].to ELSE input[Target(c)].actor,
                     cap |-> IF Op(c) = "issue" THEN input[c].cap ELSE input[Target(c)].cap]]
    /\ ids' = [ids EXCEPT ![c] = {c}]
    /\ Emit(Event("grant.created", c))
    /\ IF Op(c) = "issue" THEN Committed(c) ELSE Goto(c, "settle") /\ UNCHANGED answer
    /\ UNCHANGED <<calm, input, requests, commands, deadBefore, aliveBefore>>

Verdict(c) == IF input[c].approve THEN "approved" ELSE "denied"
MutantIssued(c) == NoOne
Issued(c) == IF ids[c] = {} THEN NoOne ELSE c   \* grantId of the resolver

(* The transaction that closes the request, whatever its status is by now. *)
SettleRequest(c) ==
    /\ pc[c] = "settle" /\ commands[Target(c)] = "none"
    /\ requests' = [requests EXCEPT ![Target(c)] = [status |-> Verdict(c), grant |-> Issued(c)]]
    /\ Emit(Resolved(Target(c), Verdict(c), Issued(c)))
    /\ Committed(c)
    /\ UNCHANGED <<calm, input, ids, grants, commands, deadBefore, aliveBefore>>

MutantCommandAfter(approve, status) == IF approve THEN "active" ELSE status
CommandAfter(approve, status) == IF approve THEN "active" ELSE "disabled"

(* A command:register request settles its command in the same transaction. *)
SettleCommand(c) ==
    /\ pc[c] = "settle" /\ commands[Target(c)] # "none"
    /\ commands' = [commands EXCEPT ![Target(c)] = CommandAfter(input[c].approve, @)]
    /\ requests' = [requests EXCEPT ![Target(c)] = [status |-> Verdict(c), grant |-> NoOne]]
    /\ LET resolved == Resolved(Target(c), Verdict(c), NoOne)
       IN IF input[c].approve THEN EmitBoth(resolved, Event("command.registered", Target(c)))
                              ELSE Emit(resolved)
    /\ Committed(c)
    /\ UNCHANGED <<calm, input, ids, grants, deadBefore, aliveBefore>>

(***************************************************************************)
(* Registered commands; the name is the same in all of them.               *)
(***************************************************************************)
SameSlot(c) == {d \in Calls : /\ commands[d] # "none"
                              /\ input[d].actor = input[c].actor
                              /\ input[d].scope = input[c].scope}
Taken(c) == {d \in SameSlot(c) : commands[d] \in {"pending", "active"}}
MutantUniqueConflict(c) == {}
(* UNIQUE (org, channel, owner, name): a NULL channel conflicts with nothing. *)
UniqueConflict(c) == {d \in SameSlot(c) : input[c].scope # OrgWide}

CheckSlot(c) ==
    /\ pc[c] = "register"
    /\ IF Taken(c) = {} THEN Goto(c, "insert") /\ UNCHANGED answer ELSE Finish(c, "invalid")
    /\ UNCHANGED <<calm, input, ids, requests, grants, commands, told, deadBefore, aliveBefore>>

InsertCommand(c) ==
    /\ pc[c] = "insert" /\ UniqueConflict(c) = {}
    /\ commands' = [commands EXCEPT ![c] = "pending"]
    /\ requests' = [requests EXCEPT ![c].status = "open"]
    /\ Emit(Event("command.registration_requested", c))
    /\ Committed(c)
    /\ UNCHANGED <<calm, input, ids, grants, deadBefore, aliveBefore>>

InsertCommandFails(c) ==
    /\ pc[c] = "insert" /\ UniqueConflict(c) # {}
    /\ Finish(c, "conflict")
    /\ UNCHANGED <<calm, input, ids, requests, grants, commands, told, deadBefore, aliveBefore>>

(* An admin of the org, or of the command's channel if it has one. *)
Administers(actor, scope) ==
    \/ MayResolve(actor)
    \/ scope # OrgWide /\ Holds(actor, ChannelAdmin[scope]) # {}

(* The row and its owner do not change; the admin's right is read. *)
MayDelete(c) ==
    /\ pc[c] = "delete"
    /\ IF commands[Target(c)] # "none" /\ (\/ input[Target(c)].actor = input[c].actor
                                           \/ Administers(input[c].actor, input[Target(c)].scope))
       THEN Goto(c, "disable") /\ UNCHANGED answer
       ELSE Finish(c, "denied")
    /\ UNCHANGED <<calm, input, ids, requests, grants, commands, told, deadBefore, aliveBefore>>

DeleteCommand(c) ==
    /\ pc[c] = "disable"
    /\ commands' = [commands EXCEPT ![Target(c)] = "disabled"]
    /\ Emit(Event("command.deleted", Target(c)))
    /\ Committed(c)
    /\ UNCHANGED <<calm, input, ids, requests, grants, deadBefore, aliveBefore>>

(***************************************************************************)
(* Taking grants back: revokeGrant names one, revokeAllGrantsForActor      *)
(* reads the actor's active ones before its transaction.                   *)
(***************************************************************************)
ReadGrants(c) ==
    /\ pc[c] \in {"revoke", "kick"}
    /\ LET found == IF Op(c) = "kick" THEN Kicked(Target(c))
                    ELSE {g \in {Target(c)} : grants[g].status # "none"}
       IN /\ ids' = [ids EXCEPT ![c] = found]
          /\ IF found # {} THEN Goto(c, "retire") /\ UNCHANGED answer
             ELSE Finish(c, IF Op(c) = "kick" THEN "ok" ELSE "invalid")
    /\ UNCHANGED <<calm, input, requests, grants, commands, told, deadBefore, aliveBefore>>

Revoke(c) ==
    /\ pc[c] = "retire"
    /\ grants' = [g \in GrantIds |-> IF g \in ids[c] THEN [grants[g] EXCEPT !.status = "revoked"]
                                     ELSE grants[g]]
    /\ EmitRevoked(ids[c])
    /\ Committed(c)
    /\ UNCHANGED <<calm, input, ids, requests, commands, deadBefore, aliveBefore>>

(***************************************************************************)
(* Spending a grant: createChannel, createThread, registerArtifact and the *)
(* other capability-backed mutations check first, then charge one use in   *)
(* the transaction that makes their change.                                *)
(***************************************************************************)
CheckGrant(c) ==
    /\ pc[c] = "act"
    /\ IF Holds(input[c].actor, input[c].cap) # {} THEN Goto(c, "pick") /\ UNCHANGED answer
                                                   ELSE Finish(c, "denied")
    /\ UNCHANGED <<calm, input, ids, requests, grants, commands, told, deadBefore, aliveBefore>>

(* ORDER BY created_at is left open: any live grant may be the oldest. *)
PickGrant(c) ==
    /\ pc[c] = "pick"
    /\ \/ \E g \in Spends(input[c].actor, input[c].cap) :
             /\ ids' = [ids EXCEPT ![c] = {g}]
             /\ deadBefore' = [deadBefore EXCEPT ![c] = Retired]
             /\ Goto(c, "charge") /\ UNCHANGED answer
       \/ /\ Spends(input[c].actor, input[c].cap) = {}
          /\ Finish(c, "denied") /\ UNCHANGED <<ids, deadBefore>>
    /\ UNCHANGED <<calm, input, requests, grants, commands, told, aliveBefore>>

LastUse(g) == grants[g].max # Unlimited /\ grants[g].uses + 1 >= grants[g].max

MutantTells(g) == FALSE
Tells(g) == LastUse(g)

(* The UPDATE rechecks id only: the grant may be revoked by now. *)
ChargeGrant(c) ==
    /\ pc[c] = "charge"
    /\ \E g \in ids[c] :
          /\ grants' = [grants EXCEPT ![g].uses = @ + 1,
                                      ![g].status = IF LastUse(g) THEN "revoked" ELSE @]
          /\ IF Tells(g) THEN Emit(Event("grant.revoked", g)) ELSE UNCHANGED told
    /\ Committed(c)
    /\ UNCHANGED <<calm, input, ids, requests, commands, deadBefore, aliveBefore>>

(* The connection or the process is lost; committed rows stay. *)
Lose(c) ==
    /\ ~calm /\ c \in Open
    /\ Finish(c, "error")
    /\ UNCHANGED <<calm, input, ids, requests, grants, commands, told, deadBefore, aliveBefore>>

Stopped == (\A c \in Calls : pc[c] = "done") /\ UNCHANGED vars

Next ==
    \/ \E c \in Calls :
          \/ Start(c) \/ Authorize(c) \/ CreatePermissionRequest(c)
          \/ ReadRequest(c) \/ Reauthorize(c) \/ IssueGrant(c) \/ SettleRequest(c) \/ SettleCommand(c)
          \/ CheckSlot(c) \/ InsertCommand(c) \/ InsertCommandFails(c) \/ MayDelete(c) \/ DeleteCommand(c)
          \/ ReadGrants(c) \/ Revoke(c) \/ CheckGrant(c) \/ PickGrant(c) \/ ChargeGrant(c) \/ Lose(c)
    \/ Stopped

Spec == Init /\ [][Next]_vars

(***************************************************************************)
(* Properties.                                                             *)
(***************************************************************************)
Steps == {"idle", "auth", "ask", "resolve", "reauth", "issue", "settle", "register", "insert",
          "delete", "disable", "revoke", "kick", "retire", "act", "pick", "charge", "done"}
Answers == {"none", "ok", "denied", "invalid", "conflict", "error"}

(* Every variable has the type of the rows and locals it stands for. *)
TypeOK ==
    /\ calm \in BOOLEAN /\ pc \in [Calls -> Steps] /\ answer \in [Calls -> Answers]
    /\ DOMAIN input = Calls
    /\ \A c \in Calls : pc[c] # "idle" => input[c] \in InputsOf[c]
    /\ ids \in [Calls -> SUBSET GrantIds]
    /\ requests \in [Calls -> [status : {"none", "open", "approved", "denied"},
                               grant : Calls \cup {NoOne}]]
    /\ commands \in [Calls -> {"none", "pending", "active", "disabled"}]
    /\ grants \in [GrantIds -> GrantRow]
    /\ deadBefore \in [Calls -> SUBSET GrantIds] /\ aliveBefore \in [Calls -> SUBSET GrantIds]

(* A reader that applies the org's events knows every request, grant and     *)
(* command exactly, whatever calls overlap or are cut off: no transaction    *)
(* changes a row without the event that says so.                             *)
EventsRetell == told = [request |-> requests, command |-> commands,
                        grant |-> [g \in GrantIds |-> grants[g].status]]

AskedFor(r) == input[r].op = "ask"

(* An approved request names a grant that exists and gives its requester the *)
(* capability it asked for: the grant is committed before the status.        *)
ApprovedHasGrant ==
    \A r \in Calls : requests[r].status = "approved" /\ AskedFor(r) =>
        /\ requests[r].grant # NoOne
        /\ LET g == grants[requests[r].grant] IN
             g.status # "none" /\ g.actor = input[r].actor /\ g.cap = input[r].cap

Deletes(r) == {d \in Calls : pc[d] = "done" /\ Op(d) = "delete" /\ Target(d) = r}

(* A command is what its request says it is, except that its owner or an     *)
(* admin may have disabled it since.                                         *)
CommandFollowsRequest ==
    \A r \in Calls : commands[r] # "none" =>
        LET agreed == CASE requests[r].status = "open" -> "pending"
                        [] requests[r].status = "approved" -> "active"
                        [] requests[r].status = "denied" -> "disabled"
        IN commands[r] = agreed \/ (commands[r] = "disabled" /\ Deletes(r) # {})

(* Two registrations that overlap never both hold a channel's slot.          *)
OneLivePerChannelSlot ==
    \A c, d \in Calls : /\ commands[c] \in {"pending", "active"} /\ d \in Taken(c)
                        /\ input[c].scope # OrgWide
                        => c = d

(* A retired grant pays for no call that begins after it was retired, and    *)
(* for none that was on its way, its check passed, unless its UPDATE had     *)
(* read the row as active by then: only such a call may still be charged.    *)
NoUseAfterRevocation ==
    \A c \in Calls : pc[c] = "done" /\ Op(c) = "act" /\ answer[c] = "ok"
                     => ids[c] \cap deadBefore[c] = {}

(* When revokeAllGrantsForActor answers, no grant the actor held when it was *)
(* called is active, whatever was issued, spent or revoked meanwhile.        *)
KickIsComplete ==
    \A c \in Calls : pc[c] = "done" /\ Op(c) = "kick" /\ answer[c] = "ok" =>
        \A g \in aliveBefore[c] : grants[g].actor = Target(c) => grants[g].status = "revoked"

Resolvers(r) == {c \in Calls : Op(c) = "resolve" /\ Target(c) = r}

(* docs/spec/authorization.md, "Resolution semantics": a request may only be *)
(* resolved once, and subsequent resolutions return an error.                *)
ResolvedOnce == \A r \in Calls : Cardinality({c \in Resolvers(r) : answer[c] = "ok"}) <= 1

(* The same section, of calls that come one at a time: a request is resolved *)
(* once, and denying it leaves no grant behind.                              *)
CalmlyResolved ==
    calm => /\ ResolvedOnce
            /\ \A r \in Calls : requests[r].status = "denied" =>
                  \A c \in Resolvers(r) : grants[c].status = "none"

(* A request's outcome is the same in the three tables that hold it:         *)
(* resolvePermissionRequest and deleteCommand change them together.          *)
OutcomesAgree == TypeOK /\ ApprovedHasGrant /\ CommandFollowsRequest

(* A revocation takes effect wholly, and from the next statement on: what    *)
(* hasGrant found before it does not carry a call past consumeGrantInTx, and *)
(* revokeAllGrantsForActor leaves none of the grants it was called for.      *)
RevocationIsFinal == NoUseAfterRevocation /\ KickIsComplete
=============================================================================
