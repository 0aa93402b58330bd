---------------------------- MODULE WorkspaceProofs ----------------------------
(* Theorems about Workspace, for every value of its constants. *)
EXTENDS Workspace, TeamClient, FiniteSetTheorems, TLAPS

(***************************************************************************)
(* Types, and the shape of a call's row at each request it waits for.      *)
(***************************************************************************)
Id == Nat \cup {None}
Names == Users \cup Programs \cup {"bootstrap"}
Pcs == {"ensure", "probe", "createOrg", "createActor", "createBoot", "revoke", "grant write",
        "grant manage", "createChannel", "principal", "list", "check", "act", "createAgent",
        "newChannel", "ask", "approve", "deny", "end"}
Mapped == [actor : Nat, org : Nat]
Ticket == [request : Nat, org : Nat]

Row == [pc : Pcs, resolving : BOOLEAN, user : Users, name : Names, actor : Id, org : Id,
        role : Roles \cup {None}, grantor : Id, need : {"grants", "channel", None},
        then : {"end", "probe", "channel"}, about : Id]
Asking == [actor : Nat, org : Nat, status : {"open", "approved", "denied"}]
Settings == [firstUser : Users \cup {None}, org : Id, channel : Id, bootActor : Id, bootOrg : Id]
Invite == [role : Grantable, by : Users \cup {None}]
Join == [name : Programs, org : Nat, status : {"open", "approved", "denied"}, actor : Id]
Agent == [pc : {"off", "live?", "ask", "poll", "in"}, state : Mapped \cup {None},
          ticket : Ticket \cup {None}, org : Id, boots : Nat]

ServerOK ==
  /\ minted \in Nat
  /\ orgs \subseteq Nat
  /\ \A a \in DOMAIN actors : a \in Nat /\ a <= minted /\ actors[a].org \in Nat
  /\ grants \subseteq Nat \X {"write", "manage", "create"}
  /\ requests \in Seq(Asking)

AppOK ==
  /\ settings \in Settings
  /\ actorOf \in [Users -> Mapped \cup {None}]
  /\ roleOf \in [Users -> Roles \cup {None}]
  /\ \A t \in DOMAIN invites : invites[t] \in Invite
  /\ joins \in Seq(Join)
  /\ \A n \in DOMAIN joins : joins[n].status = "approved" => joins[n].actor \in Nat

\* What an agent has at the point it has reached.
AgentOK(ag) ==
  /\ ag.ticket # None => ag.ticket.request \in DOMAIN joins
  /\ ag.pc \in {"live?", "in"} => ag.state # None
  /\ ag.pc \in {"live?", "ask"} => settings.org # None
  /\ ag.pc = "poll" => ag.ticket # None

AgentsOK == agent \in [Programs -> Agent] /\ \A a \in Programs : AgentOK(agent[a])

LeftOK == left \in [faults : Nat, wipes : BOOLEAN, wiped : BOOLEAN]

TypeOK == ServerOK /\ AppOK /\ AgentsOK /\ LeftOK

\* A call as it arrives.
Sound(c) ==
  /\ c.op \in {"bootstrap", "invite", "accept", "role", "resolve", "propose", "decide"}
  /\ c.user \in Users
  /\ c.op = "invite" => c.arg \in Grantable
  /\ c.op = "role" => c.on \in Users /\ c.arg \in Grantable
  /\ c.op \in {"resolve", "decide"} => c.arg \in {"approved", "denied"}
  /\ c.op = "decide" => c.on \in Nat

Arriving == \A c \in waiting : Sound(c) /\ c \notin DOMAIN proc

\* The row of the call c.
Shape(c, q) ==
  /\ q \in Row /\ Sound(c) /\ c.op # "invite"
  /\ q.pc = "ensure" => q = Call(c.user)
  /\ q.resolving => q.user = c.user
  /\ q.pc \in {"createOrg", "createActor", "probe"} \/ q.then # "end" => q.resolving
  /\ q.pc \in {"createOrg", "createActor"} => q.name = c.user /\ q.actor = None
  /\ q.pc \in {"principal", "list", "check", "act", "createAgent", "newChannel", "ask",
                "approve", "deny"}
       => ~q.resolving /\ q.user = c.user /\ q.need = None
  /\ q.pc \in {"check", "act"} => c.op \in {"role", "resolve"}
  /\ q.pc = "createAgent" => c.op = "resolve"
  /\ q.pc \in {"newChannel", "ask"} => c.op = "propose"
  /\ q.pc \in {"approve", "deny"} => c.op = "decide"
  /\ q.pc \notin {"ensure", "createOrg", "createActor"} => q.actor \in Nat
  /\ q.pc \notin {"ensure", "createOrg"} => q.org \in Nat
  /\ q.pc = "createBoot" => q.name = "bootstrap" /\ q.need # None
  /\ q.pc \in {"revoke", "grant write", "grant manage"} => q.need = "grants"
  /\ q.need = "grants" => q.role \in Roles
  /\ q.pc = "grant manage" => q.role \in Managers

\* Who may make an actor for a user: the user was first, or was invited.
May(u) == u = settings.firstUser \/ HasConsumedInvite(u)

\* What the application's database says for the row of the call c.
Backed(c, q) ==
  /\ c.op = "accept" => c.on \in DOMAIN invites
  /\ c.op = "resolve" => c.on \in DOMAIN joins
  /\ q.pc = "createAgent" => q.name = joins[c.on].name
  /\ q.pc \notin {"ensure", "createOrg"} => settings.org # None
  /\ q.role = "owner" => q.user = settings.firstUser
  /\ q.pc \in {"createOrg", "createActor"} => May(c.user)

Rows == \A c \in DOMAIN proc : Shape(c, proc[c]) /\ Backed(c, proc[c])

\* Only the first user is owner, and nobody has an actor who may not.
Owners ==
  \A u \in Users :
    /\ roleOf[u] = "owner" => u = settings.firstUser
    /\ actorOf[u] # None => May(u) /\ settings.org # None

Inv == TypeOK /\ Arriving /\ Rows /\ Owners

(***************************************************************************)
(* Maps, and the rows a call goes on with.                                 *)
(***************************************************************************)
LEMMA WithIs ==
  ASSUME NEW f, NEW x, NEW v
  PROVE  /\ DOMAIN With(f, x, v) = DOMAIN f \cup {x}
         /\ \A y \in DOMAIN f : With(f, x, v)[y] = f[y]
         /\ x \notin DOMAIN f => With(f, x, v)[x] = v
  BY DEF With

LEMMA RestrictIs ==
  ASSUME NEW f, NEW S
  PROVE  DOMAIN Restrict(f, S) = S /\ \A y \in S : Restrict(f, S)[y] = f[y]
  BY DEF Restrict

\* The row x goes on with the call of the row q.
Follows(x, q) ==
  x.resolving = q.resolving /\ x.user = q.user /\ x.actor = q.actor /\ x.org = q.org

\* The system actor it grants with is that of its organization.
Granting(x) ==
  x.grantor = settings.bootActor /\ settings.bootActor # None /\ settings.bootOrg = x.org

\* The row x begins to give the user of the row q the role r.
RoleRow(x, q, r, t) ==
  /\ x \in Row /\ x.pc \in {"revoke", "createBoot"}
  /\ x.role = r /\ x.need = "grants" /\ Follows(x, q) /\ x.then = t
  /\ x.pc = "revoke" => Granting(x)
  /\ x.pc = "createBoot" => x.name = "bootstrap"

LEMMA Reconciled ==
  ASSUME settings \in Settings, NEW q \in Row, NEW r \in Roles,
         NEW t \in {"end", "probe", "channel"}, NEW x, x = ReconcileUserRole(q, r, t)
  PROVE  RoleRow(x, q, r, t)
  <1> DEFINE y == [q EXCEPT !.role = r, !.need = "grants", !.then = t]
             g == [y EXCEPT !.grantor = settings.bootActor]
             b == [g EXCEPT !.pc = "revoke"]
             k == [y EXCEPT !.pc = "createBoot", !.name = "bootstrap"]
  <1>1. y \in Row /\ y.role = r /\ y.need = "grants" /\ Follows(y, q) /\ y.then = t
    BY DEF Row, Roles, Follows
  <1>2. g \in Row /\ g.grantor = settings.bootActor /\ g.role = y.role /\ g.need = y.need
        /\ Follows(g, y) /\ g.then = y.then
    BY <1>1 DEF Row, Settings, Follows
  <1>3. b \in Row /\ b.pc = "revoke" /\ b.grantor = settings.bootActor /\ b.role = y.role
        /\ b.need = y.need /\ Follows(b, y) /\ b.then = y.then
    BY <1>2 DEF Row, Pcs, Follows
  <1>4. k \in Row /\ k.pc = "createBoot" /\ k.name = "bootstrap" /\ k.role = y.role
        /\ k.need = y.need /\ Follows(k, y) /\ k.then = y.then
    BY <1>1 DEF Row, Pcs, Names, Follows
  <1> HIDE DEF y, g, b, k
  <1>5. x = IF settings.bootActor # None /\ settings.bootOrg = y.org THEN b ELSE k
    BY <1>1, <1>2 DEF ReconcileUserRole, EnsureBootstrapPrincipal, Bootstrapped, y, g, b, k
  <1> QED BY <1>1, <1>3, <1>4, <1>5 DEF RoleRow, Follows, Granting

LEMMA Channelled ==
  ASSUME settings \in Settings, NEW q \in Row, NEW x, x = DefaultChannelOf(q)
  PROVE  /\ x \in Row /\ x.pc \in {"end", "createChannel", "createBoot"}
         /\ x.role = q.role /\ x.need = "channel" /\ Follows(x, q)
         /\ x.then = q.then
         /\ x.pc = "createChannel" => Granting(x)
         /\ x.pc = "createBoot" => x.name = "bootstrap"
  <1> DEFINE y == [q EXCEPT !.need = "channel"]
             g == [y EXCEPT !.grantor = settings.bootActor]
             d == IF settings.channel # None THEN "end" ELSE "createChannel"
             b == [g EXCEPT !.pc = d]
             k == [y EXCEPT !.pc = "createBoot", !.name = "bootstrap"]
  <1>1. y \in Row /\ y.role = q.role /\ y.need = "channel" /\ Follows(y, q)
        /\ y.then = q.then
    BY DEF Row, Follows
  <1>2. g \in Row /\ g.grantor = settings.bootActor /\ g.role = y.role /\ g.need = y.need
        /\ Follows(g, y) /\ g.then = y.then
    BY <1>1 DEF Row, Settings, Follows
  <1>3. b \in Row /\ b.pc \in {"end", "createChannel"} /\ b.grantor = settings.bootActor
        /\ b.role = y.role /\ b.need = y.need /\ Follows(b, y) /\ b.then = y.then
    BY <1>2 DEF Row, Pcs, Follows
  <1>4. k \in Row /\ k.pc = "createBoot" /\ k.name = "bootstrap" /\ k.role = y.role
        /\ k.need = y.need /\ Follows(k, y) /\ k.then = y.then
    BY <1>1 DEF Row, Pcs, Names, Follows
  <1> HIDE DEF y, g, b, k
  <1>5. x = IF settings.bootActor # None /\ settings.bootOrg = y.org THEN b ELSE k
    BY <1>1, <1>2 DEF DefaultChannelOf, EnsureBootstrapPrincipal, Bootstrapped,
                      EnsureDefaultChannel, y, g, b, k
  <1> QED BY <1>1, <1>3, <1>4, <1>5 DEF Follows, Granting

\* What follows the making of the system actor.
LEMMA BootstrappedIs ==
  ASSUME NEW q \in Row, NEW x, x = Bootstrapped(q)
  PROVE  /\ x \in Row /\ x.role = q.role /\ x.need = q.need /\ x.grantor = q.grantor
         /\ Follows(x, q) /\ x.then = q.then
         /\ q.need = "grants" => x.pc = "revoke"
         /\ q.need # "grants" => x.pc \in {"end", "createChannel"}
  BY DEF Bootstrapped, EnsureDefaultChannel, Row, Pcs, Follows

\* The row of a call that starts.
LEMMA CallIs ==
  ASSUME NEW u \in Users
  PROVE  Call(u) \in Row
  BY DEF Call, Row, Pcs, Names, Id

(***************************************************************************)
(* A step keeps the types.                                                 *)
(***************************************************************************)
LEMMA FreshIs ==
  ASSUME ServerOK
  PROVE  Fresh \in Nat /\ Fresh > minted /\ Fresh \notin DOMAIN actors /\ Fresh # None
  BY NamesAssumption DEF ServerOK, Fresh

LEMMA ServedOK ==
  ASSUME ServerOK, NEW c, NEW q, Shape(c, q), Accepted(q), Served(q)
  PROVE  ServerOK'
  <1>1. q \in Row /\ (q.pc \in {"grant write", "grant manage", "ask"} => q.actor \in Nat)
        /\ (q.pc \in {"createActor", "createAgent", "createBoot", "ask"} => q.org \in Nat)
    BY DEF Shape
  <1>2. Fresh \in Nat /\ Fresh > minted /\ Fresh \notin DOMAIN actors
    BY FreshIs
  <1>3. minted' \in Nat /\ minted' >= minted /\ orgs' \subseteq Nat
    <2>1. minted' \in {minted, Fresh} /\ orgs' \subseteq orgs \cup {Fresh}
      BY DEF Served
    <2>2. minted \in Nat /\ orgs \subseteq Nat
      BY DEF ServerOK
    <2> QED BY <1>2, <2>1, <2>2
  <1>4. \A a \in DOMAIN actors' : a \in Nat /\ a <= minted' /\ actors'[a].org \in Nat
    <2> DEFINE v == [org |-> q.org, kind |-> Kind(q.pc), name |-> q.name]
    <2>1. v.org = q.org
      OBVIOUS
    <2> HIDE DEF v
    <2>2. CASE q.pc \in {"createActor", "createAgent", "createBoot"}
      <3>1. actors' = With(actors, Fresh, v) /\ minted' = Fresh
        BY <2>2 DEF Served, v
      <3>2. /\ DOMAIN actors' = DOMAIN actors \cup {Fresh} /\ actors'[Fresh] = v
            /\ \A a \in DOMAIN actors : actors'[a] = actors[a]
        BY <1>2, <3>1 DEF With
      <3>3. \A a \in DOMAIN actors : a \in Nat /\ a <= minted /\ actors[a].org \in Nat
        BY DEF ServerOK
      <3>4. minted \in Nat
        BY DEF ServerOK
      <3>5. minted' \in Nat /\ minted <= minted' /\ Fresh = minted'
        BY <1>2, <3>1, <3>4
      <3>6. \A a \in DOMAIN actors : a <= minted'
        BY <3>3, <3>4, <3>5
      <3>7. v.org \in Nat
        BY <1>1, <2>1, <2>2
      <3> QED BY <3>2, <3>3, <3>5, <3>6, <3>7
    <2>3. CASE q.pc \notin {"createActor", "createAgent", "createBoot"}
      <3>1. actors' = actors
        BY <2>3 DEF Served
      <3> QED BY <1>3, <3>1 DEF ServerOK
    <2> QED BY <2>2, <2>3
  <1>5. requests' \in Seq(Asking)
    <2>1. requests \in Seq(Asking)
      BY DEF ServerOK
    <2>2. CASE q.pc = "ask"
      <3> DEFINE x == [actor |-> q.actor, org |-> q.org, status |-> "open"]
      <3>1. x \in Asking
        BY <1>1, <2>2 DEF Asking
      <3>2. requests' = Append(requests, x)
        BY <2>2 DEF Served
      <3> HIDE DEF x
      <3> QED BY <2>1, <3>1, <3>2
    <2>3. CASE q.pc \in {"approve", "deny"}
      <3>1. PICK v \in {"approved", "denied"} : requests' = [requests EXCEPT ![q.about].status = v]
        BY <2>3 DEF Served
      <3>2. q.about \in DOMAIN requests
        BY <2>3 DEF Accepted, Undecided
      <3> DEFINE x == [requests[q.about] EXCEPT !.status = v]
      <3>3. requests[q.about] \in Asking
        BY <2>1, <3>2
      <3>4. x \in Asking
        BY <3>3 DEF Asking
      <3>5. requests' = [requests EXCEPT ![q.about] = x]
        BY <3>1
      <3> HIDE DEF x
      <3> QED BY <2>1, <3>2, <3>4, <3>5
    <2>4. CASE q.pc \notin {"ask", "approve", "deny"}
      <3>1. requests' = requests
        BY <2>4 DEF Served
      <3> QED BY <2>1, <3>1
    <2> QED BY <2>2, <2>3, <2>4
  <1>6. grants' \subseteq Nat \X {"write", "manage", "create"}
    <2>1. grants \subseteq Nat \X {"write", "manage", "create"}
      BY DEF ServerOK
    <2>2. CASE q.pc \in {"grant write", "grant manage"}
      <3>1. grants' \subseteq grants \cup {<<q.actor, "write">>, <<q.actor, "manage">>}
        BY <2>2 DEF Served
      <3>2. q.actor \in Nat
        BY <1>1, <2>2
      <3> QED BY <2>1, <3>1, <3>2
    <2>3. CASE q.pc = "approve"
      <3>1. q.about \in DOMAIN requests
        BY <2>3 DEF Accepted, Undecided
      <3>2. requests[q.about] \in Asking
        BY <3>1 DEF ServerOK
      <3>3. requests[q.about].actor \in Nat
        BY <3>2 DEF Asking
      <3>4. grants' = grants \cup {<<requests[q.about].actor, "create">>}
        BY <2>3 DEF Served
      <3> QED BY <2>1, <3>3, <3>4
    <2>4. CASE q.pc \notin {"grant write", "grant manage", "approve"}
      <3>1. grants' \subseteq grants
        BY <2>4 DEF Served
      <3> QED BY <2>1, <3>1
    <2> QED BY <2>2, <2>3, <2>4
  <1> QED BY <1>3, <1>4, <1>5, <1>6 DEF ServerOK

\* What an action does to the server, it does for a row that waits for it.
LEMMA ServerMoves ==
  ASSUME Inv, Step
  PROVE  \/ UNCHANGED server
         \/ \E c \in DOMAIN proc : Accepted(proc[c]) /\ Served(proc[c])
         \/ ServerRestart
  <1>2. \A q : q.pc = "createOrg" => Accepted(q)
    BY DEF Accepted
  <1>4. CASE \E c \in DOMAIN proc : Resolution(c)
    BY <1>2, <1>4 DEF Resolution, EnsureUserPrincipal, Probe, CreateOrg, CreateActor, Settle
  <1>5. CASE \E c \in DOMAIN proc : Request(c)
    BY <1>5 DEF Request, Refused, CreateBootstrapActor, RevokeAllActorGrants,
                ApplyRoleGrants, CreateDefaultChannel, AnswerLost
  <1>6. CASE \E c \in DOMAIN proc : CallStep(c)
    BY <1>6 DEF CallStep, Handle, CheckCapability, ListChannels, SetActorRole,
                ResolveJoin, CreateAgentActor, Answer, NewChannel,
                CreatePermissionRequest, ResolvePermissionRequest
  <1>7. CASE \E c \in waiting : SendInvite(c) \/ AcceptInvite(c) \/ RequirePrincipal(c)
    BY <1>7 DEF SendInvite, AcceptInvite, RequirePrincipal
  <1>8. CASE \E a : BootstrapAgent(a) \/ AgentStops(a)
    BY <1>8 DEF BootstrapAgent, ResolveWorkspace, ActorIsLive, AskToJoin,
                WaitForJoinApproval, AgentStops
  <1>9. CASE AppRestart
    BY <1>9 DEF AppRestart
  <1> QED BY <1>4, <1>5, <1>6, <1>7, <1>8, <1>9
          DEF Step, PoetBootstrap, WeatherBootstrap, AssistantBootstrap, CursorBootstrap

LEMMA ServerStep ==
  ASSUME Inv, Step
  PROVE  ServerOK'
  <1>1. CASE UNCHANGED server
    BY <1>1 DEF server, Inv, TypeOK, ServerOK
  <1>2. CASE \E c \in DOMAIN proc : Accepted(proc[c]) /\ Served(proc[c])
    <2>1. PICK c \in DOMAIN proc : Accepted(proc[c]) /\ Served(proc[c])
      BY <1>2
    <2>2. Shape(c, proc[c]) /\ ServerOK
      BY DEF Inv, TypeOK, Rows
    <2> QED BY <2>1, <2>2, ServedOK
  <1>3. CASE ServerRestart
    BY <1>3 DEF ServerRestart, Inv, TypeOK, ServerOK
  <1> QED BY <1>1, <1>2, <1>3, ServerMoves

(***************************************************************************)
(* What the application's database keeps.                                  *)
(***************************************************************************)
\* The first user stays the first, a used invite stays used, a join request stays
\* that of its program.
Grows ==
  /\ settings.firstUser # None => settings'.firstUser = settings.firstUser
  /\ settings.org # None => settings'.org # None
  /\ \A t \in DOMAIN invites : t \in DOMAIN invites'
                               /\ (invites[t].by # None => invites'[t].by = invites[t].by)
  /\ \A n \in DOMAIN joins : n \in DOMAIN joins' /\ joins'[n].name = joins[n].name

AppKept == AppOK' /\ Grows

LEMMA AppSame ==
  ASSUME AppOK, UNCHANGED appDb
  PROVE  AppKept
  BY DEF AppOK, AppKept, Grows, appDb

LEMMA SettingsWritten ==
  ASSUME AppOK, UNCHANGED <<actorOf, roleOf, invites, joins>>, settings' \in Settings,
         settings.firstUser # None => settings'.firstUser = settings.firstUser,
         settings.org # None => settings'.org # None
  PROVE  AppKept
  BY DEF AppOK, AppKept, Grows

LEMMA RoleWritten ==
  ASSUME AppOK, UNCHANGED <<settings, actorOf, invites, joins>>,
         roleOf' \in [Users -> Roles \cup {None}]
  PROVE  AppKept
  BY DEF AppOK, AppKept, Grows

LEMMA JoinAsked ==
  ASSUME AppOK, UNCHANGED <<settings, actorOf, roleOf, invites>>, settings.org # None,
         NEW a \in Programs, Asked(a)
  PROVE  AppKept
  <1> DEFINE row == [name |-> a, org |-> settings.org, status |-> "open", actor |-> None]
  <1>1. row \in Join /\ row.status # "approved"
    BY DEF AppOK, Settings, Join, Id
  <1> HIDE DEF row
  <1>2. joins' = Append(joins, row) /\ joins \in Seq(Join)
    BY DEF Asked, AppOK, row
  <1>3. /\ joins' \in Seq(Join) /\ Len(joins') = Len(joins) + 1 /\ Len(joins) \in Nat
        /\ DOMAIN joins = 1 .. Len(joins) /\ DOMAIN joins' = 1 .. Len(joins')
        /\ \A n \in 1 .. Len(joins) : joins'[n] = joins[n]
        /\ joins'[Len(joins) + 1] = row
    BY <1>1, <1>2
  <1>4. \A n \in DOMAIN joins' : n \in DOMAIN joins \/ n = Len(joins) + 1
    BY <1>3
  <1>5. \A n \in DOMAIN joins' : joins'[n].status = "approved" => joins'[n].actor \in Nat
    BY <1>1, <1>3, <1>4 DEF AppOK
  <1>6. \A n \in DOMAIN joins : n \in DOMAIN joins' /\ joins'[n].name = joins[n].name
    BY <1>3
  <1> QED BY <1>3, <1>5, <1>6 DEF AppOK, AppKept, Grows

LEMMA JoinResolved ==
  ASSUME AppOK, UNCHANGED <<settings, actorOf, roleOf, invites>>,
         NEW n \in DOMAIN joins, NEW v \in {"approved", "denied"}, NEW a \in Id,
         v = "approved" => a \in Nat, ResolveAgentJoinRequest(n, v, a)
  PROVE  AppKept /\ DOMAIN joins' = DOMAIN joins
  <1> DEFINE row == [joins[n] EXCEPT !.status = v, !.actor = a]
  <1>1. joins \in Seq(Join) /\ joins[n] \in Join
    BY DEF AppOK
  <1>2. row \in Join /\ row.name = joins[n].name /\ (row.status = "approved" => row.actor \in Nat)
    BY <1>1 DEF Join
  <1>3. joins' = joins \/ joins' = [joins EXCEPT ![n] = row]
    BY DEF ResolveAgentJoinRequest
  <1> HIDE DEF row
  <1>4. joins' \in Seq(Join) /\ DOMAIN joins' = DOMAIN joins
    BY <1>1, <1>2, <1>3
  <1>5. \A k \in DOMAIN joins : joins'[k] = joins[k] \/ (joins'[k] = row /\ k = n)
    <2>1. CASE joins' = joins
      BY <2>1
    <2>2. CASE joins' = [joins EXCEPT ![n] = row]
      BY <2>2
    <2> QED BY <1>3, <2>1, <2>2
  <1> QED BY <1>2, <1>4, <1>5 DEF AppOK, AppKept, Grows

LEMMA Joined ==
  ASSUME AppOK, UNCHANGED <<actorOf, roleOf, invites, joins>>, NEW p, p.user \in Users,
         JoinWorkspace(p)
  PROVE  AppKept
  <1>1. CASE UNCHANGED settings
    BY <1>1, SettingsWritten DEF AppOK
  <1>2. CASE settings' = [settings EXCEPT !.firstUser = IF @ = None THEN p.user ELSE @]
    <2>1. /\ settings' \in Settings /\ settings'.org = settings.org
          /\ settings.firstUser # None => settings'.firstUser = settings.firstUser
      BY <1>2 DEF AppOK, Settings
    <2> QED BY <2>1, SettingsWritten
  <1> QED BY <1>1, <1>2 DEF JoinWorkspace

\* A step keeps what the database says.
LEMMA AppStep ==
  ASSUME Inv, Step
  PROVE  AppKept
  <1>1. AppOK /\ Fresh \in Nat /\ Fresh # None
    BY FreshIs DEF Inv, TypeOK
  <1>2. ASSUME NEW c \in DOMAIN proc, Resolution(c)  PROVE AppKept
    <2>1. Shape(c, proc[c]) /\ c.user \in Users
      BY DEF Inv, Rows, Shape, Sound
    <2>2. CASE EnsureUserPrincipal(c)
      <3>1. CASE UNCHANGED settings
        BY <1>1, <2>2, <3>1, AppSame DEF EnsureUserPrincipal, appDb
      <3>2. CASE JoinWorkspace(c)
        BY <1>1, <2>1, <2>2, <3>2, Joined DEF EnsureUserPrincipal
      <3> QED BY <2>2, <3>1, <3>2 DEF EnsureUserPrincipal
    <2>3. CASE Probe(c)
      <3>1. CASE UNCHANGED settings
        BY <1>1, <2>3, <3>1, AppSame DEF Probe, appDb
      <3>2. CASE JoinWorkspace(c)
        BY <1>1, <2>1, <2>3, <3>2, Joined DEF Probe
      <3> QED BY <2>3, <3>1, <3>2 DEF Probe
    <2>4. CASE CreateOrg(c)
      <3>1. /\ settings' = [settings EXCEPT !.org = Fresh]
            /\ UNCHANGED <<actorOf, roleOf, invites, joins>>
        BY <2>4 DEF CreateOrg
      <3>2. /\ settings' \in Settings /\ settings'.org = Fresh
            /\ settings'.firstUser = settings.firstUser
        BY <1>1, <3>1 DEF AppOK, Settings, Id
      <3> QED BY <1>1, <3>1, <3>2, SettingsWritten
    <2>5. CASE CreateActor(c)
      <3>1. CASE UNCHANGED actorOf
        BY <1>1, <2>5, <3>1, AppSame DEF CreateActor, appDb
      <3>2. CASE actorOf' = [actorOf EXCEPT ![c.user] = [actor |-> Fresh, org |-> proc[c].org]]
        <4>1. proc[c].org \in Nat /\ UNCHANGED <<settings, roleOf, invites, joins>>
          BY <2>1, <2>5 DEF CreateActor, Shape
        <4>2. [actor |-> Fresh, org |-> proc[c].org] \in Mapped
          BY <1>1, <4>1 DEF Mapped
        <4>3. actorOf' \in [Users -> Mapped \cup {None}]
          BY <1>1, <2>1, <3>2, <4>2 DEF AppOK
        <4> QED BY <1>1, <4>1, <4>3 DEF AppOK, AppKept, Grows
      <3> QED BY <2>5, <3>1, <3>2 DEF CreateActor
    <2>6. CASE Settle(c)
      BY <1>1, <2>6, AppSame DEF Settle
    <2> QED BY <1>2, <2>2, <2>3, <2>4, <2>5, <2>6 DEF Resolution
  <1>3. ASSUME NEW p \in DOMAIN proc, Request(p)  PROVE AppKept
    <2>1. Shape(p, proc[p]) /\ proc[p] \in Row
      BY DEF Inv, Rows, Shape
    <2>2. CASE Refused(p) \/ RevokeAllActorGrants(p) \/ AnswerLost(p)
      BY <1>1, <2>2, AppSame DEF Refused, RevokeAllActorGrants, AnswerLost
    <2>3. CASE CreateBootstrapActor(p)
      <3>1. /\ settings' = [settings EXCEPT !.bootActor = Fresh, !.bootOrg = proc[p].org]
            /\ UNCHANGED <<actorOf, roleOf, invites, joins>>
        BY <2>3 DEF CreateBootstrapActor
      <3>2. settings' \in Settings /\ settings'.org = settings.org
            /\ settings'.firstUser = settings.firstUser
        BY <1>1, <2>1, <3>1 DEF AppOK, Settings, Id, Row
      <3> QED BY <1>1, <3>1, <3>2, SettingsWritten
    <2>4. CASE ApplyRoleGrants(p)
      <3>1. /\ UNCHANGED <<settings, actorOf, invites, joins>>
            /\ roleOf' = roleOf \/ roleOf' = [roleOf EXCEPT ![proc[p].user] = proc[p].role]
        BY <2>4 DEF ApplyRoleGrants
      <3>2. proc[p].user \in Users /\ proc[p].role \in Roles \cup {None}
        BY <2>1 DEF Row
      <3>3. roleOf' \in [Users -> Roles \cup {None}]
        BY <1>1, <3>1, <3>2 DEF AppOK
      <3> QED BY <1>1, <3>1, <3>3, RoleWritten
    <2>5. CASE CreateDefaultChannel(p)
      <3>1. /\ settings' = [settings EXCEPT !.channel = Fresh]
            /\ UNCHANGED <<actorOf, roleOf, invites, joins>>
        BY <2>5 DEF CreateDefaultChannel
      <3>2. settings' \in Settings /\ settings'.org = settings.org
            /\ settings'.firstUser = settings.firstUser
        BY <1>1, <3>1 DEF AppOK, Settings, Id
      <3> QED BY <1>1, <3>1, <3>2, SettingsWritten
    <2> QED BY <1>3, <2>2, <2>3, <2>4, <2>5 DEF Request
  <1>4. ASSUME NEW c \in DOMAIN proc, CallStep(c)  PROVE AppKept
    <2>1. Shape(c, proc[c]) /\ Backed(c, proc[c])
      BY DEF Inv, Rows
    <2>2. CASE \/ Handle(c) \/ CheckCapability(c) \/ ListChannels(c) \/ SetActorRole(c)
               \/ Answer(c) \/ NewChannel(c) \/ CreatePermissionRequest(c)
               \/ ResolvePermissionRequest(c)
      BY <1>1, <2>2, AppSame
         DEF Handle, CheckCapability, ListChannels, SetActorRole, Answer, NewChannel,
             CreatePermissionRequest, ResolvePermissionRequest
    <2>3. CASE ResolveJoin(c)
      <3>1. CASE UNCHANGED joins
        BY <1>1, <2>3, <3>1, AppSame DEF ResolveJoin, appDb
      <3>2. CASE ResolveAgentJoinRequest(c.on, "denied", None)
        <4>1. c.on \in DOMAIN joins /\ UNCHANGED <<settings, actorOf, roleOf, invites>>
          BY <2>1, <2>3 DEF ResolveJoin, Backed
        <4> QED BY <1>1, <3>2, <4>1, JoinResolved DEF Id
      <3> QED BY <2>3, <3>1, <3>2 DEF ResolveJoin
    <2>4. CASE CreateAgentActor(c)
      <3>1. c.on \in DOMAIN joins /\ UNCHANGED <<settings, actorOf, roleOf, invites>>
            /\ ResolveAgentJoinRequest(c.on, "approved", Fresh)
        BY <2>1, <2>4 DEF CreateAgentActor, Backed, Shape
      <3> QED BY <1>1, <3>1, JoinResolved DEF Id
    <2> QED BY <1>4, <2>2, <2>3, <2>4 DEF CallStep
  <1>5. ASSUME NEW c \in waiting, SendInvite(c) \/ AcceptInvite(c) \/ RequirePrincipal(c)
        PROVE  AppKept
    <2>1. Sound(c)
      BY DEF Inv, Arriving
    <2>2. CASE SendInvite(c)
      <3> DEFINE row == [role |-> c.arg, by |-> None]
      <3>1. row \in Invite
        BY <2>1, <2>2 DEF SendInvite, Sound, Invite
      <3> HIDE DEF row
      <3>2. invites' = With(invites, c.on, row) /\ UNCHANGED <<settings, actorOf, roleOf, joins>>
        BY <2>2 DEF SendInvite, row
      <3>3. /\ \A t \in DOMAIN invites : t \in DOMAIN invites' /\ invites'[t] = invites[t]
            /\ \A t \in DOMAIN invites' : invites'[t] \in Invite
        BY <1>1, <3>1, <3>2 DEF With, AppOK
      <3> QED BY <1>1, <3>2, <3>3 DEF AppOK, AppKept, Grows
    <2>3. CASE AcceptInvite(c) /\ invites[c.on].by = None
      <3>1. /\ c.on \in DOMAIN invites /\ invites' = [invites EXCEPT ![c.on].by = c.user]
            /\ roleOf' = [roleOf EXCEPT ![c.user] = invites[c.on].role]
            /\ UNCHANGED <<settings, actorOf, joins>>
        BY <2>3 DEF AcceptInvite, ConsumeInvite
      <3>2. invites[c.on] \in Invite /\ c.user \in Users
        BY <1>1, <2>1, <3>1 DEF AppOK, Sound
      <3>3. [invites[c.on] EXCEPT !.by = c.user] \in Invite
        BY <3>2 DEF Invite
      <3>4. /\ DOMAIN invites' = DOMAIN invites
            /\ \A t \in DOMAIN invites : t # c.on => invites'[t] = invites[t]
            /\ invites'[c.on] = [invites[c.on] EXCEPT !.by = c.user]
        BY <3>1
      <3>5. \A t \in DOMAIN invites' : invites'[t] \in Invite
        BY <1>1, <3>3, <3>4 DEF AppOK
      <3>6. \A t \in DOMAIN invites : t \in DOMAIN invites'
              /\ (invites[t].by # None => invites'[t].by = invites[t].by)
        BY <2>3, <3>4
      <3>7. roleOf' \in [Users -> Roles \cup {None}]
        BY <1>1, <3>1, <3>2 DEF AppOK, Invite, Roles
      <3> QED BY <1>1, <3>1, <3>5, <3>6, <3>7 DEF AppOK, AppKept, Grows
    <2>4. CASE (AcceptInvite(c) /\ invites[c.on].by # None) \/ RequirePrincipal(c)
      BY <1>1, <2>4, AppSame DEF AcceptInvite, RequirePrincipal, appDb
    <2> QED BY <1>5, <2>2, <2>3, <2>4
  <1>6. ASSUME NEW a \in Programs, BootstrapAgent(a) \/ AgentStops(a)  PROVE AppKept
    <2>1. agent[a].pc = "ask" => settings.org # None
      BY DEF Inv, TypeOK, AgentsOK, AgentOK
    <2>2. CASE Asked(a) /\ agent[a].pc = "ask" /\ UNCHANGED <<settings, actorOf, roleOf, invites>>
      BY <1>1, <2>1, <2>2, JoinAsked
    <2>3. CASE UNCHANGED appDb
      BY <1>1, <2>3, AppSame
    <2> QED BY <1>6, <2>2, <2>3 DEF BootstrapAgent, ResolveWorkspace, ActorIsLive, AskToJoin,
                                   WaitForJoinApproval, AgentStops, appDb
  <1>7. CASE AppRestart \/ ServerRestart
    BY <1>1, <1>7, AppSame DEF AppRestart, ServerRestart
  <1> QED BY <1>2, <1>3, <1>4, <1>5, <1>6, <1>7
          DEF Step, PoetBootstrap, WeatherBootstrap, AssistantBootstrap, CursorBootstrap

(***************************************************************************)
(* The agents and the bounds.                                              *)
(***************************************************************************)
\* The program a goes on with the row x, and the others as they were.
LEMMA AgentMoves ==
  ASSUME AgentsOK, Grows, NEW a \in Programs, NEW x \in Agent, AgentOK(x)',
         agent' = [agent EXCEPT ![a] = x]
  PROVE  AgentsOK'
  <1>1. \A b \in Programs \ {a} : AgentOK(agent[b])'
    <2> SUFFICES ASSUME NEW b \in Programs \ {a}  PROVE AgentOK(agent[b])'
      OBVIOUS
    <2> PICK y \in Agent : y = agent[b]
      BY DEF AgentsOK
    <2>1. AgentOK(y)
      BY DEF AgentsOK
    <2>2. AgentOK(y)'
      BY <2>1 DEF AgentOK, Grows
    <2>3. agent'[b] = y
      BY DEF AgentsOK
    <2> QED BY <2>2, <2>3 DEF AgentOK
  <1>2. AgentOK(agent[a])'
    <2>1. agent'[a] = x
      BY DEF AgentsOK
    <2> QED BY <2>1 DEF AgentOK
  <1>3. agent' \in [Programs -> Agent]
    BY DEF AgentsOK
  <1> QED BY <1>1, <1>2, <1>3 DEF AgentsOK

LEMMA AgentsRest ==
  ASSUME AgentsOK, Grows, UNCHANGED agent
  PROVE  AgentsOK'
  <1> SUFFICES ASSUME NEW b \in Programs  PROVE AgentOK(agent[b])'
    BY DEF AgentsOK
  <1> PICK y \in Agent : y = agent[b]
    BY DEF AgentsOK
  <1>1. AgentOK(y)
    BY DEF AgentsOK
  <1>2. AgentOK(y)'
    BY <1>1 DEF AgentOK, Grows
  <1> QED BY <1>2 DEF AgentOK

\* An agent that joins an organization, the workspace's.
LEMMA JoiningIs ==
  ASSUME NEW x \in Agent, NEW o \in Id, NEW y, y = Joining(x, o)
  PROVE  /\ y \in Agent /\ y.pc \in {"poll", "ask"} /\ y.ticket = x.ticket /\ y.state = x.state
         /\ y.pc = "poll" => y.ticket # None
         /\ y.pc = "ask" => x.ticket = None \/ x.ticket.org # o
  BY DEF Joining, Agent

LEMMA AgentSteps ==
  ASSUME Inv, AppKept, NEW a \in Programs, BootstrapAgent(a) \/ AgentStops(a)
  PROVE  AgentsOK'
  <1>1. AgentsOK /\ AgentOK(agent[a]) /\ AppOK /\ AppOK' /\ Grows
    BY DEF Inv, TypeOK, AgentsOK, AppKept
  <1> PICK ag \in Agent : ag = agent[a]
    BY DEF Inv, TypeOK, AgentsOK
  <1>2. AgentOK(ag) /\ settings.org \in Id /\ ag.org \in Id
    BY <1>1 DEF AppOK, Settings, Agent
  <1>3. CASE ResolveWorkspace(a)
    <2>p. PICK up, live, y :
           /\ up = [ag EXCEPT !.boots = @ - 1]
           /\ live = [up EXCEPT !.pc = "live?", !.org = settings.org]
           /\ y = Joining(up, settings.org)
      OBVIOUS
    <2>0. settings' = settings /\ joins' = joins
      BY <1>3 DEF ResolveWorkspace, appDb
    <2>1. up \in Agent /\ up.ticket = ag.ticket /\ up.state = ag.state /\ up.pc = "off"
      BY <1>3, <2>p DEF Agent, ResolveWorkspace
    <2>2. live \in Agent /\ live.ticket = up.ticket /\ live.state = up.state /\ live.pc = "live?"
      BY <1>2, <2>1, <2>p DEF Agent
    <2>3. \/ agent' = [agent EXCEPT ![a] = up]
          \/ /\ ag.state # None /\ settings.org # None
             /\ agent' = [agent EXCEPT ![a] = live]
          \/ /\ settings.org # None
             /\ agent' = [agent EXCEPT ![a] = y]
      <3>0. ag.state # None => ag.state.org # None
        BY NamesAssumption DEF Agent, Mapped
      <3>1. CASE settings.org = None
        BY <1>3, <2>p, <3>0, <3>1 DEF ResolveWorkspace
      <3>2. CASE settings.org # None /\ ag.state # None /\ ag.state.org = settings.org
        BY <1>3, <2>p, <3>2 DEF ResolveWorkspace
      <3>3. CASE settings.org # None /\ ~(ag.state # None /\ ag.state.org = settings.org)
        BY <1>3, <2>p, <3>3 DEF ResolveWorkspace
      <3> QED BY <3>1, <3>2, <3>3
    <2>4. AgentOK(up)'
      BY <1>2, <2>0, <2>1 DEF AgentOK
    <2>5. ag.state # None /\ settings.org # None => AgentOK(live)'
      BY <1>2, <2>0, <2>1, <2>2 DEF AgentOK
    <2>6. y \in Agent /\ (settings.org # None => AgentOK(y)')
      <3>1. y = Joining(up, settings.org)
        BY <2>p
      <3>2. /\ y \in Agent /\ y.pc \in {"poll", "ask"} /\ y.ticket = up.ticket
            /\ y.pc = "poll" => y.ticket # None
        BY <1>2, <2>1, <3>1, JoiningIs
      <3> QED BY <1>2, <2>0, <2>1, <3>2 DEF AgentOK
    <2> QED BY <1>1, <2>1, <2>2, <2>3, <2>4, <2>5, <2>6, AgentMoves
  <1>4. CASE ActorIsLive(a)
    <2> PICK in, y : in = [ag EXCEPT !.pc = "in"] /\ y = Joining(ag, ag.org)
      OBVIOUS
    <2>0. settings' = settings /\ joins' = joins /\ ag.pc = "live?"
      BY <1>4 DEF ActorIsLive, appDb
    <2>1. in \in Agent /\ in.ticket = ag.ticket /\ in.state = ag.state /\ in.pc = "in"
      BY DEF Agent
    <2>2. \/ agent' = [agent EXCEPT ![a] = in]
          \/ agent' = [agent EXCEPT ![a] = y]
      BY <1>4 DEF ActorIsLive
    <2>3. AgentOK(in)'
      BY <1>2, <2>0, <2>1 DEF AgentOK
    <2>4. y \in Agent /\ AgentOK(y)'
      BY <1>2, <2>0, JoiningIs DEF AgentOK
    <2> QED BY <1>1, <2>1, <2>2, <2>3, <2>4, AgentMoves
  <1>5. CASE AskToJoin(a)
    <2> PICK t, x : /\ t = [request |-> Len(joins) + 1, org |-> settings.org]
                    /\ x = [ag EXCEPT !.pc = "poll", !.ticket = t]
      OBVIOUS
    <2>0. settings' = settings /\ ag.pc = "ask" /\ Asked(a)
      BY <1>5 DEF AskToJoin
    <2>1. t \in Ticket /\ t \notin {None} /\ t.request = Len(joins) + 1
      BY <1>1, <1>2, <2>0, NamesAssumption DEF AppOK, AgentOK, Id, Ticket
    <2>2. t.request \in DOMAIN joins'
      BY <1>1, <2>0, <2>1 DEF AppOK, Asked
    <2>3. x \in Agent /\ x.ticket = t /\ x.pc = "poll"
      BY <2>1 DEF Agent
    <2>4. agent' = [agent EXCEPT ![a] = x]
      BY <1>5 DEF AskToJoin
    <2>5. AgentOK(x)'
      BY <2>1, <2>2, <2>3 DEF AgentOK
    <2> QED BY <1>1, <2>3, <2>4, <2>5, AgentMoves
  <1>6. CASE WaitForJoinApproval(a)
    <2> PICK row, s, in, off :
           /\ row = joins[ag.ticket.request]
           /\ s = [actor |-> row.actor, org |-> ag.ticket.org]
           /\ in = [ag EXCEPT !.pc = "in", !.state = s]
           /\ off = [ag EXCEPT !.pc = "off"]
      OBVIOUS
    <2>0. /\ settings' = settings /\ joins' = joins /\ ag.pc = "poll"
          /\ \/ row.status = "approved" /\ agent' = [agent EXCEPT ![a] = in]
             \/ agent' = [agent EXCEPT ![a] = off]
      BY <1>6 DEF WaitForJoinApproval, appDb
    <2>1. ag.ticket \in Ticket /\ ag.ticket.request \in DOMAIN joins
      BY <1>2, <2>0 DEF AgentOK, Agent
    <2>2. row.status = "approved" => s \in Mapped /\ s # None
      BY <1>1, <2>1, NamesAssumption DEF AppOK, Ticket, Mapped
    <2>3. off \in Agent /\ off.ticket = ag.ticket /\ off.pc = "off"
      BY DEF Agent
    <2>4. row.status = "approved" => in \in Agent /\ in.ticket = ag.ticket /\ in.state = s
                                     /\ in.pc = "in"
      BY <2>2 DEF Agent
    <2>5. AgentOK(off)' /\ (row.status = "approved" => AgentOK(in)')
      BY <1>2, <2>0, <2>2, <2>3, <2>4 DEF AgentOK
    <2> QED BY <1>1, <2>0, <2>3, <2>4, <2>5, AgentMoves
  <1>7. CASE AgentStops(a)
    <2> PICK off : off = [ag EXCEPT !.pc = "off"]
      OBVIOUS
    <2>1. off \in Agent /\ off.ticket = ag.ticket /\ off.pc = "off"
      BY DEF Agent
    <2>2. agent' = [agent EXCEPT ![a] = off]
      BY <1>7 DEF AgentStops
    <2>3. AgentOK(off)'
      BY <1>1, <1>2, <2>1 DEF AgentOK, Grows
    <2> QED BY <1>1, <2>1, <2>2, <2>3, AgentMoves
  <1> QED BY <1>3, <1>4, <1>5, <1>6, <1>7 DEF BootstrapAgent

LEMMA AgentsStep ==
  ASSUME Inv, Step, AppKept
  PROVE  AgentsOK' /\ LeftOK'
  <1>1. AgentsOK /\ LeftOK /\ Grows
    BY DEF Inv, TypeOK, AppKept
  <1>2. CASE \E c \in DOMAIN proc : Resolution(c)
    <2>1. UNCHANGED <<agent, left>>
      BY <1>2 DEF Resolution, EnsureUserPrincipal, Probe, CreateOrg, CreateActor, Settle
    <2> QED BY <1>1, <2>1, AgentsRest DEF LeftOK
  <1>3. CASE \E c \in DOMAIN proc : Request(c)
    <2>1. UNCHANGED agent /\ (left' = left \/ Fault)
      BY <1>3 DEF Request, Refused, CreateBootstrapActor, RevokeAllActorGrants,
                  ApplyRoleGrants, CreateDefaultChannel, AnswerLost
    <2> QED BY <1>1, <2>1, AgentsRest DEF LeftOK, Fault
  <1>4. CASE \E c \in DOMAIN proc : CallStep(c)
    <2>1. UNCHANGED <<agent, left>>
      BY <1>4 DEF CallStep, Handle, CheckCapability, ListChannels, SetActorRole,
                  ResolveJoin, CreateAgentActor, Answer, NewChannel,
                CreatePermissionRequest, ResolvePermissionRequest
    <2> QED BY <1>1, <2>1, AgentsRest DEF LeftOK
  <1>5. CASE \E c \in waiting : SendInvite(c) \/ AcceptInvite(c) \/ RequirePrincipal(c)
    <2>1. UNCHANGED <<agent, left>>
      BY <1>5 DEF SendInvite, AcceptInvite, RequirePrincipal
    <2> QED BY <1>1, <2>1, AgentsRest DEF LeftOK
  <1>6. CASE \E a \in Programs : BootstrapAgent(a) \/ AgentStops(a)
    <2>1. left' = left \/ Fault
      BY <1>6 DEF BootstrapAgent, ResolveWorkspace, ActorIsLive, AskToJoin,
                  WaitForJoinApproval, AgentStops
    <2>2. AgentsOK'
      BY <1>6, AgentSteps
    <2> QED BY <1>1, <2>1, <2>2 DEF LeftOK, Fault
  <1>7. CASE AppRestart \/ ServerRestart
    <2>1. UNCHANGED agent /\ (Fault \/ left' = [left EXCEPT !.wiped = TRUE])
      BY <1>7 DEF AppRestart, ServerRestart
    <2>2. LeftOK'
      <3>1. CASE Fault
        BY <1>1, <3>1 DEF LeftOK, Fault
      <3>2. CASE left' = [left EXCEPT !.wiped = TRUE]
        BY <1>1, <3>2 DEF LeftOK
      <3> QED BY <2>1, <3>1, <3>2
    <2> QED BY <1>1, <2>1, <2>2, AgentsRest
  <1> QED BY <1>2, <1>3, <1>4, <1>5, <1>6, <1>7
          DEF Step, PoetBootstrap, WeatherBootstrap, AssistantBootstrap, CursorBootstrap

LEMMA TypesStep ==
  ASSUME Inv, Step
  PROVE  TypeOK' /\ Grows
  BY ServerStep, AppStep, AgentsStep DEF TypeOK, AppKept

(***************************************************************************)
(* While nothing goes wrong.                                               *)
(***************************************************************************)
\* One call at a time resolves the principal of a user.
Single ==
  \A c, d \in DOMAIN proc : proc[c].resolving /\ proc[d].resolving /\ c.user = d.user => c = d

\* What the row of the call c knows of the server and of the user it works on.
Knows(c, q) ==
  /\ q.pc \in {"createOrg", "createActor"} => actorOf[c.user] = None
  /\ q.pc \notin {"ensure", "createOrg", "createActor"} /\ (q.resolving \/ q.need # "channel")
       => actorOf[q.user] = [actor |-> q.actor, org |-> q.org]
  /\ q.pc \notin {"ensure", "createOrg"} => q.org \in orgs
  /\ q.pc \in {"revoke", "grant write", "grant manage", "createChannel"}
       => AssertOrgActor(q.grantor, q.org)

\* The user's actor is at the server, under the user's name.
Placed ==
  \A u \in Users : actorOf[u] # None =>
    /\ AssertOrgActor(actorOf[u].actor, actorOf[u].org) /\ actors[actorOf[u].actor].name = u
    /\ actorOf[u].org \in orgs

\* So are the organization and the system actor the application remembers.
Housed ==
  /\ settings.org # None => settings.org \in orgs
  /\ settings.bootActor # None => AssertOrgActor(settings.bootActor, settings.bootOrg)

Named ==
  \A a \in DOMAIN actors, u \in Users :
    actors[a].name = u => actorOf[u] = [actor |-> a, org |-> actors[a].org]

Known == Placed /\ Housed /\ Named /\ \A c \in DOMAIN proc : Knows(c, proc[c])

Calmed == Known /\ Calm'

\* The server loses nothing, and a user once mapped stays mapped.
CalmKept ==
  /\ orgs \subseteq orgs'
  /\ \A a \in DOMAIN actors : a \in DOMAIN actors' /\ actors'[a] = actors[a]
  /\ \A u \in Users : actorOf[u] # None => actorOf'[u] = actorOf[u]

LEMMA ActorsWritten ==
  ASSUME Step
  PROVE  actorOf' = actorOf \/ \E c \in DOMAIN proc : CreateActor(c)
  <1>1. CASE \E c \in DOMAIN proc : Resolution(c)
    BY <1>1 DEF Resolution, EnsureUserPrincipal, Probe, CreateOrg, Settle, appDb
  <1>2. CASE \E c \in DOMAIN proc : Request(c)
    BY <1>2 DEF Request, Refused, CreateBootstrapActor, RevokeAllActorGrants,
                ApplyRoleGrants, CreateDefaultChannel, AnswerLost, appDb
  <1>3. CASE \E c \in DOMAIN proc : CallStep(c)
    BY <1>3 DEF CallStep, Handle, CheckCapability, ListChannels, SetActorRole,
                ResolveJoin, CreateAgentActor, Answer, NewChannel,
                CreatePermissionRequest, ResolvePermissionRequest, appDb
  <1>4. CASE \E c \in waiting : SendInvite(c) \/ AcceptInvite(c) \/ RequirePrincipal(c)
    BY <1>4 DEF SendInvite, AcceptInvite, RequirePrincipal, appDb
  <1>5. CASE \E a : BootstrapAgent(a) \/ AgentStops(a)
    BY <1>5 DEF BootstrapAgent, ResolveWorkspace, ActorIsLive, AskToJoin,
                WaitForJoinApproval, AgentStops, appDb
  <1>6. CASE AppRestart \/ ServerRestart
    BY <1>6 DEF AppRestart, ServerRestart, appDb
  <1> QED BY <1>1, <1>2, <1>3, <1>4, <1>5, <1>6
          DEF Step, PoetBootstrap, WeatherBootstrap, AssistantBootstrap, CursorBootstrap

LEMMA ServedKeeps ==
  ASSUME ServerOK, NEW q, Served(q)
  PROVE  /\ orgs \subseteq orgs'
         /\ \A a \in DOMAIN actors : a \in DOMAIN actors' /\ actors'[a] = actors[a]
  <1>1. orgs \subseteq orgs'
    BY DEF Served
  <1>2. CASE q.pc \in {"createActor", "createAgent", "createBoot"}
    <2> PICK v : v = [org |-> q.org, kind |-> Kind(q.pc), name |-> q.name]
      OBVIOUS
    <2>1. actors' = With(actors, Fresh, v)
      BY <1>2 DEF Served
    <2> QED BY <1>1, <2>1 DEF With
  <1>3. CASE q.pc \notin {"createActor", "createAgent", "createBoot"}
    BY <1>1, <1>3 DEF Served
  <1> QED BY <1>2, <1>3

LEMMA CalmStays ==
  ASSUME Inv, Step, Calmed
  PROVE  CalmKept
  <1>1. ServerOK /\ ~ServerRestart
    BY DEF Inv, TypeOK, Calmed, Calm, ServerRestart, LeftOK
  <1>2. /\ orgs \subseteq orgs'
        /\ \A a \in DOMAIN actors : a \in DOMAIN actors' /\ actors'[a] = actors[a]
    <2>1. CASE UNCHANGED server
      BY <2>1 DEF server
    <2>2. CASE \E q : Served(q)
      BY <1>1, <2>2, ServedKeeps
    <2> QED BY <1>1, <2>1, <2>2, ServerMoves
  <1>3. ASSUME NEW u \in Users, actorOf[u] # None  PROVE actorOf'[u] = actorOf[u]
    <2>1. CASE actorOf' = actorOf
      BY <2>1
    <2>2. CASE \E c \in DOMAIN proc : CreateActor(c)
      <3>1. PICK c \in DOMAIN proc : CreateActor(c)
        BY <2>2
      <3>2. Knows(c, proc[c]) /\ proc[c].pc = "createActor"
        BY <3>1 DEF Calmed, Known, CreateActor
      <3>3. c.user # u
        BY <1>3, <3>2 DEF Knows
      <3>4. actorOf \in [Users -> Mapped \cup {None}]
        BY DEF Inv, TypeOK, AppOK
      <3> QED BY <3>1, <3>3, <3>4 DEF CreateActor
    <2> QED BY <2>1, <2>2, ActorsWritten
  <1> QED BY <1>2, <1>3 DEF CalmKept

\* An accepted invite whose role is still to be granted.
Pends(c, q) == c.op = "accept" /\ (q.pc \in {"ensure", "principal"} \/ q.resolving)

\* What the row q of the call c comes to on the way to its grants.
Onward(c, q, x) ==
  /\ x.pc \in {"grant write", "grant manage"} \/ q.pc \in {"revoke", "grant write", "grant manage"}
       => RevokeAllActorGrants(c) \/ ApplyRoleGrants(c)
  /\ q.pc = "createBoot" /\ q.need = "grants" => Reconciling(x) /\ x.user = q.user
  /\ Pends(c, q) => Pends(c, x) \/ (Reconciling(x) /\ x.user = c.user)
  /\ x.pc = "createAgent" => ResolveJoin(c)

\* What a row may become, and what it stays if it is left alone.
New(c, x) ==
  /\ Shape(c, x) /\ Backed(c, x)'
  /\ c \in DOMAIN proc => Onward(c, proc[c], x)
  /\ Calmed => Knows(c, x)'
  /\ x.resolving => proc[c].resolving \/ ~InFlight(c.user)

Turned(c) == \E x : Put(c, x) /\ New(c, x)

Fewer == DOMAIN proc' \subseteq DOMAIN proc /\ \A c \in DOMAIN proc' : proc'[c] = proc[c]

LEMMA MayStays ==
  ASSUME AppOK, Grows, NEW u \in Users, May(u)
  PROVE  May(u)'
  <1>1. u # None
    BY NamesAssumption
  <1>2. CASE u = settings.firstUser
    BY <1>1, <1>2 DEF Grows, May
  <1>3. CASE HasConsumedInvite(u)
    BY <1>1, <1>3 DEF Grows, May, HasConsumedInvite
  <1> QED BY <1>2, <1>3 DEF May

LEMMA BackedStays ==
  ASSUME AppOK, Grows, NEW c, NEW q, Shape(c, q), Backed(c, q)
  PROVE  Backed(c, q)'
  <1>1. c.user \in Users /\ q.user \in Users /\ None \notin Users
    BY NamesAssumption DEF Shape, Sound, Row
  <1>2. q.pc \in {"createOrg", "createActor"} => May(c.user)'
    BY <1>1, MayStays DEF Backed
  <1>3. q.role = "owner" => q.user = settings'.firstUser
    BY <1>1 DEF Backed, Grows
  <1>4. /\ c.op = "accept" => c.on \in DOMAIN invites'
        /\ c.op = "resolve" => c.on \in DOMAIN joins'
        /\ q.pc \notin {"ensure", "createOrg"} => settings'.org # None
    BY DEF Backed, Grows
  <1>5. q.pc = "createAgent" => q.name = joins'[c.on].name
    BY DEF Backed, Grows, Shape
  <1> QED BY <1>2, <1>3, <1>4, <1>5 DEF Backed

LEMMA KnowsStays ==
  ASSUME CalmKept, NEW c, NEW q, Shape(c, q), Knows(c, q),
         q.pc \in {"createOrg", "createActor"} => actorOf'[c.user] = None
  PROVE  Knows(c, q)'
  <1>1. q.pc \notin {"ensure", "createOrg", "createActor"} /\ (q.resolving \/ q.need # "channel")
          => actorOf'[q.user] = [actor |-> q.actor, org |-> q.org]
    <2> SUFFICES ASSUME q.pc \notin {"ensure", "createOrg", "createActor"},
                        q.resolving \/ q.need # "channel"
                 PROVE  actorOf'[q.user] = [actor |-> q.actor, org |-> q.org]
      OBVIOUS
    <2>1. actorOf[q.user] = [actor |-> q.actor, org |-> q.org]
      BY DEF Knows
    <2>2. q.user \in Users /\ [actor |-> q.actor, org |-> q.org] \in [actor : Nat, org : Nat]
      BY DEF Shape, Row
    <2>3. actorOf[q.user] # None
      BY <2>1, <2>2, NamesAssumption
    <2> QED BY <2>1, <2>2, <2>3 DEF CalmKept
  <1>2. q.pc \notin {"ensure", "createOrg"} => q.org \in orgs'
    BY DEF Knows, CalmKept
  <1>3. q.pc \in {"revoke", "grant write", "grant manage", "createChannel"}
          => AssertOrgActor(q.grantor, q.org)'
    BY DEF Knows, CalmKept, AssertOrgActor
  <1> QED BY <1>1, <1>2, <1>3 DEF Knows

\* The row of the call c before a step.
OldRow(c, q) ==
  /\ q = proc[c] /\ q \in Row /\ Shape(c, q) /\ Backed(c, q) /\ Backed(c, q)'
  /\ Calmed => /\ CalmKept /\ Housed /\ Knows(c, q)
               /\ q.pc \notin {"createOrg", "createActor"} => Knows(c, q)'

LEMMA RowIs ==
  ASSUME Inv, Step, NEW c \in DOMAIN proc
  PROVE  AppOK /\ Grows /\ AppOK' /\ Sound(c) /\ c.op # "invite" /\ \E q : OldRow(c, q)
  <1>1. AppOK /\ Grows /\ AppOK'
    BY AppStep DEF AppKept, Inv, TypeOK
  <1> PICK q : q = proc[c]
    OBVIOUS
  <1>2. Shape(c, q) /\ Backed(c, q) /\ q \in Row /\ Sound(c) /\ c.op # "invite"
    BY DEF Inv, Rows, Shape
  <1>3. Backed(c, q)'
    BY <1>1, <1>2, BackedStays
  <1>4. Calmed => CalmKept /\ Housed /\ Knows(c, q)
    BY CalmStays DEF Calmed, Known
  <1>5. Calmed /\ q.pc \notin {"createOrg", "createActor"} => Knows(c, q)'
    BY <1>2, <1>4, KnowsStays
  <1>6. OldRow(c, q)
    BY <1>2, <1>3, <1>4, <1>5 DEF OldRow
  <1> QED BY <1>1, <1>2, <1>6

LEMMA Thrown ==
  ASSUME NEW p, Throw(p)
  PROVE  Fewer
  BY DEF Throw, Fewer, Restrict

\* The call c, whatever its row.
Arrived(c) ==
  /\ c.op = "accept" => c.on \in DOMAIN invites
  /\ c.op = "resolve" => c.on \in DOMAIN joins

\* A row that ends the call, or its resolution.
LEMMA EndIsNew ==
  ASSUME NEW c, NEW q \in Row, q = proc[c], Shape(c, q), Backed(c, q)',
         q.pc \in {"probe", "createChannel", "list", "check", "act", "createAgent", "newChannel", "ask",
                   "approve", "deny"},
         Calmed => Knows(c, q)'
  PROVE  New(c, [q EXCEPT !.pc = "end"])
  <1> PICK x : x = [q EXCEPT !.pc = "end"]
    OBVIOUS
  <1>1. /\ x \in Row /\ x.pc = "end" /\ x.resolving = q.resolving /\ x.user = q.user
        /\ x.name = q.name /\ x.actor = q.actor /\ x.org = q.org /\ x.role = q.role
        /\ x.grantor = q.grantor /\ x.need = q.need /\ x.then = q.then
    BY DEF Row, Pcs
  <1>2. Shape(c, x)
    BY <1>1 DEF Shape
  <1>3. Backed(c, x)'
    BY <1>1 DEF Backed
  <1>4. Calmed => Knows(c, x)'
    BY <1>1 DEF Knows
  <1>5. Onward(c, q, x)
    BY <1>1 DEF Onward, Pends
  <1> QED BY <1>1, <1>2, <1>3, <1>4, <1>5 DEF New

\* A row with the principal that goes on to a request of the call itself.
LEMMA PrincipalIsNew ==
  ASSUME NEW c, NEW q \in Row, q = proc[c], Shape(c, q), Backed(c, q)',
         q.pc \in {"principal", "check", "act", "newChannel"}, Calmed => Knows(c, q)',
         NEW v \in {"list", "check", "act", "newChannel", "ask"},
         v \in {"check", "act"} => c.op \in {"role", "resolve"},
         v \in {"newChannel", "ask"} => c.op = "propose", c.op # "accept"
  PROVE  New(c, [q EXCEPT !.pc = v])
  <1> PICK x : x = [q EXCEPT !.pc = v]
    OBVIOUS
  <1>1. /\ x \in Row /\ x.pc = v /\ x.resolving = q.resolving /\ x.user = q.user
        /\ x.name = q.name /\ x.actor = q.actor /\ x.org = q.org /\ x.role = q.role
        /\ x.grantor = q.grantor /\ x.need = q.need /\ x.then = q.then
    BY DEF Row, Pcs
  <1>2. Shape(c, x)
    BY <1>1 DEF Shape
  <1>3. Backed(c, x)'
    BY <1>1 DEF Backed
  <1>4. Calmed => Knows(c, x)'
    BY <1>1 DEF Knows
  <1>5. Onward(c, q, x)
    BY <1>1 DEF Onward, Pends
  <1> QED BY <1>1, <1>2, <1>3, <1>4, <1>5 DEF New

\* A row that goes on to answer a permission request.
LEMMA AboutIsNew ==
  ASSUME NEW c, NEW q \in Row, q = proc[c], Shape(c, q), Backed(c, q)',
         q.pc = "principal", Calmed => Knows(c, q)', NEW v \in {"approve", "deny"},
         c.op = "decide"
  PROVE  New(c, [q EXCEPT !.pc = v, !.about = c.on])
  <1>0. c.on \in Id
    BY DEF Shape, Sound, Id
  <1> PICK x : x = [q EXCEPT !.pc = v, !.about = c.on]
    OBVIOUS
  <1>1. /\ x \in Row /\ x.pc = v /\ x.resolving = q.resolving /\ x.user = q.user
        /\ x.name = q.name /\ x.actor = q.actor /\ x.org = q.org /\ x.role = q.role
        /\ x.grantor = q.grantor /\ x.need = q.need /\ x.then = q.then
    BY <1>0 DEF Row, Pcs
  <1>2. Shape(c, x)
    BY <1>1 DEF Shape
  <1>3. Backed(c, x)'
    BY <1>1 DEF Backed
  <1>4. Calmed => Knows(c, x)'
    BY <1>1 DEF Knows
  <1>5. Onward(c, q, x)
    BY <1>1 DEF Onward, Pends
  <1> QED BY <1>1, <1>2, <1>3, <1>4, <1>5 DEF New

\* The row from which a role is reconciled, or the default channel made.
Based(c, q) ==
  /\ q \in Row /\ Sound(c) /\ c.op # "invite"
  /\ q.actor \in Nat /\ q.org \in Nat
  /\ q.resolving => q.user = c.user /\ (proc[c].resolving \/ ~InFlight(c.user))

LEMMA ReconcileIsNew ==
  ASSUME AppOK, UNCHANGED settings, settings.org # None,
         NEW c, NEW q, Based(c, q), Arrived(c)',
         NEW r \in Roles, r = "owner" => q.user = settings.firstUser,
         NEW t \in {"end", "probe", "channel"}, t # "end" => q.resolving,
         proc[c].pc \in {"ensure", "createActor", "principal", "act"},
         c.op = "accept" => q.user = c.user,
         Calmed => /\ CalmKept /\ Housed /\ q.org \in orgs'
                   /\ actorOf'[q.user] = [actor |-> q.actor, org |-> q.org],
         NEW x, x = ReconcileUserRole(q, r, t)
  PROVE  New(c, x)
  <1>1. settings \in Settings /\ q \in Row
    BY DEF AppOK, Based
  <1>2. /\ x \in Row /\ x.pc \in {"revoke", "createBoot"} /\ x.role = r /\ x.need = "grants"
        /\ Follows(x, q) /\ x.then = t
        /\ x.pc = "revoke" => Granting(x)
        /\ x.pc = "createBoot" => x.name = "bootstrap"
    <2>1. RoleRow(x, q, r, t)
      BY <1>1, Reconciled
    <2> QED BY <2>1 DEF RoleRow
  <1>3. x.resolving = q.resolving /\ x.user = q.user /\ x.actor = q.actor /\ x.org = q.org
    BY <1>2 DEF Follows
  <1>4. Shape(c, x)
    <2>1. x.actor \in Nat /\ x.org \in Nat /\ x.role \in Roles /\ Sound(c) /\ c.op # "invite"
      BY <1>2, <1>3 DEF Based
    <2>2. (x.resolving => x.user = c.user) /\ (x.then # "end" => x.resolving)
      BY <1>2, <1>3 DEF Based
    <2>3. x.need # None
      BY <1>2, NamesAssumption
    <2> QED BY <1>2, <2>1, <2>2, <2>3 DEF Shape
  <1>5. Backed(c, x)'
    BY <1>2, <1>3 DEF Backed, Arrived
  <1>6. Calmed => Knows(c, x)'
    <2>1. Calmed /\ x.pc = "revoke" => AssertOrgActor(x.grantor, x.org)'
      BY <1>2 DEF Granting, Housed, CalmKept, AssertOrgActor
    <2> QED BY <1>2, <1>3, <2>1 DEF Knows
  <1>7. Onward(c, proc[c], x)
    BY <1>2, <1>3 DEF Onward, Pends, Reconciling
  <1> QED BY <1>3, <1>4, <1>5, <1>6, <1>7 DEF New, Based

LEMMA ChannelIsNew ==
  ASSUME AppOK, UNCHANGED settings, settings.org # None,
         NEW c, NEW q, Based(c, q), Arrived(c)',
         q.role = "owner" => q.user = settings.firstUser, q.then # "end" => q.resolving,
         proc[c].pc = "list" \/ ApplyRoleGrants(c), q.resolving = proc[c].resolving,
         Calmed => /\ CalmKept /\ Housed /\ q.org \in orgs'
                   /\ q.resolving => actorOf'[q.user] = [actor |-> q.actor, org |-> q.org],
         NEW x, x = DefaultChannelOf(q)
  PROVE  New(c, x)
  <1>1. settings \in Settings /\ q \in Row
    BY DEF AppOK, Based
  <1>2. /\ x \in Row /\ x.pc \in {"end", "createChannel", "createBoot"} /\ x.role = q.role
        /\ x.need = "channel" /\ Follows(x, q)
        /\ x.then = q.then
        /\ x.pc = "createChannel" => Granting(x)
        /\ x.pc = "createBoot" => x.name = "bootstrap"
    BY <1>1, Channelled
  <1>3. /\ x.resolving = q.resolving /\ x.user = q.user /\ x.actor = q.actor /\ x.org = q.org
        /\ x.then = q.then
    BY <1>2 DEF Follows
  <1>4. Shape(c, x)
    <2>1. x.actor \in Nat /\ x.org \in Nat /\ Sound(c) /\ c.op # "invite"
      BY <1>2, <1>3 DEF Based
    <2>2. (x.resolving => x.user = c.user) /\ (x.then # "end" => x.resolving)
      BY <1>2, <1>3 DEF Based
    <2>3. x.need # None
      BY <1>2, NamesAssumption
    <2> QED BY <1>2, <2>1, <2>2, <2>3 DEF Shape
  <1>5. Backed(c, x)'
    BY <1>2, <1>3 DEF Backed, Arrived
  <1>6. Calmed => Knows(c, x)'
    <2>1. Calmed /\ x.pc = "createChannel" => AssertOrgActor(x.grantor, x.org)'
      BY <1>2 DEF Granting, Housed, CalmKept, AssertOrgActor
    <2> QED BY <1>2, <1>3, <2>1 DEF Knows
  <1>7. Onward(c, proc[c], x)
    BY <1>2, <1>3 DEF Onward, Pends, ApplyRoleGrants
  <1> QED BY <1>3, <1>4, <1>5, <1>6, <1>7 DEF New, Based

\* A user without an actor who may join goes on to make one.
LEMMA JoinTurns ==
  ASSUME Inv, Step, NEW p \in DOMAIN proc, JoinWorkspace(p), UNCHANGED <<server, actorOf, invites>>,
         proc[p].resolving \/ ~InFlight(p.user), Calmed => actorOf[p.user] = None,
         proc[p].pc \in {"ensure", "probe"}
  PROVE  Turned(p) \/ Fewer
  <1>0. PICK q : OldRow(p, q)
    BY RowIs
  <1>1. Sound(p) /\ p.user \in Users /\ p.op # "invite" /\ AppOK
    BY RowIs DEF Sound
  <1>2. CASE MayJoin(p.user)
    <2>p. PICK y, x : y = [Call(p.user) EXCEPT !.resolving = TRUE] /\ x = EnsureOrg(y)
      OBVIOUS
    <2>1. /\ y \in Row /\ y.resolving = TRUE /\ y.user = p.user /\ y.name = p.user /\ y.actor = None
          /\ y.role = None /\ y.need = None /\ y.then = "end"
      BY <1>1, <2>p DEF Call, Row, Pcs, Names, Id
    <2>2. /\ x \in Row /\ x.resolving = TRUE /\ x.user = p.user /\ x.name = p.user /\ x.actor = None
          /\ x.role = None /\ x.need = None /\ x.then = "end"
          /\ x.pc \in {"createOrg", "createActor"}
          /\ x.pc = "createActor" => x.org = settings.org /\ x.org \in Nat
      BY <1>1, <2>1, <2>p DEF EnsureOrg, Row, Pcs, Id, AppOK, Settings
    <2>3. /\ Put(p, x) /\ settings'.org = settings.org
          /\ settings'.firstUser = IF settings.firstUser = None THEN p.user ELSE settings.firstUser
      BY <1>1, <1>2, <2>p DEF JoinWorkspace, AppOK, Settings
    <2>4. Shape(p, x)
      BY <1>1, <2>2, NamesAssumption DEF Shape
    <2>5. May(p.user)'
      BY <1>2, <2>3 DEF MayJoin, May, HasConsumedInvite
    <2>6. Backed(p, x)'
      <3>1. settings'.org # None \/ x.pc = "createOrg"
        BY <2>2, <2>3, NamesAssumption
      <3>2. x.role # "owner"
        BY <2>2, NamesAssumption DEF Roles
      <3>3. /\ p.op = "accept" => p.on \in DOMAIN invites'
            /\ p.op = "resolve" => p.on \in DOMAIN joins'
        BY <1>0 DEF OldRow, Backed
      <3> QED BY <2>2, <2>5, <3>1, <3>2, <3>3 DEF Backed
    <2>7. Calmed => Knows(p, x)'
      <3>1. Calmed => actorOf'[p.user] = None
        OBVIOUS
      <3>2. Calmed /\ x.pc = "createActor" => x.org \in orgs'
        BY <2>2, NamesAssumption DEF Calmed, Known, Housed, server
      <3> QED BY <2>2, <3>1, <3>2 DEF Knows
    <2>8. Onward(p, proc[p], x)
      BY <2>2 DEF Onward, Pends
    <2> QED BY <2>3, <2>4, <2>6, <2>7, <2>8 DEF Turned, New
  <1>3. CASE ~MayJoin(p.user)
    BY <1>3, Thrown DEF JoinWorkspace
  <1> QED BY <1>2, <1>3

LEMMA RoleDesired ==
  ASSUME AppOK, Owners, NEW u \in Users
  PROVE  DesiredRole(u) \in Roles /\ (DesiredRole(u) = "owner" => u = settings.firstUser)
  BY NamesAssumption DEF AppOK, Owners, DesiredRole, Roles, Grantable

LEMMA EnsureTurns ==
  ASSUME Inv, Step, NEW p \in DOMAIN proc, EnsureUserPrincipal(p)
  PROVE  Turned(p) \/ Fewer
  <1>0. PICK q : OldRow(p, q)
    BY RowIs
  <1>1. Sound(p) /\ p.user \in Users /\ p.op # "invite" /\ AppOK /\ Owners
    BY RowIs DEF Sound, Inv
  <1>2. ~InFlight(p.user) /\ UNCHANGED <<server, actorOf, invites, joins>> /\ q.pc = "ensure"
    BY <1>0 DEF EnsureUserPrincipal, OldRow
  <1>3. CASE actorOf[p.user] = None
    BY <1>2, <1>3, JoinTurns DEF EnsureUserPrincipal
  <1>4. CASE actorOf[p.user] # None
    <2>p. PICK m, r, y : /\ m = actorOf[p.user] /\ r = DesiredRole(p.user)
                         /\ y = [q EXCEPT !.resolving = TRUE, !.actor = m.actor, !.org = m.org,
                                          !.role = r, !.pc = "probe"]
      OBVIOUS
    <2>1. m \in Mapped /\ r \in Roles /\ (r = "owner" => p.user = settings.firstUser)
      BY <1>1, <1>4, <2>p, RoleDesired DEF AppOK
    <2>2. q = Call(p.user) /\ q \in Row
      BY <1>0, <1>2 DEF OldRow, Shape
    <2>3. /\ y \in Row /\ y.pc = "probe" /\ y.resolving = TRUE /\ y.user = p.user /\ y.name = p.user
          /\ y.actor = m.actor /\ y.org = m.org /\ y.role = r /\ y.need = None /\ y.then = "end"
      <3>1. q.user = p.user /\ q.name = p.user /\ q.need = None /\ q.then = "end"
        BY <2>2 DEF Call
      <3>2. m.actor \in Id /\ m.org \in Id /\ r \in Roles \cup {None} /\ "probe" \in Pcs
        BY <2>1 DEF Pcs, Id, Mapped
      <3>3. y \in Row
        BY <2>2, <2>p, <3>2 DEF Row
      <3>4. /\ y.pc = "probe" /\ y.resolving = TRUE /\ y.user = q.user /\ y.name = q.name
            /\ y.actor = m.actor /\ y.org = m.org /\ y.role = r /\ y.need = q.need
            /\ y.then = q.then
        BY <2>2, <2>p DEF Row
      <3> QED BY <3>1, <3>3, <3>4
    <2>4. settings' = settings /\ settings.org # None
          /\ (Put(p, y) \/ Put(p, ReconcileUserRole(y, r, "probe")))
      BY <1>0, <1>1, <1>4, <2>p DEF EnsureUserPrincipal, OldRow, Owners, JoinWorkspace
    <2>5. Calmed => CalmKept /\ Housed /\ m.org \in orgs'
                    /\ actorOf'[p.user] = [actor |-> m.actor, org |-> m.org]
      <3> SUFFICES ASSUME Calmed PROVE CalmKept /\ Housed /\ m.org \in orgs'
                                       /\ actorOf'[p.user] = [actor |-> m.actor, org |-> m.org]
        OBVIOUS
      <3>1. CalmKept /\ Housed /\ m.org \in orgs
        BY <1>0, <1>1, <1>4, <2>p DEF OldRow, Calmed, Known, Placed
      <3>2. m = [actor |-> m.actor, org |-> m.org]
        BY <2>1 DEF Mapped
      <3>3. m.org \in orgs'
        BY <3>1 DEF CalmKept
      <3> QED BY <1>2, <2>p, <3>1, <3>2, <3>3
    <2>6. Arrived(p)'
      BY <1>0 DEF OldRow, Backed, Arrived
    <2>7. New(p, y)
      <3>1. Shape(p, y)
        BY <1>1, <2>1, <2>3, NamesAssumption DEF Shape, Mapped
      <3>2. Backed(p, y)'
        BY <2>1, <2>3, <2>4, <2>6 DEF Backed, Arrived
      <3>3. Calmed => Knows(p, y)'
        BY <2>3, <2>5 DEF Knows
      <3>4. Onward(p, q, y)
        BY <1>2, <2>3 DEF Onward, Pends
      <3> QED BY <1>0, <1>2, <3>1, <3>2, <3>3, <3>4 DEF New, OldRow
    <2>8. New(p, ReconcileUserRole(y, r, "probe"))
      <3>1. PICK x : x = ReconcileUserRole(y, r, "probe")
        OBVIOUS
      <3>2. Based(p, y)
        BY <1>1, <1>2, <2>1, <2>3 DEF Based, Mapped
      <3>3. Calmed => /\ CalmKept /\ Housed /\ y.org \in orgs'
                      /\ actorOf'[y.user] = [actor |-> y.actor, org |-> y.org]
        BY <2>3, <2>5
      <3>4. /\ y.resolving /\ y.user = p.user /\ (r = "owner" => y.user = settings.firstUser)
            /\ proc[p].pc = "ensure"
        BY <1>0, <1>2, <2>1, <2>3 DEF OldRow
      <3>5. New(p, x)
        BY <1>1, <2>1, <2>4, <2>6, <3>1, <3>2, <3>3, <3>4, ReconcileIsNew
      <3> QED BY <3>1, <3>5
    <2> QED BY <2>4, <2>7, <2>8 DEF Turned
  <1> QED BY <1>3, <1>4

LEMMA ProbeTurns ==
  ASSUME Inv, Step, NEW p \in DOMAIN proc, Probe(p)
  PROVE  Turned(p) \/ Fewer
  <1>0. PICK q : OldRow(p, q)
    BY RowIs
  <1>1. q \in Row /\ q = proc[p] /\ q.pc = "probe" /\ q.resolving /\ q.user = p.user
    BY <1>0 DEF OldRow, Shape, Probe
  <1>2. CASE Accepted(q)
    <2>1. Put(p, [q EXCEPT !.pc = "end"])
      BY <1>1, <1>2 DEF Probe
    <2>2. New(p, [q EXCEPT !.pc = "end"])
      BY <1>0, <1>1, EndIsNew DEF OldRow
    <2> QED BY <2>1, <2>2 DEF Turned
  <1>3. CASE ~Accepted(q)
    <2>1. Calmed => FALSE
      <3> SUFFICES ASSUME Calmed PROVE FALSE
        OBVIOUS
      <3>1. actorOf[p.user] = [actor |-> q.actor, org |-> q.org] /\ q.actor \in Nat /\ q.org \in Nat
        BY <1>0, <1>1 DEF OldRow, Knows, Shape
      <3>2. p.user \in Users /\ actorOf[p.user] # None
        BY <1>1, <3>1, NamesAssumption DEF Row
      <3>3. AssertOrgActor(q.actor, q.org)
        BY <3>1, <3>2 DEF Calmed, Known, Placed
      <3> QED BY <1>1, <1>3, <3>3 DEF Accepted
    <2>2. JoinWorkspace(p) /\ UNCHANGED <<server, actorOf, invites>>
      BY <1>1, <1>3 DEF Probe
    <2> QED BY <1>1, <2>1, <2>2, JoinTurns
  <1> QED BY <1>2, <1>3

LEMMA CreateOrgTurns ==
  ASSUME Inv, Step, NEW p \in DOMAIN proc, CreateOrg(p)
  PROVE  Turned(p)
  <1>0. PICK q : OldRow(p, q)
    BY RowIs
  <1> PICK x : x = [q EXCEPT !.pc = "createActor", !.org = Fresh]
    OBVIOUS
  <1>1. q \in Row /\ q = proc[p] /\ q.pc = "createOrg" /\ Shape(p, q) /\ Sound(p)
    BY <1>0 DEF OldRow, Shape, CreateOrg
  <1>2. Fresh \in Nat /\ Fresh # None /\ settings'.org = Fresh /\ orgs' = orgs \cup {Fresh}
        /\ actorOf' = actorOf /\ Put(p, x)
    BY <1>1, FreshIs DEF CreateOrg, Served, Inv, TypeOK, AppOK, Settings
  <1>3. /\ x \in Row /\ x.pc = "createActor" /\ x.resolving = q.resolving /\ x.user = q.user
        /\ x.name = q.name /\ x.actor = q.actor /\ x.org = Fresh /\ x.role = q.role
        /\ x.need = q.need /\ x.then = q.then
    BY <1>1, <1>2 DEF Row, Pcs, Id
  <1>4. Shape(p, x)
    BY <1>1, <1>2, <1>3 DEF Shape
  <1>5. Backed(p, x)'
    BY <1>0, <1>1, <1>2, <1>3 DEF OldRow, Backed
  <1>6. Calmed => Knows(p, x)'
    BY <1>0, <1>1, <1>2, <1>3 DEF OldRow, Knows
  <1>7. x.resolving => proc[p].resolving
    BY <1>1, <1>3
  <1>8. Onward(p, q, x)
    BY <1>1, <1>3 DEF Onward, Pends
  <1> QED BY <1>1, <1>2, <1>4, <1>5, <1>6, <1>7, <1>8 DEF Turned, New

LEMMA CreateActorTurns ==
  ASSUME Inv, Step, NEW p \in DOMAIN proc, CreateActor(p)
  PROVE  Turned(p) \/ Fewer
  <1>0. PICK q : OldRow(p, q)
    BY RowIs
  <1>1. CASE ~Accepted(proc[p])
    BY <1>1, Thrown DEF CreateActor
  <1>2. CASE Accepted(proc[p])
    <2>p. PICK y, r, x : /\ y = [q EXCEPT !.actor = Fresh] /\ r = DesiredRole(p.user)
                         /\ x = ReconcileUserRole(y, r, "channel")
      OBVIOUS
    <2>1. /\ q \in Row /\ q = proc[p] /\ q.pc = "createActor" /\ Shape(p, q) /\ Sound(p)
          /\ p.op # "invite" /\ p.user \in Users
      BY <1>0 DEF OldRow, Shape, CreateActor, Sound
    <2>2. q.resolving /\ q.user = p.user /\ q.org \in Nat /\ settings.org # None
      BY <1>0, <2>1 DEF OldRow, Shape, Backed
    <2>3. /\ Fresh \in Nat /\ settings' = settings /\ Put(p, x)
          /\ actorOf' = [actorOf EXCEPT ![p.user] = [actor |-> Fresh, org |-> q.org]]
      BY <1>2, <2>1, <2>p, FreshIs DEF CreateActor, Inv, TypeOK
    <2>4. y \in Row /\ y.actor = Fresh /\ y.org = q.org /\ y.user = q.user
          /\ y.resolving = q.resolving
      BY <2>1, <2>3, <2>p DEF Row, Id
    <2>5. r \in Roles /\ (r = "owner" => p.user = settings.firstUser) /\ AppOK
      BY <2>1, <2>p, RoleDesired DEF Inv, TypeOK
    <2>6. Based(p, y)
      BY <2>1, <2>2, <2>3, <2>4 DEF Based
    <2>7. Arrived(p)'
      BY <1>0 DEF OldRow, Backed, Arrived
    <2>8. Calmed => /\ CalmKept /\ Housed /\ y.org \in orgs'
                    /\ actorOf'[y.user] = [actor |-> y.actor, org |-> y.org]
      <3>1. actorOf'[p.user] = [actor |-> Fresh, org |-> q.org]
        BY <2>1, <2>3, <2>5 DEF AppOK
      <3>2. Calmed => CalmKept /\ Housed /\ q.org \in orgs'
        BY <1>0, <2>1 DEF OldRow, Knows, CalmKept
      <3> QED BY <2>2, <2>4, <3>1, <3>2
    <2>9. New(p, x)
      BY <2>1, <2>2, <2>3, <2>4, <2>5, <2>6, <2>7, <2>8, <2>p, ReconcileIsNew
    <2> QED BY <2>3, <2>9 DEF Turned
  <1> QED BY <1>1, <1>2

LEMMA CreateBootTurns ==
  ASSUME Inv, Step, NEW p \in DOMAIN proc, CreateBootstrapActor(p)
  PROVE  Turned(p)
  <1>0. PICK q : OldRow(p, q)
    BY RowIs
  <1>p. PICK y, x : y = [q EXCEPT !.grantor = Fresh] /\ x = Bootstrapped(y)
    OBVIOUS
  <1>1. /\ q \in Row /\ q = proc[p] /\ q.pc = "createBoot" /\ Shape(p, q) /\ Sound(p)
        /\ p.op # "invite"
    BY <1>0 DEF OldRow, Shape, CreateBootstrapActor
  <1>2. /\ Fresh \in Nat /\ settings'.org = settings.org /\ actorOf' = actorOf
        /\ settings'.firstUser = settings.firstUser /\ Put(p, x) /\ Served(q)
    BY <1>1, <1>p, FreshIs DEF CreateBootstrapActor, Inv, TypeOK, AppOK, Settings
  <1>3. y \in Row /\ y.grantor = Fresh /\ y.role = q.role /\ y.need = q.need /\ Follows(y, q)
        /\ y.then = q.then
    BY <1>1, <1>2, <1>p DEF Row, Id, Follows
  <1>4. /\ x \in Row /\ x.role = q.role /\ x.need = q.need /\ x.grantor = Fresh /\ Follows(x, q)
        /\ x.then = q.then
        /\ q.need = "grants" => x.pc = "revoke"
        /\ q.need # "grants" => x.pc \in {"end", "createChannel"}
    <2>1. /\ x \in Row /\ x.role = y.role /\ x.need = y.need /\ x.grantor = y.grantor
          /\ Follows(x, y) /\ x.then = y.then
          /\ y.need = "grants" => x.pc = "revoke"
          /\ y.need # "grants" => x.pc \in {"end", "createChannel"}
      BY <1>3, <1>p, BootstrappedIs
    <2> QED BY <1>3, <2>1 DEF Follows
  <1>5. Shape(p, x)
    <2>1. /\ q.resolving => q.user = p.user
          /\ q.then # "end" => q.resolving
          /\ q.actor \in Nat /\ q.org \in Nat
          /\ q.need = "grants" => q.role \in Roles
      BY <1>1 DEF Shape
    <2>2. /\ x.resolving = q.resolving /\ x.user = q.user /\ x.actor = q.actor
          /\ x.org = q.org
      BY <1>4 DEF Follows
    <2> QED BY <1>1, <1>4, <2>1, <2>2 DEF Shape
  <1>6. Backed(p, x)'
    BY <1>0, <1>1, <1>2, <1>4 DEF OldRow, Backed, Follows
  <1>7. \E f : f = Fresh /\ AssertOrgActor(f, q.org)'
    <2> PICK f, v : f = Fresh /\ v = [org |-> q.org, kind |-> Kind(q.pc), name |-> q.name]
      OBVIOUS
    <2>1. actors' = With(actors, f, v) /\ v.org = q.org
      BY <1>1, <1>2 DEF Served
    <2>2. f \notin DOMAIN actors
      BY FreshIs DEF Inv, TypeOK
    <2>3. f \in DOMAIN actors' /\ actors'[f] = v
      BY <2>1, <2>2 DEF With
    <2> QED BY <2>1, <2>3 DEF AssertOrgActor
  <1>8. Calmed => Knows(p, x)'
    BY <1>0, <1>1, <1>4, <1>7 DEF OldRow, Knows, Follows
  <1>9. x.resolving => proc[p].resolving
    BY <1>1, <1>4 DEF Follows
  <1>10. Onward(p, q, x)
    BY <1>1, <1>4 DEF Onward, Pends, Reconciling, Follows
  <1> QED BY <1>1, <1>2, <1>5, <1>6, <1>8, <1>9, <1>10 DEF Turned, New

LEMMA RevokeTurns ==
  ASSUME Inv, Step, NEW p \in DOMAIN proc, RevokeAllActorGrants(p)
  PROVE  Turned(p)
  <1>0. PICK q : OldRow(p, q)
    BY RowIs
  <1> PICK x : x = [q EXCEPT !.pc = "grant write"]
    OBVIOUS
  <1>1. q \in Row /\ q = proc[p] /\ q.pc = "revoke" /\ Shape(p, q) /\ Put(p, x)
    BY <1>0 DEF OldRow, Shape, RevokeAllActorGrants
  <1>2. /\ x \in Row /\ x.pc = "grant write" /\ x.resolving = q.resolving /\ x.user = q.user
        /\ x.name = q.name /\ x.actor = q.actor /\ x.org = q.org /\ x.role = q.role
        /\ x.grantor = q.grantor /\ x.need = q.need /\ x.then = q.then
    BY <1>1 DEF Row, Pcs
  <1>3. Shape(p, x)
    BY <1>1, <1>2 DEF Shape
  <1>4. Backed(p, x)'
    BY <1>0, <1>1, <1>2 DEF OldRow, Backed
  <1>5. Calmed => Knows(p, x)'
    BY <1>0, <1>1, <1>2 DEF OldRow, Knows
  <1>6. Onward(p, q, x)
    BY <1>1, <1>2 DEF Onward, Pends
  <1> QED BY <1>1, <1>2, <1>3, <1>4, <1>5, <1>6 DEF Turned, New

LEMMA GrantTurns ==
  ASSUME Inv, Step, NEW p \in DOMAIN proc, ApplyRoleGrants(p)
  PROVE  Turned(p)
  <1>0. PICK q : OldRow(p, q)
    BY RowIs
  <1>1. /\ q \in Row /\ q = proc[p] /\ q.pc \in {"grant write", "grant manage"} /\ Shape(p, q)
        /\ Sound(p) /\ p.op # "invite" /\ settings' = settings /\ AppOK
    BY <1>0, RowIs DEF OldRow, Shape, ApplyRoleGrants
  <1> DEFINE more == q.pc = "grant write" /\ "manage" \in RoleTemplate(q.role)
  <1>2. ASSUME NEW v \in {"grant manage", "end", "probe"}, Put(p, [q EXCEPT !.pc = v]),
               v = "grant manage" => q.role \in Managers, v = "probe" => q.then = "probe"
        PROVE  Turned(p)
    <2> PICK x : x = [q EXCEPT !.pc = v]
      OBVIOUS
    <2>1. /\ x \in Row /\ x.pc = v /\ x.resolving = q.resolving /\ x.user = q.user
          /\ x.name = q.name /\ x.actor = q.actor /\ x.org = q.org /\ x.role = q.role
          /\ x.grantor = q.grantor /\ x.need = q.need /\ x.then = q.then
      BY <1>1 DEF Row, Pcs
    <2>2. Shape(p, x)
      BY <1>1, <1>2, <2>1 DEF Shape
    <2>3. Backed(p, x)'
      BY <1>0, <1>1, <2>1 DEF OldRow, Backed
    <2>4. Calmed => Knows(p, x)'
      BY <1>0, <1>1, <2>1 DEF OldRow, Knows
    <2>5. Onward(p, q, x)
      BY <1>1, <2>1 DEF Onward, Pends
    <2> QED BY <1>1, <1>2, <2>1, <2>2, <2>3, <2>4, <2>5 DEF Turned, New
  <1>3. CASE more
    <2>1. Put(p, [q EXCEPT !.pc = "grant manage"])
      BY <1>1, <1>3 DEF ApplyRoleGrants
    <2>2. q.role \in Managers
      BY <1>3 DEF RoleTemplate
    <2> QED BY <1>2, <2>1, <2>2
  <1>4. CASE ~more /\ q.then = "channel"
    <2>p. PICK x : x = DefaultChannelOf(q)
      OBVIOUS
    <2>1. Put(p, x)
      BY <1>1, <1>4, <2>p DEF ApplyRoleGrants
    <2>2. q.actor \in Nat /\ q.org \in Nat /\ q.resolving /\ q.user = p.user /\ settings.org # None
          /\ (q.role = "owner" => q.user = settings.firstUser) /\ Arrived(p)'
      BY <1>0, <1>1, <1>4 DEF OldRow, Shape, Backed, Arrived
    <2>3. Calmed => /\ CalmKept /\ Housed /\ q.org \in orgs'
                    /\ actorOf'[q.user] = [actor |-> q.actor, org |-> q.org]
      BY <1>0, <1>1, <2>2 DEF OldRow, Knows
    <2>4. Based(p, q)
      BY <1>1, <2>2 DEF Based
    <2>5. New(p, x)
      BY <1>1, <2>2, <2>3, <2>4, <2>p, ChannelIsNew
    <2> QED BY <2>1, <2>5 DEF Turned
  <1>5. CASE ~more /\ q.then # "channel"
    <2>1. Put(p, [q EXCEPT !.pc = q.then]) /\ q.then \in {"end", "probe"}
      BY <1>1, <1>5 DEF ApplyRoleGrants, Row
    <2> QED BY <1>2, <2>1
  <1> QED BY <1>3, <1>4, <1>5

LEMMA CreateChannelTurns ==
  ASSUME Inv, Step, NEW p \in DOMAIN proc, CreateDefaultChannel(p)
  PROVE  Turned(p)
  <1>0. PICK q : OldRow(p, q)
    BY RowIs
  <1>1. q.pc = "createChannel" /\ q \in Row /\ q = proc[p] /\ Put(p, [q EXCEPT !.pc = "end"])
    BY <1>0 DEF OldRow, CreateDefaultChannel
  <1>2. New(p, [q EXCEPT !.pc = "end"])
    BY <1>0, <1>1, EndIsNew DEF OldRow
  <1> QED BY <1>1, <1>2 DEF Turned

LEMMA RequestTurns ==
  ASSUME Inv, Step, NEW p \in DOMAIN proc, Request(p)
  PROVE  Turned(p) \/ Fewer
  BY CreateBootTurns, RevokeTurns, GrantTurns, CreateChannelTurns, Thrown
     DEF Request, Refused, AnswerLost

LEMMA HandleTurns ==
  ASSUME Inv, Step, NEW c \in DOMAIN proc, Handle(c)
  PROVE  Turned(c)
  <1>0. PICK q : OldRow(c, q)
    BY RowIs
  <1>1. /\ q \in Row /\ q = proc[c] /\ q.pc = "principal" /\ Shape(c, q) /\ Sound(c)
        /\ c.op # "invite" /\ settings' = settings /\ AppOK /\ invites' = invites
    BY <1>0, RowIs DEF OldRow, Shape, Handle, appDb
  <1>2. ASSUME NEW v \in {"list", "check", "act", "newChannel"}, Put(c, [q EXCEPT !.pc = v]),
               v \in {"check", "act"} => c.op \in {"role", "resolve"},
               v = "newChannel" => c.op = "propose", c.op # "accept"
        PROVE  Turned(c)
    <2>1. New(c, [q EXCEPT !.pc = v])
      BY <1>0, <1>1, <1>2, PrincipalIsNew DEF OldRow
    <2> QED BY <1>2, <2>1 DEF Turned
  <1>3. CASE c.op = "bootstrap"
    <2>1. Put(c, [q EXCEPT !.pc = "list"])
      BY <1>1, <1>3 DEF Handle
    <2> QED BY <1>2, <1>3, <2>1
  <1>4. CASE c.op \in {"role", "resolve"}
    <2>1. Put(c, [q EXCEPT !.pc = "act"]) \/ Put(c, [q EXCEPT !.pc = "check"])
      BY <1>1, <1>4 DEF Handle
    <2> QED BY <1>2, <1>4, <2>1
  <1>5. CASE c.op = "accept"
    <2>p. PICK r, x : r = invites[c.on].role /\ x = ReconcileUserRole(q, r, "end")
      OBVIOUS
    <2>1. Put(c, x)
      BY <1>1, <1>5, <2>p DEF Handle
    <2>2. c.on \in DOMAIN invites /\ Arrived(c)'
      BY <1>0, <1>1, <1>5 DEF OldRow, Backed, Arrived
    <2>3. r \in Roles /\ r # "owner"
      BY <1>1, <2>2, <2>p DEF AppOK, Invite, Roles, Grantable
    <2>4. q.actor \in Nat /\ q.org \in Nat /\ ~q.resolving /\ settings.org # None /\ q.need = None
      BY <1>0, <1>1 DEF OldRow, Shape, Backed
    <2>5. Calmed => /\ CalmKept /\ Housed /\ q.org \in orgs'
                    /\ actorOf'[q.user] = [actor |-> q.actor, org |-> q.org]
      BY <1>0, <1>1, <2>4, NamesAssumption DEF OldRow, Knows
    <2>6. Based(c, q) /\ q.user = c.user
      BY <1>1, <2>4 DEF Based, Shape
    <2>7. New(c, x)
      BY <1>1, <2>2, <2>3, <2>4, <2>5, <2>6, <2>p, ReconcileIsNew
    <2> QED BY <2>1, <2>7 DEF Turned
  <1>6. CASE c.op = "propose"
    <2>1. Put(c, [q EXCEPT !.pc = "newChannel"])
      BY <1>1, <1>6 DEF Handle
    <2> QED BY <1>2, <1>6, <2>1
  <1>7. CASE c.op = "decide"
    <2>1. PICK v \in {"approve", "deny"} : Put(c, [q EXCEPT !.pc = v, !.about = c.on])
      BY <1>1, <1>7 DEF Handle
    <2>2. New(c, [q EXCEPT !.pc = v, !.about = c.on])
      BY <1>0, <1>1, <1>7, AboutIsNew DEF OldRow
    <2> QED BY <2>1, <2>2 DEF Turned
  <1> QED BY <1>1, <1>3, <1>4, <1>5, <1>6, <1>7 DEF Sound

LEMMA ListTurns ==
  ASSUME Inv, Step, NEW c \in DOMAIN proc, ListChannels(c)
  PROVE  Turned(c)
  <1>0. PICK q : OldRow(c, q)
    BY RowIs
  <1>1. /\ q \in Row /\ q = proc[c] /\ q.pc = "list" /\ Shape(c, q) /\ Sound(c)
        /\ c.op # "invite" /\ settings' = settings /\ AppOK
    BY <1>0, RowIs DEF OldRow, Shape, ListChannels, appDb
  <1>p. PICK y, x : y = [q EXCEPT !.org = settings.org] /\ x = DefaultChannelOf(y)
    OBVIOUS
  <1>2. CASE Put(c, [q EXCEPT !.pc = "end"])
    <2>1. New(c, [q EXCEPT !.pc = "end"])
      BY <1>0, <1>1, EndIsNew DEF OldRow
    <2> QED BY <1>2, <2>1 DEF Turned
  <1>3. CASE Put(c, x)
    <2>1. /\ q.actor \in Nat /\ ~q.resolving /\ q.then = "end" /\ settings.org \in Nat
          /\ settings.org # None /\ (q.role = "owner" => q.user = settings.firstUser)
          /\ Arrived(c)'
      BY <1>0, <1>1 DEF OldRow, Shape, Backed, AppOK, Settings, Id, Arrived
    <2>2. /\ y \in Row /\ y.actor = q.actor /\ y.org = settings.org /\ y.resolving = q.resolving
          /\ y.then = q.then /\ y.role = q.role /\ y.user = q.user
      BY <1>1, <1>p, <2>1 DEF Row, Id
    <2>3. Based(c, y)
      BY <1>1, <2>1, <2>2 DEF Based
    <2>4. Calmed => CalmKept /\ Housed /\ y.org \in orgs'
      BY <1>0, <2>1, <2>2 DEF OldRow, Housed, CalmKept
    <2>5. New(c, x)
      BY <1>1, <1>p, <2>1, <2>2, <2>3, <2>4, ChannelIsNew
    <2> QED BY <1>3, <2>5 DEF Turned
  <1> QED BY <1>1, <1>2, <1>3, <1>p DEF ListChannels

LEMMA SetRoleTurns ==
  ASSUME Inv, Step, NEW c \in DOMAIN proc, SetActorRole(c)
  PROVE  Turned(c)
  <1>0. PICK q : OldRow(c, q)
    BY RowIs
  <1>1. /\ q \in Row /\ q = proc[c] /\ q.pc = "act" /\ Shape(c, q) /\ Sound(c) /\ c.op = "role"
        /\ settings' = settings /\ AppOK /\ Owners /\ c.on \in Users
    BY <1>0, RowIs DEF OldRow, Shape, SetActorRole, appDb, Sound, Inv
  <1>p. PICK m, y, x : /\ m = actorOf[c.on]
                       /\ y = [q EXCEPT !.user = c.on, !.actor = m.actor, !.org = m.org]
                       /\ x = ReconcileUserRole(y, c.arg, "end")
    OBVIOUS
  <1>2. CASE m = None
    <2>1. Put(c, [q EXCEPT !.pc = "end"])
      BY <1>1, <1>2, <1>p DEF SetActorRole
    <2>2. New(c, [q EXCEPT !.pc = "end"])
      BY <1>0, <1>1, EndIsNew DEF OldRow
    <2> QED BY <2>1, <2>2 DEF Turned
  <1>3. CASE m # None
    <2>1. Put(c, x)
      BY <1>1, <1>3, <1>p DEF SetActorRole
    <2>2. /\ m \in Mapped /\ settings.org # None /\ c.arg \in Roles /\ c.arg # "owner"
          /\ ~q.resolving /\ Arrived(c)'
      BY <1>0, <1>1, <1>3, <1>p DEF OldRow, AppOK, Owners, Sound, Roles, Grantable, Shape, Backed,
                                    Arrived
    <2>3. y \in Row /\ y.user = c.on /\ y.actor = m.actor /\ y.org = m.org /\ ~y.resolving
      BY <1>1, <1>p, <2>2 DEF Row, Id, Mapped
    <2>4. Based(c, y)
      BY <1>1, <2>2, <2>3 DEF Based, Mapped
    <2>5. Calmed => /\ CalmKept /\ Housed /\ y.org \in orgs'
                    /\ actorOf'[y.user] = [actor |-> y.actor, org |-> y.org]
      <3>1. m = [actor |-> m.actor, org |-> m.org]
        BY <2>2 DEF Mapped
      <3>2. Calmed => m.org \in orgs
        BY <1>1, <1>3, <1>p DEF Calmed, Known, Placed
      <3> QED BY <1>0, <1>1, <1>3, <1>p, <2>3, <3>1, <3>2 DEF OldRow, CalmKept
    <2>6. New(c, x)
      BY <1>1, <1>p, <2>2, <2>3, <2>4, <2>5, ReconcileIsNew
    <2> QED BY <2>1, <2>6 DEF Turned
  <1> QED BY <1>2, <1>3

LEMMA ResolveTurns ==
  ASSUME Inv, Step, NEW c \in DOMAIN proc, ResolveJoin(c)
  PROVE  Turned(c)
  <1>0. PICK q : OldRow(c, q)
    BY RowIs
  <1>1. /\ q \in Row /\ q = proc[c] /\ q.pc = "act" /\ Shape(c, q) /\ Sound(c) /\ c.op = "resolve"
        /\ AppOK
    BY <1>0, RowIs DEF OldRow, Shape, ResolveJoin
  <1>p. PICK n, x : n = joins[c.on].name /\ x = [q EXCEPT !.pc = "createAgent", !.name = n]
    OBVIOUS
  <1>2. CASE Put(c, [q EXCEPT !.pc = "end"])
    <2>1. New(c, [q EXCEPT !.pc = "end"])
      BY <1>0, <1>1, EndIsNew DEF OldRow
    <2> QED BY <1>2, <2>1 DEF Turned
  <1>3. CASE Put(c, x) /\ joins' = joins
    <2>1. n \in Programs
      <3>1. c.on \in DOMAIN joins /\ joins \in Seq(Join)
        BY <1>0, <1>1 DEF OldRow, Backed, AppOK
      <3>2. joins[c.on] \in Join
        BY <3>1
      <3> QED BY <1>p, <3>2 DEF Join
    <2>2. /\ x \in Row /\ x.pc = "createAgent" /\ x.resolving = q.resolving /\ x.user = q.user
          /\ x.name = n /\ x.actor = q.actor /\ x.org = q.org /\ x.role = q.role
          /\ x.need = q.need /\ x.then = q.then
      BY <1>1, <1>p, <2>1 DEF Row, Pcs, Names
    <2>3. Shape(c, x)
      BY <1>1, <2>2 DEF Shape
    <2>4. Backed(c, x)'
      BY <1>0, <1>1, <1>3, <1>p, <2>2 DEF OldRow, Backed
    <2>5. Calmed => Knows(c, x)'
      BY <1>0, <1>1, <2>2 DEF OldRow, Knows
    <2>6. Onward(c, q, x)
      BY <1>1, <2>2 DEF Onward, Pends
    <2> QED BY <1>1, <1>3, <2>2, <2>3, <2>4, <2>5, <2>6 DEF Turned, New
  <1> QED BY <1>1, <1>2, <1>3, <1>p DEF ResolveJoin

LEMMA CallTurns ==
  ASSUME Inv, Step, NEW c \in DOMAIN proc, CallStep(c)
  PROVE  Turned(c) \/ Fewer
  <1>0. PICK q : OldRow(c, q)
    BY RowIs
  <1>1. q \in Row /\ q = proc[c]
    BY <1>0 DEF OldRow
  <1>2. CASE CheckCapability(c)
    <2>1. q.pc = "check" /\ (Put(c, [q EXCEPT !.pc = "end"]) \/ Put(c, [q EXCEPT !.pc = "act"]))
      BY <1>1, <1>2 DEF CheckCapability
    <2>2. New(c, [q EXCEPT !.pc = "end"])
      BY <1>0, <1>1, <2>1, EndIsNew DEF OldRow
    <2>3. New(c, [q EXCEPT !.pc = "act"])
      BY <1>0, <1>1, <2>1, PrincipalIsNew DEF OldRow, Shape
    <2> QED BY <2>1, <2>2, <2>3 DEF Turned
  <1>3. CASE CreateAgentActor(c)
    <2>1. q.pc = "createAgent" /\ Put(c, [q EXCEPT !.pc = "end"])
      BY <1>1, <1>3 DEF CreateAgentActor
    <2>2. New(c, [q EXCEPT !.pc = "end"])
      BY <1>0, <1>1, <2>1, EndIsNew DEF OldRow
    <2> QED BY <2>1, <2>2 DEF Turned
  <1>4. CASE Answer(c)
    BY <1>4 DEF Answer, Fewer, Restrict
  <1>5. CASE NewChannel(c)
    <2>1. /\ q.pc = "newChannel" /\ c.op = "propose"
          /\ \/ Put(c, [q EXCEPT !.pc = "end"]) \/ Put(c, [q EXCEPT !.pc = "ask"]) \/ Throw(c)
      BY <1>0, <1>1, <1>5 DEF NewChannel, OldRow, Shape
    <2>2. New(c, [q EXCEPT !.pc = "end"])
      BY <1>0, <1>1, <2>1, EndIsNew DEF OldRow
    <2>3. New(c, [q EXCEPT !.pc = "ask"])
      BY <1>0, <1>1, <2>1, PrincipalIsNew DEF OldRow
    <2> QED BY <2>1, <2>2, <2>3, Thrown DEF Turned
  <1>6. CASE CreatePermissionRequest(c) \/ ResolvePermissionRequest(c)
    <2>1. q.pc \in {"ask", "approve", "deny"} /\ Put(c, [q EXCEPT !.pc = "end"])
      BY <1>1, <1>6 DEF CreatePermissionRequest, ResolvePermissionRequest
    <2>2. New(c, [q EXCEPT !.pc = "end"])
      BY <1>0, <1>1, <2>1, EndIsNew DEF OldRow
    <2> QED BY <2>1, <2>2 DEF Turned
  <1> QED BY <1>2, <1>3, <1>4, <1>5, <1>6, HandleTurns, ListTurns, SetRoleTurns, ResolveTurns
          DEF CallStep

(***************************************************************************)
(* All the rows.                                                           *)
(***************************************************************************)
\* The rows but for one: those that changed resolve nothing.
Rested ==
  \A c \in DOMAIN proc' :
    \/ c \in DOMAIN proc /\ proc'[c] = proc[c]
    \/ \E x : /\ x = proc'[c] /\ New(c, x) /\ ~x.resolving
              /\ c \notin DOMAIN proc => x.pc = "ensure"

LEMMA FewerRests ==
  ASSUME Fewer
  PROVE  Rested
  BY DEF Fewer, Rested

LEMMA SettleRests ==
  ASSUME Inv, Step, NEW p \in DOMAIN proc, Settle(p)
  PROVE  Rested
  <1>0. PICK q : OldRow(p, q)
    BY RowIs
  <1>1. /\ q \in Row /\ q = proc[p] /\ q.pc = "end" /\ Shape(p, q) /\ q.resolving
        /\ p.user \in Users
    BY <1>0 DEF OldRow, Settle, Shape, Sound
  <1>p. PICK x : x = [Call(p.user) EXCEPT !.pc = "principal", !.actor = q.actor, !.org = q.org,
                                          !.role = q.role]
    OBVIOUS
  <1>2. q.actor \in Nat /\ q.org \in Nat /\ q.user = p.user /\ q.role \in Roles \cup {None}
    BY <1>1 DEF Shape, Row
  <1>3. /\ x \in Row /\ x.pc = "principal" /\ x.resolving = FALSE /\ x.user = p.user
        /\ x.actor = q.actor /\ x.org = q.org /\ x.role = q.role /\ x.need = None
        /\ x.then = "end"
    BY <1>1, <1>2, <1>p DEF Call, Row, Pcs, Names, Id
  <1>4. ASSUME NEW c \in DOMAIN proc, c \in Awaiting(p.user) \cup {p}  PROVE New(c, x)
    <2>0. PICK o : OldRow(c, o)
      BY RowIs
    <2>1. Sound(c) /\ c.op # "invite" /\ c.user = p.user
      BY <1>4, RowIs DEF Awaiting
    <2>2. Shape(c, x)
      BY <1>1, <1>2, <1>3, <2>1, NamesAssumption DEF Shape
    <2>3. Backed(c, x)'
      BY <1>0, <1>1, <1>2, <1>3, <2>0 DEF OldRow, Backed
    <2>4. Calmed => Knows(c, x)'
      BY <1>0, <1>1, <1>2, <1>3 DEF OldRow, Knows
    <2>5. Onward(c, o, x)
      BY <1>1, <1>3, <1>4, <2>0 DEF Onward, Pends, OldRow, Awaiting
    <2> QED BY <1>3, <2>0, <2>2, <2>3, <2>4, <2>5 DEF New, OldRow
  <1>5. /\ DOMAIN proc' = DOMAIN proc
        /\ \A c \in DOMAIN proc : proc'[c] = IF c \in Awaiting(p.user) \cup {p} THEN x ELSE proc[c]
    BY <1>1, <1>p DEF Settle
  <1> QED BY <1>3, <1>4, <1>5 DEF Rested

LEMMA StartRests ==
  ASSUME Inv, Step, NEW c \in waiting, AcceptInvite(c) \/ RequirePrincipal(c)
  PROVE  Rested
  <1>1. Sound(c) /\ c \notin DOMAIN proc /\ c.user \in Users /\ AppKept
    BY AppStep DEF Inv, Arriving, Sound
  <1>2. CASE UNCHANGED proc
    BY <1>2 DEF Rested
  <1>3. CASE proc' = With(proc, c, Call(c.user))
    <2>1. c.op # "invite" /\ Arrived(c)'
      <3>1. Arrived(c) /\ c.op # "invite"
        BY DEF AcceptInvite, RequirePrincipal, Arrived
      <3> QED BY <1>1, <3>1 DEF AppKept, Grows, Arrived
    <2>p. PICK x : x = Call(c.user)
      OBVIOUS
    <2>2. /\ x \in Row /\ x.pc = "ensure" /\ x.resolving = FALSE /\ x.role = None
          /\ x.then = "end" /\ x.need = None
      BY <1>1, <2>p, CallIs DEF Call
    <2>3. Shape(c, x)
      BY <1>1, <2>1, <2>2, <2>p, NamesAssumption DEF Shape
    <2>4. Backed(c, x)'
      BY <2>1, <2>2, NamesAssumption DEF Backed, Arrived, Roles
    <2>5. Knows(c, x)'
      BY <2>2 DEF Knows
    <2>6. New(c, x)
      BY <1>1, <2>2, <2>3, <2>4, <2>5 DEF New
    <2>7. /\ DOMAIN proc' = DOMAIN proc \cup {c} /\ proc'[c] = x
          /\ \A d \in DOMAIN proc : proc'[d] = proc[d]
      BY <1>1, <1>3, <2>p DEF With
    <2> QED BY <2>2, <2>6, <2>7 DEF Rested
  <1> QED BY <1>2, <1>3 DEF AcceptInvite, RequirePrincipal

LEMMA RowsTurn ==
  ASSUME Inv, Step
  PROVE  Rested \/ \E p \in DOMAIN proc : Turned(p)
  <1>1. CASE \E c \in DOMAIN proc : Resolution(c)
    BY <1>1, EnsureTurns, ProbeTurns, CreateOrgTurns, CreateActorTurns, SettleRests, FewerRests
       DEF Resolution
  <1>2. CASE \E c \in DOMAIN proc : Request(c)
    BY <1>2, RequestTurns, FewerRests
  <1>3. CASE \E c \in DOMAIN proc : CallStep(c)
    BY <1>3, CallTurns, FewerRests
  <1>4. CASE \E c \in waiting : SendInvite(c) \/ AcceptInvite(c) \/ RequirePrincipal(c)
    BY <1>4, StartRests DEF SendInvite, Rested
  <1>5. CASE \E a : BootstrapAgent(a) \/ AgentStops(a)
    <2>1. UNCHANGED proc
      BY <1>5 DEF BootstrapAgent, ResolveWorkspace, ActorIsLive, AskToJoin, WaitForJoinApproval,
                  AgentStops
    <2> QED BY <2>1 DEF Rested
  <1>6. CASE AppRestart \/ ServerRestart
    BY <1>6 DEF AppRestart, ServerRestart, Rested
  <1> QED BY <1>1, <1>2, <1>3, <1>4, <1>5, <1>6
          DEF Step, PoetBootstrap, WeatherBootstrap, AssistantBootstrap, CursorBootstrap

LEMMA RowsStep ==
  ASSUME Inv, Step
  PROVE  Rows'
  <1> SUFFICES ASSUME NEW c \in DOMAIN proc'
               PROVE  Shape(c, proc[c])' /\ Backed(c, proc[c])'
    BY DEF Rows
  <1> DEFINE Fits == \E x : x = proc'[c] /\ Shape(c, x) /\ Backed(c, x)'
  <1>1. c \in DOMAIN proc /\ proc'[c] = proc[c] => Fits
    BY RowIs DEF OldRow
  <1>2. (\E x : x = proc'[c] /\ New(c, x)) => Fits
    BY DEF New
  <1>3. ASSUME \E p \in DOMAIN proc : Turned(p)  PROVE Fits
    <2> PICK p \in DOMAIN proc : Turned(p)
      BY <1>3
    <2>1. PICK x : Put(p, x) /\ New(p, x)
      BY DEF Turned
    <2>2. c \in DOMAIN proc /\ (c = p => proc'[c] = x) /\ (c # p => proc'[c] = proc[c])
      BY <2>1 DEF Put
    <2> QED BY <1>1, <1>2, <2>1, <2>2
  <1>4. Fits
    BY <1>1, <1>2, <1>3, RowsTurn DEF Rested
  <1> HIDE DEF Fits
  <1>5. PICK x : x = proc'[c] /\ Shape(c, x) /\ Backed(c, x)'
    BY <1>4 DEF Fits
  <1>6. Shape(c, proc[c])'
    BY <1>5 DEF Shape
  <1>7. Backed(c, proc[c])'
    BY <1>5 DEF Backed
  <1> QED BY <1>6, <1>7

LEMMA SingleStep ==
  ASSUME Inv, Single, Step
  PROVE  Single'
  <1> SUFFICES ASSUME NEW c \in DOMAIN proc', NEW d \in DOMAIN proc', c # d, c.user = d.user,
                      proc'[c].resolving, proc'[d].resolving
               PROVE  FALSE
    BY DEF Single
  <1>1. CASE Rested
    BY <1>1 DEF Rested, Single
  <1>2. CASE \E p \in DOMAIN proc : Turned(p)
    <2> PICK p \in DOMAIN proc : Turned(p)
      BY <1>2
    <2>1. PICK x : Put(p, x) /\ New(p, x)
      BY DEF Turned
    <2>2. /\ c \in DOMAIN proc /\ d \in DOMAIN proc /\ proc'[p] = x
          /\ (c # p => proc'[c] = proc[c]) /\ (d # p => proc'[d] = proc[d])
      BY <2>1 DEF Put
    <2>3. x.resolving => proc[p].resolving \/ ~InFlight(p.user)
      BY <2>1 DEF New
    <2> QED BY <2>2, <2>3 DEF Single, InFlight
  <1> QED BY <1>1, <1>2, RowsTurn

(***************************************************************************)
(* The owner, and who is let in.                                           *)
(***************************************************************************)
LEMMA ArrivingStep ==
  ASSUME Inv, Step
  PROVE  Arriving'
  <1>1. /\ waiting' \subseteq waiting
        /\ \A c \in waiting' : c \notin DOMAIN proc => c \notin DOMAIN proc'
    <2>1. CASE waiting' = waiting /\ DOMAIN proc' \subseteq DOMAIN proc
      BY <2>1
    <2>2. CASE \E c \in waiting : /\ waiting' = waiting \ {c}
                                  /\ DOMAIN proc' \subseteq DOMAIN proc \cup {c}
      BY <2>2
    <2>3. CASE \E c \in DOMAIN proc : Resolution(c) \/ Request(c) \/ CallStep(c)
      <3>1. waiting' = waiting
        BY <2>3 DEF Resolution, EnsureUserPrincipal, Probe, CreateOrg, CreateActor, Settle, Request,
                    Refused, CreateBootstrapActor, RevokeAllActorGrants, ApplyRoleGrants,
                    CreateDefaultChannel, AnswerLost, CallStep, Handle, CheckCapability,
                    ListChannels, SetActorRole, ResolveJoin, CreateAgentActor, Answer, NewChannel,
                CreatePermissionRequest, ResolvePermissionRequest
      <3>2. CASE \E c \in DOMAIN proc : Settle(c)
        BY <2>1, <3>1, <3>2 DEF Settle
      <3>3. CASE \E c \in DOMAIN proc : Turned(c)
        BY <2>1, <3>1, <3>3 DEF Turned, Put
      <3>4. CASE Fewer
        BY <2>1, <3>1, <3>4 DEF Fewer
      <3> QED BY <2>3, <3>2, <3>3, <3>4, EnsureTurns, ProbeTurns, CreateOrgTurns,
                 CreateActorTurns, RequestTurns, CallTurns DEF Resolution
    <2>4. CASE \E c \in waiting : SendInvite(c) \/ AcceptInvite(c) \/ RequirePrincipal(c)
      BY <2>2, <2>4 DEF SendInvite, AcceptInvite, RequirePrincipal, With
    <2>5. CASE \E a : BootstrapAgent(a) \/ AgentStops(a)
      BY <2>1, <2>5 DEF BootstrapAgent, ResolveWorkspace, ActorIsLive, AskToJoin,
                        WaitForJoinApproval, AgentStops
    <2>6. CASE AppRestart \/ ServerRestart
      BY <2>1, <2>6 DEF AppRestart, ServerRestart
    <2> QED BY <2>3, <2>4, <2>5, <2>6
            DEF Step, PoetBootstrap, WeatherBootstrap, AssistantBootstrap, CursorBootstrap
  <1> QED BY <1>1 DEF Inv, Arriving, Sound

\* Roles are written for an invite or by a reconciliation.
LEMMA RolesWritten ==
  ASSUME Step
  PROVE  \/ roleOf' = roleOf
         \/ \E c \in waiting : AcceptInvite(c)
         \/ \E c \in DOMAIN proc : ApplyRoleGrants(c)
  <1>1. CASE \E c \in DOMAIN proc : Resolution(c)
    BY <1>1 DEF Resolution, EnsureUserPrincipal, Probe, CreateOrg, CreateActor, Settle, appDb
  <1>2. CASE \E c \in DOMAIN proc : Request(c)
    BY <1>2 DEF Request, Refused, CreateBootstrapActor, RevokeAllActorGrants,
                CreateDefaultChannel, AnswerLost, appDb
  <1>3. CASE \E c \in DOMAIN proc : CallStep(c)
    BY <1>3 DEF CallStep, Handle, CheckCapability, ListChannels, SetActorRole,
                ResolveJoin, CreateAgentActor, Answer, NewChannel,
                CreatePermissionRequest, ResolvePermissionRequest, appDb
  <1>4. CASE \E c \in waiting : SendInvite(c) \/ AcceptInvite(c) \/ RequirePrincipal(c)
    BY <1>4 DEF SendInvite, RequirePrincipal, appDb
  <1>5. CASE \E a : BootstrapAgent(a) \/ AgentStops(a)
    BY <1>5 DEF BootstrapAgent, ResolveWorkspace, ActorIsLive, AskToJoin,
                WaitForJoinApproval, AgentStops, appDb
  <1>6. CASE AppRestart \/ ServerRestart
    BY <1>6 DEF AppRestart, ServerRestart, appDb
  <1> QED BY <1>1, <1>2, <1>3, <1>4, <1>5, <1>6
          DEF Step, PoetBootstrap, WeatherBootstrap, AssistantBootstrap, CursorBootstrap

LEMMA OwnersStep ==
  ASSUME Inv, Step
  PROVE  Owners'
  <1>1. AppOK /\ AppOK' /\ Grows /\ Owners
    BY AppStep DEF Inv, TypeOK, AppKept
  <1> SUFFICES ASSUME NEW u \in Users
               PROVE  /\ roleOf'[u] = "owner" => u = settings'.firstUser
                      /\ actorOf'[u] # None => May(u)' /\ settings'.org # None
    BY DEF Owners, May, HasConsumedInvite
  <1>2. roleOf'[u] = "owner" => u = settings.firstUser
    <2>1. CASE roleOf' = roleOf
      BY <1>1, <2>1 DEF Owners
    <2>2. ASSUME NEW c \in waiting, AcceptInvite(c)
          PROVE  roleOf'[u] = "owner" => u = settings.firstUser
      <3>1. CASE roleOf' = roleOf
        BY <1>1, <3>1 DEF Owners
      <3>2. CASE c.on \in DOMAIN invites /\ roleOf' = [roleOf EXCEPT ![c.user] = invites[c.on].role]
        <4>1. invites[c.on].role # "owner"
          BY <1>1, <3>2 DEF AppOK, Invite, Grantable
        <4> QED BY <1>1, <3>2, <4>1 DEF Owners, AppOK
      <3> QED BY <2>2, <3>1, <3>2 DEF AcceptInvite
    <2>3. ASSUME NEW c \in DOMAIN proc, ApplyRoleGrants(c)
          PROVE  roleOf'[u] = "owner" => u = settings.firstUser
      <3>1. CASE roleOf' = roleOf
        BY <1>1, <3>1 DEF Owners
      <3>2. CASE roleOf' = [roleOf EXCEPT ![proc[c].user] = proc[c].role]
        <4>1. proc[c].role = "owner" => proc[c].user = settings.firstUser
          BY DEF Inv, Rows, Backed
        <4> QED BY <1>1, <3>2, <4>1 DEF Owners, AppOK
      <3> QED BY <2>3, <3>1, <3>2 DEF ApplyRoleGrants
    <2> QED BY <2>1, <2>2, <2>3, RolesWritten
  <1>3. u = settings.firstUser => u = settings'.firstUser
    BY <1>1, NamesAssumption DEF Grows
  <1>4. actorOf'[u] # None => May(u) /\ settings.org # None
    <2>1. CASE actorOf'[u] = actorOf[u]
      BY <1>1, <2>1 DEF Owners
    <2>2. ASSUME NEW c \in DOMAIN proc, CreateActor(c), c.user = u
          PROVE  May(u) /\ settings.org # None
      <3>1. Backed(c, proc[c]) /\ proc[c].pc = "createActor"
        BY <2>2 DEF Inv, Rows, CreateActor
      <3> QED BY <2>2, <3>1 DEF Backed
    <2>3. ASSUME NEW c \in DOMAIN proc, CreateActor(c), c.user # u
          PROVE  actorOf'[u] = actorOf[u]
      BY <1>1, <2>3 DEF CreateActor, AppOK
    <2> QED BY <2>1, <2>2, <2>3, ActorsWritten
  <1>5. May(u) => May(u)'
    BY <1>1, MayStays
  <1> QED BY <1>1, <1>2, <1>3, <1>4, <1>5 DEF Grows

LEMMA InvStep ==
  ASSUME Inv, Step
  PROVE  Inv'
  BY TypesStep, ArrivingStep, RowsStep, OwnersStep DEF Inv

LEMMA InvStays ==
  ASSUME Inv, [Next]_vars
  PROVE  Inv'
  <1>1. CASE Step
    BY <1>1, InvStep
  <1>2. CASE UNCHANGED vars
    <2>1. UNCHANGED <<orgs, actors, grants, channels, requests, minted, settings, actorOf, roleOf, invites,
                      joins, proc, waiting, agent, left>>
      BY <1>2 DEF vars, server, appDb
    <2>2. TypeOK'
      BY <2>1 DEF Inv, TypeOK, ServerOK, AppOK, AgentsOK, AgentOK, LeftOK
    <2>3. Arriving'
      BY <2>1 DEF Inv, Arriving, Sound
    <2>4. Rows'
      <3> SUFFICES ASSUME NEW c \in DOMAIN proc
                   PROVE  Shape(c, proc[c])' /\ Backed(c, proc[c])'
        BY <2>1 DEF Rows
      <3> PICK q : q = proc[c] /\ Shape(c, q) /\ Backed(c, q)
        BY DEF Inv, Rows
      <3>1. Shape(c, proc[c])'
        BY <2>1 DEF Shape
      <3>2. Backed(c, proc[c])'
        BY <2>1 DEF Backed, May, HasConsumedInvite
      <3> QED BY <3>1, <3>2
    <2>5. Owners'
      BY <2>1 DEF Inv, Owners, May, HasConsumedInvite
    <2> QED BY <2>2, <2>3, <2>4, <2>5 DEF Inv
  <1> QED BY <1>1, <1>2 DEF Next

LEMMA InvInit ==
  ASSUME Init
  PROVE  Inv
  <1>1. PICK s \in Starts :
          LET o == s.owner
              open == o # None
          IN /\ orgs = IF open THEN {1} ELSE {}
             /\ actors = [a \in IF open THEN {2, 3} ELSE {} |->
                           [org |-> 1, kind |-> IF a = 2 THEN "human" ELSE "app",
                            name |-> IF a = 2 THEN o ELSE "bootstrap"]]
             /\ grants = IF open THEN {2} \X {"write", "manage"} ELSE {}
             /\ minted = IF open THEN 4 ELSE 0
             /\ settings = IF open THEN [firstUser |-> o, org |-> 1, channel |-> 4,
                                         bootActor |-> 3, bootOrg |-> 1]
                           ELSE NewWorkspace
             /\ actorOf = [u \in Users |-> IF u = o THEN [actor |-> 2, org |-> 1] ELSE None]
             /\ roleOf = [u \in Users |-> IF u = o THEN "owner" ELSE None]
             /\ agent = [a \in Programs |->
                          [pc |-> "off", state |-> None, ticket |-> None, org |-> None,
                           boots |-> IF a = s.agent THEN s.boots ELSE 0]]
             /\ waiting = s.calls
             /\ left = [faults |-> s.faults, wipes |-> s.wipes, wiped |-> FALSE]
    BY DEF Init
  <1> PICK o : o = s.owner
    OBVIOUS
  <1>2. invites = <<>> /\ joins = <<>> /\ proc = <<>> /\ requests \in Seq(Asking)
    BY DEF Init
  <1>3. /\ o \in Users \cup {None} /\ s.boots \in Nat /\ s.faults \in Nat /\ s.wipes \in BOOLEAN
        /\ \A c \in s.calls : Sound(c)
    BY StartsAssumption DEF Sound
  <1>4. ServerOK
    <2>1. CASE o = None
      BY <1>1, <1>2, <2>1 DEF ServerOK
    <2>2. CASE o # None
      <3>1. minted = 4 /\ orgs = {1} /\ grants = {2} \X {"write", "manage"}
            /\ DOMAIN actors = {2, 3} /\ actors[2].org = 1 /\ actors[3].org = 1
        BY <1>1, <2>2
      <3> QED BY <1>2, <3>1 DEF ServerOK
    <2> QED BY <2>1, <2>2
  <1>5. settings \in Settings /\ (o # None => settings.firstUser = o /\ settings.org = 1)
    <2>1. CASE o = None
      BY <1>1, <2>1 DEF Settings, NewWorkspace, Id
    <2>2. CASE o # None
      BY <1>1, <1>3, <2>2 DEF Settings, Id
    <2> QED BY <2>1, <2>2
  <1>6. actorOf \in [Users -> Mapped \cup {None}] /\ \A u \in Users : actorOf[u] # None => u = o
    BY <1>1 DEF Mapped
  <1>7. roleOf \in [Users -> Roles \cup {None}] /\ \A u \in Users : roleOf[u] = "owner" => u = o
    BY <1>1, NamesAssumption DEF Roles
  <1>8. joins \in Seq(Join) /\ DOMAIN joins = {} /\ DOMAIN invites = {} /\ DOMAIN proc = {}
    BY <1>2
  <1>9. agent \in [Programs -> Agent] /\ \A a \in Programs : AgentOK(agent[a])
    BY <1>1, <1>3 DEF Agent, AgentOK, Id
  <1>10. LeftOK
    BY <1>1, <1>3 DEF LeftOK
  <1>11. TypeOK
    BY <1>4, <1>5, <1>6, <1>7, <1>8, <1>9, <1>10 DEF TypeOK, AppOK, AgentsOK
  <1>12. Arriving
    BY <1>1, <1>3, <1>8 DEF Arriving
  <1>13. Rows
    BY <1>8 DEF Rows
  <1>14. Owners
    <2>1. ASSUME NEW u \in Users, u = o  PROVE settings.firstUser = u /\ settings.org # None
      BY <1>5, <2>1, NamesAssumption
    <2> QED BY <1>6, <1>7, <2>1 DEF Owners, May
  <1> QED BY <1>11, <1>12, <1>13, <1>14 DEF Inv

\* The types of the variables, the shape of a call's row at each request it waits for,
\* and who is owner, let in and mapped: the inductive invariant, faults and all.
THEOREM WorkspaceInvariant == Spec => []Inv
  <1>1. Init => Inv
    BY InvInit
  <1>2. Inv /\ [Next]_vars => Inv'
    BY InvStays
  <1> QED BY <1>1, <1>2, PTL DEF Spec

(***************************************************************************)
(* The answers to join requests.                                           *)
(***************************************************************************)
Stands == \A n \in DOMAIN joins : joins[n].status # "open" => joins'[n] = joins[n]

LEMMA AskedStands ==
  ASSUME AppOK, NEW a, Asked(a)
  PROVE  Stands
  <1> PICK row : row = [name |-> a, org |-> settings.org, status |-> "open", actor |-> None]
    OBVIOUS
  <1>1. joins' = Append(joins, row) /\ joins \in Seq(Join)
    BY DEF Asked, AppOK
  <1>2. \A n \in DOMAIN joins : joins'[n] = joins[n]
    BY <1>1
  <1> QED BY <1>2 DEF Stands

LEMMA ResolvedStands ==
  ASSUME NEW n, NEW v, NEW a, ResolveAgentJoinRequest(n, v, a)
  PROVE  Stands
  <1>1. CASE joins[n].status = "open"
    <2>1. joins' = [joins EXCEPT ![n].status = v, ![n].actor = a]
      BY <1>1 DEF ResolveAgentJoinRequest
    <2>2. \A k \in DOMAIN joins : k # n => joins'[k] = joins[k]
      BY <2>1
    <2> QED BY <1>1, <2>2 DEF Stands
  <1>2. CASE joins[n].status # "open"
    BY <1>2 DEF ResolveAgentJoinRequest, Stands
  <1> QED BY <1>1, <1>2

LEMMA StandsStep ==
  ASSUME Inv, Step
  PROVE  Stands
  <1>1. CASE joins' = joins
    BY <1>1 DEF Stands
  <1>2. CASE \E n, v, a : ResolveAgentJoinRequest(n, v, a)
    BY <1>2, ResolvedStands
  <1>3. CASE \E a : Asked(a)
    BY <1>3, AskedStands DEF Inv, TypeOK
  <1>4. CASE \E c \in DOMAIN proc : Resolution(c) \/ Request(c) \/ CallStep(c)
    <2>1. ASSUME NEW c \in DOMAIN proc, Resolution(c) \/ Request(c)  PROVE joins' = joins
      BY <2>1 DEF Resolution, EnsureUserPrincipal, Probe, CreateOrg, CreateActor, Settle, Request,
                  Refused, CreateBootstrapActor, RevokeAllActorGrants, ApplyRoleGrants,
                  CreateDefaultChannel, AnswerLost, appDb
    <2>2. ASSUME NEW c \in DOMAIN proc, CallStep(c)
          PROVE  joins' = joins \/ \E n, v, a : ResolveAgentJoinRequest(n, v, a)
      BY <2>2 DEF CallStep, Handle, CheckCapability, ListChannels, SetActorRole, ResolveJoin,
                  CreateAgentActor, Answer, NewChannel, CreatePermissionRequest,
                  ResolvePermissionRequest, appDb
    <2> QED BY <1>1, <1>2, <1>4, <2>1, <2>2
  <1>5. CASE \E c \in waiting : SendInvite(c) \/ AcceptInvite(c) \/ RequirePrincipal(c)
    BY <1>1, <1>5 DEF SendInvite, AcceptInvite, RequirePrincipal, appDb
  <1>6. CASE \E a : BootstrapAgent(a) \/ AgentStops(a)
    BY <1>1, <1>3, <1>6 DEF BootstrapAgent, ResolveWorkspace, ActorIsLive, AskToJoin,
                            WaitForJoinApproval, AgentStops, appDb
  <1>7. CASE AppRestart \/ ServerRestart
    BY <1>1, <1>7 DEF AppRestart, ServerRestart, appDb
  <1> QED BY <1>4, <1>5, <1>6, <1>7
          DEF Step, PoetBootstrap, WeatherBootstrap, AssistantBootstrap, CursorBootstrap

\* The first answer to a join request stands, whatever a second administrator or an
\* approval that comes back late does (resolveAgentJoinRequest).
THEOREM AnswersStandForGood == Spec => AnsweredForGood
  <1>1. Inv /\ [Next]_vars =>
          [\A n \in DOMAIN joins : joins[n].status # "open" => joins'[n] = joins[n]]_joins
    <2>1. Inv /\ Step => Stands
      BY StandsStep
    <2>2. UNCHANGED vars => joins' = joins
      BY DEF vars, appDb
    <2> QED BY <2>1, <2>2 DEF Next, Stands
  <1> QED BY <1>1, WorkspaceInvariant, PTL DEF Spec, AnsweredForGood

(***************************************************************************)
(* One actor for each user, while nothing goes wrong.                      *)
(***************************************************************************)
\* The server makes an actor for the row of a call.
Made(f, q) ==
  /\ f = Fresh /\ q.pc \in {"createActor", "createAgent", "createBoot"}
  /\ actors' = With(actors, f, [org |-> q.org, kind |-> Kind(q.pc), name |-> q.name])

LEMMA MadeIs ==
  ASSUME Inv, NEW f, NEW q, Made(f, q)
  PROVE  /\ DOMAIN actors' = DOMAIN actors \cup {f} /\ f \notin DOMAIN actors
         /\ actors'[f].org = q.org /\ actors'[f].name = q.name
  <1> PICK v : v = [org |-> q.org, kind |-> Kind(q.pc), name |-> q.name]
    OBVIOUS
  <1>1. actors' = With(actors, f, v) /\ v.org = q.org /\ v.name = q.name
    BY DEF Made
  <1>2. f \notin DOMAIN actors
    BY FreshIs DEF Inv, TypeOK, Made
  <1> QED BY <1>1, <1>2 DEF With

\* Every new actor is that of a row, and that of a user is mapped in the same step.
LEMMA ActorsGrow ==
  ASSUME Inv, Step, Calmed
  PROVE  \/ actors' = actors
         \/ \E c \in DOMAIN proc : \E f :
              /\ Made(f, proc[c])
              /\ proc[c].pc = "createActor"
                   => actorOf' = [actorOf EXCEPT ![c.user] = [actor |-> f, org |-> proc[c].org]]
              /\ proc[c].pc = "createAgent" => CreateAgentActor(c)
  <1>1. ~ServerRestart /\ lost' = FALSE
    BY DEF Calmed, Calm, ServerRestart, Inv, TypeOK, LeftOK
  <1>2. ASSUME NEW c \in DOMAIN proc, Served(proc[c])
        PROVE  actors' = actors \/ Made(Fresh, proc[c])
    BY <1>2 DEF Served, Made
  <1>3. ASSUME NEW c \in DOMAIN proc, CreateActor(c)
        PROVE  \/ actors' = actors
               \/ /\ Made(Fresh, proc[c]) /\ proc[c].pc = "createActor"
                  /\ actorOf' = [actorOf EXCEPT ![c.user] = [actor |-> Fresh, org |-> proc[c].org]]
    BY <1>2, <1>3 DEF CreateActor, server
  <1>4. ASSUME NEW c \in DOMAIN proc, Resolution(c)
        PROVE  actors' = actors \/ CreateActor(c)
    BY <1>4 DEF Resolution, EnsureUserPrincipal, Probe, CreateOrg, Settle, server, Served
  <1>5. ASSUME NEW c \in DOMAIN proc, Request(c)
        PROVE  actors' = actors \/ (Made(Fresh, proc[c]) /\ proc[c].pc = "createBoot")
    <2>1. ~AnswerLost(c)
      BY <1>1 DEF AnswerLost
    <2> QED BY <1>2, <1>5, <2>1 DEF Request, Refused, CreateBootstrapActor, RevokeAllActorGrants,
                                    ApplyRoleGrants, CreateDefaultChannel, server, Made
  <1>6. ASSUME NEW c \in DOMAIN proc, CallStep(c)
        PROVE  \/ actors' = actors
               \/ Made(Fresh, proc[c]) /\ proc[c].pc # "createActor" /\ CreateAgentActor(c)
    BY <1>2, <1>6 DEF CallStep, Handle, CheckCapability, ListChannels, SetActorRole, ResolveJoin,
                CreateAgentActor, Answer, NewChannel, CreatePermissionRequest,
                ResolvePermissionRequest, server, Served
  <1>7. CASE \E c \in waiting : SendInvite(c) \/ AcceptInvite(c) \/ RequirePrincipal(c)
    BY <1>7 DEF SendInvite, AcceptInvite, RequirePrincipal, server
  <1>8. CASE \E a : BootstrapAgent(a) \/ AgentStops(a)
    BY <1>8 DEF BootstrapAgent, ResolveWorkspace, ActorIsLive, AskToJoin,
                WaitForJoinApproval, AgentStops, server
  <1>9. CASE AppRestart
    BY <1>9 DEF AppRestart, server
  <1> QED BY <1>1, <1>3, <1>4, <1>5, <1>6, <1>7, <1>8, <1>9
          DEF Step, PoetBootstrap, WeatherBootstrap, AssistantBootstrap, CursorBootstrap

LEMMA PlacedStep ==
  ASSUME Inv, Step, Calmed
  PROVE  Placed'
  <1>1. CalmKept /\ AppOK /\ Placed
    BY CalmStays DEF Inv, TypeOK, Calmed, Known
  <1> SUFFICES ASSUME NEW u \in Users, NEW m, m = actorOf'[u], m # None
               PROVE  /\ m.actor \in DOMAIN actors' /\ actors'[m.actor].org = m.org
                      /\ actors'[m.actor].name = u /\ m.org \in orgs'
    BY DEF Placed, AssertOrgActor
  <1>2. CASE actorOf'[u] = actorOf[u]
    BY <1>1, <1>2 DEF Placed, AssertOrgActor, CalmKept
  <1>3. CASE actorOf'[u] # actorOf[u]
    <2>1. PICK c \in DOMAIN proc : CreateActor(c)
      BY <1>3, ActorsWritten
    <2>2. PICK q : OldRow(c, q)
      BY RowIs
    <2>3. /\ q = proc[c] /\ q.pc = "createActor" /\ Accepted(q) /\ Served(q)
          /\ actorOf' = [actorOf EXCEPT ![c.user] = [actor |-> Fresh, org |-> q.org]]
      BY <1>3, <2>1, <2>2 DEF CreateActor, OldRow
    <2>4. c.user = u /\ m = [actor |-> Fresh, org |-> q.org] /\ q.name = u
      BY <1>1, <1>3, <2>2, <2>3 DEF AppOK, OldRow, Shape
    <2>5. PICK f : Made(f, q) /\ f = Fresh
      BY <2>3 DEF Made, Served
    <2>6. q.org \in orgs'
      BY <1>1, <2>2, <2>3 DEF OldRow, Knows, CalmKept
    <2>7. m.actor = f /\ m.org = q.org
      BY <2>4, <2>5
    <2>8. f \in DOMAIN actors' /\ actors'[f].org = q.org /\ actors'[f].name = q.name
      BY <2>5, MadeIs
    <2> QED BY <2>4, <2>6, <2>7, <2>8
  <1> QED BY <1>2, <1>3

LEMMA NamedStep ==
  ASSUME Inv, Step, Calmed
  PROVE  Named'
  <1>1. CalmKept /\ AppOK /\ Named
    BY CalmStays DEF Inv, TypeOK, Calmed, Known
  <1> SUFFICES ASSUME NEW a \in DOMAIN actors', NEW u \in Users, actors'[a].name = u
               PROVE  actorOf'[u] = [actor |-> a, org |-> actors'[a].org]
    BY DEF Named
  <1>2. CASE a \in DOMAIN actors
    <2>1. actors'[a] = actors[a]
      BY <1>1, <1>2 DEF CalmKept
    <2>2. actorOf[u] = [actor |-> a, org |-> actors[a].org]
      BY <1>1, <1>2, <2>1 DEF Named
    <2>3. a \in Nat /\ actors[a].org \in Nat
      BY <1>2 DEF Inv, TypeOK, ServerOK
    <2>4. actorOf[u] # None
      BY <2>2, <2>3, NamesAssumption
    <2> QED BY <1>1, <2>1, <2>2, <2>4 DEF CalmKept
  <1>3. CASE a \notin DOMAIN actors
    <2>0. PICK c \in DOMAIN proc :
            \E f :
              /\ Made(f, proc[c])
              /\ proc[c].pc = "createActor"
                   => actorOf' = [actorOf EXCEPT ![c.user] = [actor |-> f, org |-> proc[c].org]]
      BY <1>3, ActorsGrow
    <2>1. PICK f :
            /\ Made(f, proc[c])
            /\ proc[c].pc = "createActor"
                 => actorOf' = [actorOf EXCEPT ![c.user] = [actor |-> f, org |-> proc[c].org]]
      BY <2>0
    <2>2. a = f /\ actors'[a].org = proc[c].org /\ proc[c].name = u
      BY <1>3, <2>1, MadeIs
    <2>3. Shape(c, proc[c]) /\ Backed(c, proc[c]) /\ joins \in Seq(Join)
      BY DEF Inv, Rows, TypeOK, AppOK
    <2>4. proc[c].pc = "createActor" /\ c.user = u
      <3>1. proc[c].pc # "createBoot"
        BY <2>2, <2>3, NamesAssumption DEF Shape
      <3>2. proc[c].pc # "createAgent"
        <4>1. ASSUME proc[c].pc = "createAgent"  PROVE joins[c.on] \in Join
          BY <2>3, <4>1 DEF Shape, Backed
        <4> QED BY <2>2, <2>3, <4>1, NamesAssumption DEF Backed, Join
      <3>3. proc[c].pc = "createActor"
        BY <2>1, <3>1, <3>2 DEF Made
      <3> QED BY <2>2, <2>3, <3>3 DEF Shape
    <2> QED BY <1>1, <2>1, <2>2, <2>4 DEF AppOK
  <1> QED BY <1>2, <1>3

\* The organization and the system actor are written as they are made.
HousedAs ==
  /\ settings'.org = settings.org \/ settings'.org \in orgs'
  /\ \/ settings'.bootActor = settings.bootActor /\ settings'.bootOrg = settings.bootOrg
     \/ AssertOrgActor(settings.bootActor, settings.bootOrg)'

LEMMA JoinHouses ==
  ASSUME AppOK, NEW p, JoinWorkspace(p)
  PROVE  HousedAs
  BY DEF JoinWorkspace, AppOK, Settings, HousedAs

LEMMA HousedWritten ==
  ASSUME Inv, Step
  PROVE  HousedAs
  <1>1. AppOK
    BY DEF Inv, TypeOK
  <1>2. CASE settings' = settings
    BY <1>2 DEF HousedAs
  <1>3. ASSUME NEW c \in DOMAIN proc, CreateOrg(c)  PROVE HousedAs
    <2>1. settings' = [settings EXCEPT !.org = Fresh] /\ orgs' = orgs \cup {Fresh}
      BY <1>3 DEF CreateOrg, Served
    <2> QED BY <1>1, <2>1 DEF HousedAs, AppOK, Settings
  <1>4. ASSUME NEW c \in DOMAIN proc, CreateBootstrapActor(c)  PROVE HousedAs
    <2> PICK f, q : f = Fresh /\ q = proc[c]
      OBVIOUS
    <2>1. settings' = [settings EXCEPT !.bootActor = f, !.bootOrg = q.org] /\ Made(f, q)
      BY <1>4 DEF CreateBootstrapActor, Served, Made
    <2>2. /\ settings'.org = settings.org /\ settings'.bootActor = f
          /\ settings'.bootOrg = q.org
      BY <1>1, <2>1 DEF AppOK, Settings
    <2>3. f \in DOMAIN actors' /\ actors'[f].org = q.org
      BY <2>1, MadeIs
    <2> QED BY <2>2, <2>3 DEF HousedAs, AssertOrgActor
  <1>5. ASSUME NEW c \in DOMAIN proc, CreateDefaultChannel(c)  PROVE HousedAs
    BY <1>1, <1>5 DEF CreateDefaultChannel, HousedAs, AppOK, Settings
  <1>6. CASE \E c \in DOMAIN proc : Resolution(c)
    BY <1>1, <1>2, <1>3, <1>6, JoinHouses
       DEF Resolution, EnsureUserPrincipal, Probe, CreateActor, Settle, appDb
  <1>7. CASE \E c \in DOMAIN proc : Request(c)
    BY <1>2, <1>4, <1>5, <1>7
       DEF Request, Refused, RevokeAllActorGrants, ApplyRoleGrants, AnswerLost, appDb
  <1>8. CASE \E c \in DOMAIN proc : CallStep(c)
    BY <1>2, <1>8 DEF CallStep, Handle, CheckCapability, ListChannels, SetActorRole, ResolveJoin,
                      CreateAgentActor, Answer, NewChannel, CreatePermissionRequest,
                      ResolvePermissionRequest, appDb
  <1>9. CASE \E c \in waiting : SendInvite(c) \/ AcceptInvite(c) \/ RequirePrincipal(c)
    BY <1>2, <1>9 DEF SendInvite, AcceptInvite, RequirePrincipal, appDb
  <1>10. CASE \E a : BootstrapAgent(a) \/ AgentStops(a)
    BY <1>2, <1>10 DEF BootstrapAgent, ResolveWorkspace, ActorIsLive, AskToJoin,
                       WaitForJoinApproval, AgentStops, appDb
  <1>11. CASE AppRestart \/ ServerRestart
    BY <1>2, <1>11 DEF AppRestart, ServerRestart, appDb
  <1> QED BY <1>6, <1>7, <1>8, <1>9, <1>10, <1>11
          DEF Step, PoetBootstrap, WeatherBootstrap, AssistantBootstrap, CursorBootstrap

LEMMA HousedStep ==
  ASSUME Inv, Step, Calmed
  PROVE  Housed'
  <1>1. CalmKept /\ Housed /\ HousedAs
    BY CalmStays, HousedWritten DEF Calmed, Known
  <1>2. settings'.org # None => settings'.org \in orgs'
    BY <1>1 DEF HousedAs, Housed, CalmKept
  <1>3. settings'.bootActor # None => AssertOrgActor(settings.bootActor, settings.bootOrg)'
    BY <1>1 DEF HousedAs, Housed, CalmKept, AssertOrgActor
  <1> QED BY <1>2, <1>3 DEF Housed

LEMMA ActorMade ==
  ASSUME Inv, Step, NEW p \in DOMAIN proc, CreateActor(p), actorOf' # actorOf
  PROVE  \E x : /\ Put(p, x) /\ x.pc \in {"revoke", "createBoot"} /\ x.need = "grants"
                /\ x.user = p.user
  <1>1. PICK o : OldRow(p, o)
    BY RowIs
  <1>p. PICK y, r, x : /\ y = [o EXCEPT !.actor = Fresh] /\ r = DesiredRole(p.user)
                       /\ x = ReconcileUserRole(y, r, "channel")
    OBVIOUS
  <1>2. o \in Row /\ Fresh \in Nat /\ p.user \in Users /\ o.user = p.user
    <2>1. o \in Row /\ Shape(p, o) /\ o.pc = "createActor"
      BY <1>1 DEF OldRow, CreateActor
    <2> QED BY <2>1, FreshIs, RowIs DEF Inv, TypeOK, Sound, Shape
  <1>3. y \in Row /\ y.user = p.user
    BY <1>2, <1>p DEF Row, Id
  <1>4. r \in Roles /\ settings \in Settings
    BY <1>2, <1>p, RoleDesired DEF Inv, TypeOK, AppOK
  <1>5. x.pc \in {"revoke", "createBoot"} /\ x.need = "grants" /\ Follows(x, y)
    <2>1. RoleRow(x, y, r, "channel")
      BY <1>3, <1>4, <1>p, Reconciled
    <2> QED BY <2>1 DEF RoleRow
  <1>6. Put(p, x)
    BY <1>1, <1>p DEF CreateActor, OldRow
  <1> QED BY <1>3, <1>5, <1>6 DEF Follows

LEMMA KnowsStep ==
  ASSUME Inv, Single, Step, Calmed, NEW c \in DOMAIN proc'
  PROVE  Knows(c, proc[c])'
  <1> DEFINE Fits == \E x : x = proc'[c] /\ Knows(c, x)'
  <1>1. ASSUME c \in DOMAIN proc, proc'[c] = proc[c]  PROVE Fits
    <2>1. PICK q : OldRow(c, q)
      BY <1>1, RowIs
    <2>2. q = proc'[c] /\ Shape(c, q) /\ Knows(c, q) /\ CalmKept
      BY <1>1, <2>1 DEF OldRow
    <2>3. q.pc \in {"createOrg", "createActor"} => actorOf'[c.user] = None
      <3> SUFFICES ASSUME q.pc \in {"createOrg", "createActor"}  PROVE actorOf'[c.user] = None
        OBVIOUS
      <3>1. actorOf[c.user] = None /\ q.resolving
        BY <2>2 DEF Knows, Shape
      <3>2. CASE actorOf' = actorOf
        BY <3>1, <3>2
      <3>3. ASSUME NEW p \in DOMAIN proc, CreateActor(p), actorOf' # actorOf
            PROVE  actorOf'[c.user] = None
        <4>1. proc[p].pc = "createActor" /\ proc[p].resolving
          BY <3>3 DEF CreateActor, Inv, Rows, Shape
        <4>2. proc'[p] # proc[p]
          <5>1. PICK x : Put(p, x) /\ x.pc \in {"revoke", "createBoot"}
            BY <3>3, ActorMade
          <5> QED BY <4>1, <5>1 DEF Put
        <4>3. p.user # c.user
          BY <1>1, <2>1, <3>1, <4>1, <4>2 DEF Single, OldRow
        <4>4. c.user \in Users
          BY <1>1, RowIs DEF Sound
        <4> QED BY <3>1, <3>3, <4>3, <4>4 DEF CreateActor, Inv, TypeOK, AppOK
      <3> QED BY <3>2, <3>3, ActorsWritten
    <2> QED BY <2>2, <2>3, KnowsStays
  <1>2. (\E x : x = proc'[c] /\ New(c, x)) => Fits
    BY DEF New
  <1>3. ASSUME \E p \in DOMAIN proc : Turned(p)  PROVE Fits
    <2> PICK p \in DOMAIN proc : Turned(p)
      BY <1>3
    <2>1. PICK x : Put(p, x) /\ New(p, x)
      BY DEF Turned
    <2>2. c \in DOMAIN proc /\ (c = p => proc'[c] = x) /\ (c # p => proc'[c] = proc[c])
      BY <2>1 DEF Put
    <2> QED BY <1>1, <1>2, <2>1, <2>2
  <1>4. Fits
    BY <1>1, <1>2, <1>3, RowsTurn DEF Rested
  <1> HIDE DEF Fits
  <1>5. PICK x : x = proc'[c] /\ Knows(c, x)'
    BY <1>4 DEF Fits
  <1> QED BY <1>5 DEF Knows, AssertOrgActor


\* What holds while nothing has gone wrong, with what it rests on always.
CalmInv == Inv /\ Single /\ (Calm => Known)

LEMMA KnownInit ==
  ASSUME Init
  PROVE  Single /\ Known
  <1>1. PICK s \in Starts :
          LET o == s.owner
              open == o # None
          IN /\ orgs = IF open THEN {1} ELSE {}
             /\ actors = [a \in IF open THEN {2, 3} ELSE {} |->
                           [org |-> 1, kind |-> IF a = 2 THEN "human" ELSE "app",
                            name |-> IF a = 2 THEN o ELSE "bootstrap"]]
             /\ settings = IF open THEN [firstUser |-> o, org |-> 1, channel |-> 4,
                                         bootActor |-> 3, bootOrg |-> 1]
                           ELSE NewWorkspace
             /\ actorOf = [u \in Users |-> IF u = o THEN [actor |-> 2, org |-> 1] ELSE None]
    BY DEF Init
  <1> PICK o : o = s.owner
    OBVIOUS
  <1>2. DOMAIN proc = {}
    BY DEF Init
  <1>3. o \in Users \cup {None}
    BY StartsAssumption
  <1>4. CASE o = None
    <2>1. /\ orgs = {} /\ DOMAIN actors = {} /\ settings = NewWorkspace
          /\ \A u \in Users : actorOf[u] = None
      BY <1>1, <1>4, NamesAssumption
    <2> QED BY <1>2, <2>1 DEF Single, Known, Placed, Housed, Named, NewWorkspace
  <1>5. CASE o # None
    <2>1. /\ orgs = {1} /\ DOMAIN actors = {2, 3} /\ actors[2].org = 1 /\ actors[3].org = 1
          /\ actors[2].name = o /\ actors[3].name = "bootstrap"
          /\ settings.org = 1 /\ settings.bootActor = 3 /\ settings.bootOrg = 1
          /\ \A u \in Users : actorOf[u] = IF u = o THEN [actor |-> 2, org |-> 1] ELSE None
      BY <1>1, <1>5
    <2>2. Placed
      BY <2>1 DEF Placed, AssertOrgActor
    <2>3. Housed
      BY <2>1 DEF Housed, AssertOrgActor
    <2>4. Named
      BY <2>1, NamesAssumption DEF Named
    <2> QED BY <1>2, <2>2, <2>3, <2>4 DEF Single, Known
  <1> QED BY <1>4, <1>5

\* What has gone wrong stays wrong.
LEMMA CalmWas ==
  ASSUME LeftOK, Step, Calm'
  PROVE  Calm
  <1>1. ASSUME UNCHANGED <<lost, left>>  PROVE Calm
    BY <1>1 DEF Calm
  <1>2. ASSUME lost' = TRUE  PROVE Calm
    BY <1>2 DEF Calm
  <1>3. CASE \E c \in DOMAIN proc : Resolution(c)
    BY <1>1, <1>3 DEF Resolution, EnsureUserPrincipal, Probe, CreateOrg, CreateActor, Settle
  <1>4. CASE \E c \in DOMAIN proc : Request(c)
    BY <1>1, <1>2, <1>4 DEF Request, Refused, CreateBootstrapActor, RevokeAllActorGrants,
                            ApplyRoleGrants, CreateDefaultChannel, AnswerLost
  <1>5. CASE \E c \in DOMAIN proc : CallStep(c)
    BY <1>1, <1>5 DEF CallStep, Handle, CheckCapability, ListChannels, SetActorRole, ResolveJoin,
                      CreateAgentActor, Answer, NewChannel, CreatePermissionRequest,
                      ResolvePermissionRequest
  <1>6. CASE \E c \in waiting : SendInvite(c) \/ AcceptInvite(c) \/ RequirePrincipal(c)
    BY <1>1, <1>6 DEF SendInvite, AcceptInvite, RequirePrincipal
  <1>7. CASE \E a : BootstrapAgent(a) \/ AgentStops(a)
    BY <1>1, <1>2, <1>7 DEF BootstrapAgent, ResolveWorkspace, ActorIsLive, AskToJoin,
                            WaitForJoinApproval, AgentStops
  <1>8. CASE AppRestart
    BY <1>2, <1>8 DEF AppRestart
  <1>9. CASE ServerRestart
    BY <1>9 DEF ServerRestart, Calm, LeftOK
  <1> QED BY <1>3, <1>4, <1>5, <1>6, <1>7, <1>8, <1>9
          DEF Step, PoetBootstrap, WeatherBootstrap, AssistantBootstrap, CursorBootstrap

LEMMA KnownStep ==
  ASSUME Inv, Single, Step, Calmed
  PROVE  Known'
  <1>1. \A c \in DOMAIN proc' : Knows(c, proc[c])'
    BY KnowsStep
  <1> QED BY <1>1, PlacedStep, HousedStep, NamedStep DEF Known

LEMMA CalmInvStays ==
  ASSUME CalmInv, [Next]_vars
  PROVE  CalmInv'
  <1>1. Inv'
    BY InvStays DEF CalmInv
  <1>2. CASE Step
    <2>1. Single'
      BY <1>2, SingleStep DEF CalmInv
    <2>2. Calm' => Calmed
      BY <1>2, CalmWas DEF CalmInv, Inv, TypeOK, Calmed
    <2>3. Calm' => Known'
      BY <1>2, <2>2, KnownStep DEF CalmInv
    <2> QED BY <1>1, <2>1, <2>3 DEF CalmInv
  <1>3. CASE UNCHANGED vars
    <2>1. UNCHANGED <<orgs, actors, grants, channels, requests, minted, settings, actorOf, roleOf, invites,
                      joins, proc, waiting, agent, left, lost>>
      BY <1>3 DEF vars, server, appDb
    <2>2. Single'
      BY <2>1 DEF CalmInv, Single
    <2>3. Calm' => Calm /\ Known
      BY <2>1 DEF CalmInv, Calm
    <2>4. Known => Placed' /\ Housed' /\ Named'
      BY <2>1 DEF Known, Placed, Housed, Named, AssertOrgActor
    <2>5. Known => (\A c \in DOMAIN proc : Knows(c, proc[c]))'
      <3> SUFFICES ASSUME Known, NEW c \in DOMAIN proc  PROVE Knows(c, proc[c])'
        BY <2>1
      <3>1. Knows(c, proc[c])
        BY DEF Known
      <3> QED BY <2>1, <3>1 DEF Knows, AssertOrgActor
    <2> QED BY <1>1, <2>2, <2>3, <2>4, <2>5 DEF CalmInv, Known
  <1> QED BY <1>2, <1>3 DEF Next

\* One resolution of a user at a time; and while no answer was lost and the server
\* kept its data, what each row knows of the server is so.
THEOREM CalmInvariant == Spec => []CalmInv
  <1>1. Init => CalmInv
    BY InvInit, KnownInit DEF CalmInv
  <1>2. CalmInv /\ [Next]_vars => CalmInv'
    BY CalmInvStays
  <1> QED BY <1>1, <1>2, PTL DEF Spec

\* The first minute of an installation: one actor for each user while nothing goes
\* wrong, one owner and nobody in without an invite whatever goes wrong
\* (the in-flight map of ensureUserPrincipal, its first_user_id and its invites).
THEOREM OneActorOneOwnerAlways == Spec => []OneActorOneOwner
  <1>1. CalmInv => OneActorPerUser
    BY DEF CalmInv, Known, Named, OneActorPerUser
  <1>2. Inv => OneOwner
    BY DEF Inv, Owners, May, OneOwner
  <1>3. CalmInv => OneActorOneOwner
    BY <1>1, <1>2 DEF CalmInv, OneActorOneOwner
  <1> QED BY <1>3, CalmInvariant, PTL

(***************************************************************************)
(* The grants of a role, while nothing goes wrong.                         *)
(***************************************************************************)
\* In a calm workspace the server knows everyone: it refuses nothing but a channel,
\* or the answer to a permission request.
LEMMA CalmAccepts ==
  ASSUME Inv, Known, NEW c \in DOMAIN proc
  PROVE  /\ proc[c].pc \notin {"newChannel", "approve", "deny"} => Accepted(proc[c])
         /\ proc[c].pc \in {"newChannel", "approve", "deny"} =>
              AssertOrgActor(proc[c].actor, proc[c].org)
  <1> PICK q : q = proc[c]
    OBVIOUS
  <1>1. Shape(c, q) /\ Knows(c, q) /\ q.user \in Users
    BY DEF Inv, Rows, Known, Shape, Row
  <1>2. CASE q.pc \in {"revoke", "grant write", "grant manage", "probe", "list", "check",
                      "newChannel", "ask", "approve", "deny"}
    <2>1. q.actor \in Nat /\ q.org \in Nat /\ (q.resolving \/ q.need # "channel")
      BY <1>1, <1>2, NamesAssumption DEF Shape
    <2>2. actorOf[q.user] = [actor |-> q.actor, org |-> q.org]
      BY <1>1, <1>2, <2>1 DEF Knows
    <2>3. actorOf[q.user] # None
      BY <2>1, <2>2, NamesAssumption
    <2>4. AssertOrgActor(q.actor, q.org)
      BY <1>1, <2>2, <2>3 DEF Known, Placed
    <2> QED BY <1>1, <1>2, <2>4 DEF Accepted, Knows
  <1>3. CASE q.pc \notin {"revoke", "grant write", "grant manage", "probe", "list", "check",
                         "newChannel", "ask", "approve", "deny"}
    BY <1>1, <1>3 DEF Accepted, Knows
  <1> QED BY <1>2, <1>3

\* A call that is no longer there was answered, or its user may not join, or the
\* server refused its answer to a permission request.
LEMMA Removed ==
  ASSUME Inv, Step, Calmed, NEW c \in DOMAIN proc, c \notin DOMAIN proc'
  PROVE  \/ proc[c].pc = "end" /\ ~proc[c].resolving
         \/ proc[c].pc = "ensure" /\ actorOf[c.user] = None
         \/ proc[c].pc \in {"approve", "deny"} /\ ~proc[c].resolving
  <1>1. \A p \in DOMAIN proc :
          /\ proc[p].pc \notin {"newChannel", "approve", "deny"} => Accepted(proc[p])
          /\ proc[p].pc = "newChannel" => AssertOrgActor(proc[p].actor, proc[p].org)
    BY CalmAccepts DEF Calmed
  <1>2. lost' = FALSE /\ ~ServerRestart
    BY DEF Calmed, Calm, ServerRestart, Inv, TypeOK, LeftOK
  <1>3. \A p, x : Put(p, x) => DOMAIN proc' = DOMAIN proc
    BY DEF Put
  <1>4. ASSUME NEW p \in DOMAIN proc, Resolution(p)
        PROVE  proc[c].pc = "ensure" /\ actorOf[c.user] = None
    <2>1. CASE EnsureUserPrincipal(p)
      <3>1. actorOf[p.user] = None /\ JoinWorkspace(p) /\ proc[p].pc = "ensure"
        BY <1>3, <2>1 DEF EnsureUserPrincipal
      <3>2. Throw(p)
        BY <1>3, <3>1 DEF JoinWorkspace
      <3>3. c \in {p} \cup Awaiting(p.user)
        BY <3>2 DEF Throw, Restrict
      <3> QED BY <3>1, <3>3 DEF Awaiting
    <2>2. CASE Probe(p) \/ CreateOrg(p) \/ CreateActor(p) \/ Settle(p)
      BY <1>1, <1>3, <2>2 DEF Probe, CreateOrg, CreateActor, Settle
    <2> QED BY <1>4, <2>1, <2>2 DEF Resolution
  <1>5. ASSUME NEW p \in DOMAIN proc, Request(p)
        PROVE  proc[c].pc \in {"approve", "deny"} /\ ~proc[c].resolving
    <2>1. proc[p].pc \in {"approve", "deny"} /\ Throw(p)
      BY <1>1, <1>2, <1>3, <1>5 DEF Request, Refused, CreateBootstrapActor, RevokeAllActorGrants,
                                    ApplyRoleGrants, CreateDefaultChannel, AnswerLost
    <2>2. ~proc[p].resolving
      BY <2>1 DEF Inv, Rows, Shape
    <2> QED BY <2>1, <2>2 DEF Throw, Restrict
  <1>6. ASSUME NEW p \in DOMAIN proc, CallStep(p)
        PROVE  proc[c].pc = "end" /\ ~proc[c].resolving
    <2>1. Answer(p)
      BY <1>1, <1>3, <1>6
         DEF CallStep, Handle, CheckCapability, ListChannels, SetActorRole, ResolveJoin,
             CreateAgentActor, NewChannel, CreatePermissionRequest, ResolvePermissionRequest
    <2> QED BY <2>1 DEF Answer, Restrict
  <1>7. ASSUME \E d \in waiting : SendInvite(d) \/ AcceptInvite(d) \/ RequirePrincipal(d)
        PROVE  FALSE
    BY <1>7 DEF SendInvite, AcceptInvite, RequirePrincipal, With
  <1>8. ASSUME \E a : BootstrapAgent(a) \/ AgentStops(a)  PROVE FALSE
    BY <1>8 DEF BootstrapAgent, ResolveWorkspace, ActorIsLive, AskToJoin, WaitForJoinApproval,
                AgentStops
  <1>9. ~AppRestart
    BY <1>2 DEF AppRestart
  <1> QED BY <1>2, <1>4, <1>5, <1>6, <1>7, <1>8, <1>9
          DEF Step, PoetBootstrap, WeatherBootstrap, AssistantBootstrap, CursorBootstrap

\* Grants change by a revocation or a grant, or by an approved permission request.
LEMMA GrantsWritten ==
  ASSUME Inv, Step, Calmed
  PROVE  \/ grants' = grants
         \/ \E p \in DOMAIN proc : RevokeAllActorGrants(p) \/ ApplyRoleGrants(p)
         \/ \E a : grants' = grants \cup {<<a, "create">>}
  <1>1. lost' = FALSE /\ ~ServerRestart
    BY DEF Calmed, Calm, ServerRestart, Inv, TypeOK, LeftOK
  <1>2. ASSUME NEW q, Served(q), q.pc \notin {"revoke", "grant write", "grant manage"}
        PROVE  grants' = grants \/ \E a : grants' = grants \cup {<<a, "create">>}
    BY <1>2 DEF Served
  <1>3. CASE \E c \in DOMAIN proc : Resolution(c)
    BY <1>2, <1>3 DEF Resolution, EnsureUserPrincipal, Probe, CreateOrg, CreateActor, Settle, server
  <1>4. CASE \E c \in DOMAIN proc : Request(c)
    BY <1>1, <1>2, <1>4 DEF Request, Refused, CreateBootstrapActor, CreateDefaultChannel,
                            AnswerLost, server
  <1>5. CASE \E c \in DOMAIN proc : CallStep(c)
    BY <1>2, <1>5 DEF CallStep, Handle, CheckCapability, ListChannels, SetActorRole, ResolveJoin,
                      CreateAgentActor, Answer, NewChannel, CreatePermissionRequest,
                      ResolvePermissionRequest, server
  <1>6. CASE \E c \in waiting : SendInvite(c) \/ AcceptInvite(c) \/ RequirePrincipal(c)
    BY <1>6 DEF SendInvite, AcceptInvite, RequirePrincipal, server
  <1>7. CASE \E a : BootstrapAgent(a) \/ AgentStops(a)
    BY <1>7 DEF BootstrapAgent, ResolveWorkspace, ActorIsLive, AskToJoin, WaitForJoinApproval,
                AgentStops, server
  <1>8. CASE AppRestart
    BY <1>8 DEF AppRestart, server
  <1> QED BY <1>1, <1>3, <1>4, <1>5, <1>6, <1>7, <1>8
          DEF Step, PoetBootstrap, WeatherBootstrap, AssistantBootstrap, CursorBootstrap

\* The row q is that of a reconciliation of the user u's role.
Works(q, u) == Reconciling(q) /\ q.user = u

\* The actor a has the grants in S and no others.
Holds(a, S) == \A g \in {"write", "manage"} : <<a, g>> \in grants <=> g \in S

Stage(q) ==
  /\ q.pc = "grant write" => Holds(q.actor, {})
  /\ q.pc = "grant manage" => Holds(q.actor, {"write"})

\* Who may create channels without a role that does has asked to.
HasAsked ==
  \A g \in grants : g[2] = "create" => \E n \in DOMAIN requests : requests[n].actor = g[1]

\* Nobody works on the grants of u, or is about to.
Idle(u) ==
  \A c \in DOMAIN proc : ~Works(proc[c], u) /\ ~(c.user = u /\ Pends(c, proc[c]))

Granted(u) ==
  /\ \A c \in DOMAIN proc : Works(proc[c], u) => Stage(proc[c])
  /\ Idle(u) => roleOf[u] \in Roles /\ Holds(actorOf[u].actor, RoleTemplate(roleOf[u]))

AllGranted == \A u \in Users : actorOf[u] # None /\ u \notin overlapped => Granted(u)

\* Two reconciliations of one user are an overlap.
Apart ==
  \A u \in Users : u \notin overlapped =>
    \A c, d \in DOMAIN proc : Works(proc[c], u) /\ Works(proc[d], u) => c = d

LEMMA RowMoves ==
  ASSUME Inv, Step, NEW c \in DOMAIN proc'
  PROVE  /\ c \in DOMAIN proc => proc'[c] = proc[c] \/ Onward(c, proc[c], proc'[c])
         /\ c \notin DOMAIN proc => proc'[c].pc = "ensure"
  <1> DEFINE Moves(x) == /\ c \in DOMAIN proc => x = proc[c] \/ Onward(c, proc[c], x)
                         /\ c \notin DOMAIN proc => x.pc = "ensure"
  <1>1. CASE Rested
    <2>1. \E x : x = proc'[c] /\ Moves(x)
      BY <1>1 DEF Rested, New
    <2> QED BY <2>1
  <1>2. ASSUME NEW p \in DOMAIN proc, Turned(p)  PROVE Moves(proc'[c])
    <2>1. PICK x : Put(p, x) /\ New(p, x)
      BY <1>2 DEF Turned
    <2>2. c \in DOMAIN proc /\ (c = p => proc'[c] = x) /\ (c # p => proc'[c] = proc[c])
      BY <2>1 DEF Put
    <2>3. c = p => Moves(x)
      BY <2>1, <2>2 DEF New
    <2> QED BY <2>2, <2>3
  <1> QED BY <1>1, <1>2, RowsTurn

\* A reconciliation has the actor its user is mapped to.
LEMMA WorkerIs ==
  ASSUME Inv, Known, NEW c \in DOMAIN proc, NEW u \in Users, Works(proc[c], u)
  PROVE  /\ actorOf[u] # None /\ actorOf[u].actor = proc[c].actor /\ proc[c].actor \in Nat
         /\ proc[c].role \in Roles
  <1> PICK q : q = proc[c]
    OBVIOUS
  <1>1. Shape(c, q) /\ Knows(c, q) /\ Reconciling(q) /\ q.user = u
    BY DEF Inv, Rows, Known, Works
  <1>2. q.need = "grants" /\ q.actor \in Nat /\ q.org \in Nat
        /\ q.pc \notin {"ensure", "createOrg", "createActor"}
    BY <1>1 DEF Shape, Reconciling
  <1>3. actorOf[u] = [actor |-> q.actor, org |-> q.org]
    BY <1>1, <1>2 DEF Knows
  <1>4. actorOf[u] # None
    BY <1>2, <1>3, NamesAssumption
  <1>5. q.role \in Roles
    BY <1>1, <1>2 DEF Shape
  <1> QED BY <1>2, <1>3, <1>4, <1>5

LEMMA RevokeMoves ==
  ASSUME Inv, NEW p \in DOMAIN proc, RevokeAllActorGrants(p)
  PROVE  /\ DOMAIN proc' = DOMAIN proc /\ \A c \in DOMAIN proc : c # p => proc'[c] = proc[c]
         /\ proc'[p].pc = "grant write" /\ proc'[p].user = proc[p].user
         /\ proc'[p].actor = proc[p].actor
         /\ grants' = {g \in grants : g[1] # proc[p].actor} /\ roleOf' = roleOf
         /\ Reconciling(proc[p])
  <1> PICK q : q = proc[p] /\ q \in Row
    BY DEF Inv, Rows, Shape
  <1> PICK x : x = [q EXCEPT !.pc = "grant write"]
    OBVIOUS
  <1>1. x.pc = "grant write" /\ x.user = q.user /\ x.actor = q.actor
    BY DEF Row
  <1>2. Put(p, x) /\ q.pc = "revoke" /\ Served(q) /\ roleOf' = roleOf
    BY DEF RevokeAllActorGrants, appDb
  <1>3. grants' = {g \in grants : g[1] # q.actor}
    BY <1>2 DEF Served
  <1> QED BY <1>1, <1>2, <1>3 DEF Put, Reconciling

\* A grant is followed by the next of the template, or the role is stored.
LEMMA GrantMoves ==
  ASSUME Inv, NEW p \in DOMAIN proc, ApplyRoleGrants(p)
  PROVE  /\ DOMAIN proc' = DOMAIN proc /\ \A c \in DOMAIN proc : c # p => proc'[c] = proc[c]
         /\ proc'[p].user = proc[p].user /\ proc'[p].actor = proc[p].actor
         /\ Reconciling(proc[p]) /\ proc[p].user \in Users
         /\ \/ /\ proc[p].pc = "grant write" /\ "manage" \in RoleTemplate(proc[p].role)
               /\ proc'[p].pc = "grant manage" /\ roleOf' = roleOf
               /\ grants' = grants \cup {<<proc[p].actor, "write">>}
            \/ /\ proc[p].pc = "grant write" /\ "manage" \notin RoleTemplate(proc[p].role)
               /\ ~Reconciling(proc'[p])
               /\ roleOf' = [roleOf EXCEPT ![proc[p].user] = proc[p].role]
               /\ grants' = grants \cup {<<proc[p].actor, "write">>}
            \/ /\ proc[p].pc = "grant manage" /\ proc[p].role \in Managers
               /\ ~Reconciling(proc'[p])
               /\ roleOf' = [roleOf EXCEPT ![proc[p].user] = proc[p].role]
               /\ grants' = grants \cup {<<proc[p].actor, "manage">>}
  <1> PICK q : q = proc[p] /\ q \in Row /\ Shape(p, q) /\ settings \in Settings
    BY DEF Inv, Rows, Shape, TypeOK, AppOK
  <1>p. PICK e, m, d : /\ e = [q EXCEPT !.pc = q.then] /\ m = [q EXCEPT !.pc = "grant manage"]
                       /\ d = DefaultChannelOf(q)
    OBVIOUS
  <1>1. e.pc = q.then /\ e.user = q.user /\ e.actor = q.actor
        /\ m.pc = "grant manage" /\ m.user = q.user /\ m.actor = q.actor
    BY <1>p DEF Row
  <1>2. /\ d.pc \in {"end", "createChannel", "createBoot"} /\ d.need = "channel"
        /\ Follows(d, q)
    BY <1>p, Channelled
  <1>3. q.pc \in {"grant write", "grant manage"} /\ Served(q)
    BY DEF ApplyRoleGrants
  <1> DEFINE more == q.pc = "grant write" /\ "manage" \in RoleTemplate(q.role)
  <1>4. CASE more
    <2>1. Put(p, m) /\ roleOf' = roleOf
      BY <1>4, <1>p DEF ApplyRoleGrants
    <2>2. grants' = grants \cup {<<q.actor, "write">>}
      BY <1>3, <1>4 DEF Served
    <2> QED BY <1>1, <1>4, <2>1, <2>2 DEF Put, Reconciling, Row
  <1>5. CASE ~more
    <2>1. roleOf' = [roleOf EXCEPT ![q.user] = q.role]
      BY <1>5 DEF ApplyRoleGrants
    <2>2. PICK x : Put(p, x) /\ x.user = q.user /\ x.actor = q.actor /\ ~Reconciling(x)
      <3>1. CASE q.then = "channel"
        <4>1. Put(p, d)
          BY <1>5, <1>p, <3>1 DEF ApplyRoleGrants
        <4>2. d.user = q.user /\ d.actor = q.actor /\ ~Reconciling(d)
          BY <1>2 DEF Follows, Reconciling
        <4> QED BY <4>1, <4>2
      <3>2. CASE q.then # "channel"
        <4>1. Put(p, e)
          BY <1>5, <1>p, <3>2 DEF ApplyRoleGrants
        <4>2. e.pc \in {"end", "probe"}
          BY <1>1, <3>2 DEF Row
        <4> QED BY <1>1, <4>1, <4>2 DEF Reconciling
      <3> QED BY <3>1, <3>2
    <2>3. /\ q.pc = "grant write" => grants' = grants \cup {<<q.actor, "write">>}
          /\ q.pc = "grant manage" => grants' = grants \cup {<<q.actor, "manage">>}
      BY <1>3 DEF Served
    <2>4. q.pc = "grant manage" => q.role \in Managers
      BY DEF Shape
    <2>5. q.user \in Users /\ Reconciling(q)
      BY <1>3 DEF Row, Reconciling
    <2>6. /\ DOMAIN proc' = DOMAIN proc /\ \A c \in DOMAIN proc : c # p => proc'[c] = proc[c]
          /\ proc'[p] = x
      BY <2>2 DEF Put
    <2> QED BY <1>3, <1>5, <2>1, <2>2, <2>3, <2>4, <2>5, <2>6
  <1> QED BY <1>4, <1>5

\* Two users have two actors.
LEMMA TwoActors ==
  ASSUME Known, NEW u \in Users, NEW v \in Users, actorOf[u] # None, actorOf[v] # None,
         actorOf[u].actor = actorOf[v].actor
  PROVE  u = v
  BY DEF Known, Placed

\* A user who has just been mapped: the reconciliation starts.
LEMMA GrantedFirst ==
  ASSUME Inv, Step, Calmed, Apart', NEW u \in Users, u \notin overlapped',
         actorOf[u] = None, actorOf'[u] # None
  PROVE  Granted(u)'
  <1>1. PICK p \in DOMAIN proc : CreateActor(p)
    BY ActorsWritten
  <1>2. p.user = u
    BY <1>1 DEF CreateActor, Inv, TypeOK, AppOK
  <1>3. PICK x : Put(p, x) /\ x.pc \in {"revoke", "createBoot"} /\ x.need = "grants" /\ x.user = u
    BY <1>1, <1>2, ActorMade
  <1>4. p \in DOMAIN proc' /\ proc'[p] = x
    BY <1>3 DEF Put
  <1>5. Works(proc'[p], u)
    BY <1>3, <1>4 DEF Works, Reconciling
  <1>6. \A c \in DOMAIN proc' :
          Works(proc'[c], u) => proc'[c].pc \notin {"grant write", "grant manage"}
    BY <1>3, <1>4, <1>5 DEF Apart, Works, Reconciling
  <1>7. \A c \in DOMAIN proc' : Works(proc'[c], u) => Stage(proc[c])'
    BY <1>6 DEF Stage
  <1>8. ~Idle(u)'
    BY <1>4, <1>5 DEF Idle, Works, Reconciling
  <1> QED BY <1>7, <1>8 DEF Granted, Works, Reconciling

LEMMA GrantedRevoked ==
  ASSUME Inv, Step, Calmed, Apart', NEW u \in Users, u \notin overlapped',
         NEW p \in DOMAIN proc, RevokeAllActorGrants(p), proc[p].user = u
  PROVE  Granted(u)'
  <1>1. /\ DOMAIN proc' = DOMAIN proc
        /\ proc'[p].pc = "grant write" /\ proc'[p].user = u /\ proc'[p].actor = proc[p].actor
        /\ grants' = {g \in grants : g[1] # proc[p].actor}
    BY RevokeMoves
  <1>2. Works(proc'[p], u)
    BY <1>1 DEF Works, Reconciling
  <1>3. \A c \in DOMAIN proc' : Works(proc'[c], u) => c = p
    BY <1>1, <1>2 DEF Apart, Works, Reconciling
  <1>4. Stage(proc[p])'
    BY <1>1 DEF Stage, Holds
  <1>5. ~Idle(u)'
    BY <1>1, <1>2 DEF Idle, Works, Reconciling
  <1> QED BY <1>3, <1>4, <1>5 DEF Granted, Works, Reconciling, Stage, Holds

LEMMA GrantedGranted ==
  ASSUME Inv, Step, Calmed, Apart, Apart', NEW u \in Users, u \notin overlapped',
         u \notin overlapped, Granted(u), actorOf[u] # None, actorOf'[u] = actorOf[u],
         NEW p \in DOMAIN proc, ApplyRoleGrants(p), proc[p].user = u
  PROVE  Granted(u)'
  <1> PICK q : q = proc[p]
    OBVIOUS
  <1>1. /\ DOMAIN proc' = DOMAIN proc /\ \A c \in DOMAIN proc : c # p => proc'[c] = proc[c]
        /\ proc'[p].user = u /\ proc'[p].actor = q.actor /\ Reconciling(q)
        /\ \/ /\ q.pc = "grant write" /\ "manage" \in RoleTemplate(q.role)
              /\ proc'[p].pc = "grant manage"
              /\ grants' = grants \cup {<<q.actor, "write">>}
           \/ /\ q.pc = "grant write" /\ "manage" \notin RoleTemplate(q.role)
              /\ ~Reconciling(proc'[p])
              /\ roleOf' = [roleOf EXCEPT ![u] = q.role]
              /\ grants' = grants \cup {<<q.actor, "write">>}
           \/ /\ q.pc = "grant manage" /\ q.role \in Managers
              /\ ~Reconciling(proc'[p])
              /\ roleOf' = [roleOf EXCEPT ![u] = q.role]
              /\ grants' = grants \cup {<<q.actor, "manage">>}
    BY GrantMoves
  <1>2. Works(q, u)
    BY <1>1 DEF Works
  <1>3. actorOf[u].actor = q.actor /\ q.role \in Roles
    BY <1>2, WorkerIs DEF Calmed
  <1>4. Stage(q)
    BY <1>2 DEF Granted
  <1>5. \A c \in DOMAIN proc : Works(proc[c], u) => c = p
    BY <1>2 DEF Apart
  <1>6. CASE q.pc = "grant write" /\ "manage" \in RoleTemplate(q.role)
    <2>1. proc'[p].pc = "grant manage" /\ grants' = grants \cup {<<q.actor, "write">>}
      BY <1>1, <1>6
    <2>2. Holds(q.actor, {"write"})'
      BY <1>4, <1>6, <2>1 DEF Stage, Holds
    <2>3. Stage(proc[p])'
      BY <1>1, <2>1, <2>2 DEF Stage, Holds
    <2>4. \A c \in DOMAIN proc' : Works(proc'[c], u) => c = p
      BY <1>1, <1>5
    <2>5. ~Idle(u)'
      BY <1>1, <2>1 DEF Idle, Works, Reconciling
    <2> QED BY <2>3, <2>4, <2>5 DEF Granted, Works, Reconciling, Stage, Holds
  <1>7. CASE ~(q.pc = "grant write" /\ "manage" \in RoleTemplate(q.role))
    <2>1. /\ ~Reconciling(proc'[p]) /\ roleOf' = [roleOf EXCEPT ![u] = q.role]
          /\ \/ /\ q.pc = "grant write" /\ q.role \notin Managers
                /\ grants' = grants \cup {<<q.actor, "write">>}
             \/ /\ q.pc = "grant manage" /\ q.role \in Managers
                /\ grants' = grants \cup {<<q.actor, "manage">>}
      BY <1>1, <1>7 DEF RoleTemplate
    <2>2. roleOf'[u] = q.role
      BY <2>1 DEF Inv, TypeOK, AppOK
    <2>3. Holds(q.actor, RoleTemplate(q.role))'
      <3>1. CASE q.role \in Managers
        BY <1>4, <2>1, <3>1 DEF Stage, Holds, RoleTemplate
      <3>2. CASE q.role \notin Managers
        BY <1>4, <2>1, <3>2 DEF Stage, Holds, RoleTemplate
      <3> QED BY <3>1, <3>2
    <2>4. \A c \in DOMAIN proc' : ~Works(proc'[c], u)
      BY <1>1, <1>5, <2>1 DEF Works
    <2>5. roleOf'[u] \in Roles /\ Holds(actorOf[u].actor, RoleTemplate(roleOf[u]))'
      BY <1>3, <2>2, <2>3 DEF Holds
    <2> QED BY <2>4, <2>5 DEF Granted, Works, Reconciling
  <1> QED BY <1>6, <1>7

\* A step of others leaves the grants of u as they were.
LEMMA GrantsOfOthers ==
  ASSUME Inv, Step, Calmed, NEW u \in Users, actorOf[u] # None,
         \A p \in DOMAIN proc : RevokeAllActorGrants(p) \/ ApplyRoleGrants(p) => proc[p].user # u,
         NEW S, Holds(actorOf[u].actor, S)
  PROVE  \A a : a = actorOf[u].actor => Holds(a, S)'
  <1> PICK a : a = actorOf[u].actor
    OBVIOUS
  <1>1. CASE grants' = grants
    BY <1>1 DEF Holds
  <1>2. ASSUME NEW p \in DOMAIN proc, RevokeAllActorGrants(p) \/ ApplyRoleGrants(p)
        PROVE  Holds(a, S)'
    <2>1. /\ Reconciling(proc[p])
          /\ \/ grants' = {g \in grants : g[1] # proc[p].actor}
             \/ grants' = grants \cup {<<proc[p].actor, "write">>}
             \/ grants' = grants \cup {<<proc[p].actor, "manage">>}
      BY <1>2, RevokeMoves, GrantMoves
    <2>2. proc[p].user \in Users /\ proc[p].user # u
      BY <1>2 DEF Inv, Rows, Shape, Row
    <2>3. actorOf[proc[p].user] # None /\ actorOf[proc[p].user].actor = proc[p].actor
      BY <2>1, <2>2, WorkerIs DEF Calmed, Works
    <2>4. proc[p].actor # a
      BY <2>2, <2>3, TwoActors DEF Calmed
    <2> QED BY <2>1, <2>4 DEF Holds
  <1>3. ASSUME NEW b, grants' = grants \cup {<<b, "create">>}  PROVE Holds(a, S)'
    BY <1>3 DEF Holds
  <1> QED BY <1>1, <1>2, <1>3, GrantsWritten

\* A step that neither revokes nor grants for u.
LEMMA GrantedKept ==
  ASSUME Inv, Step, Calmed, NEW u \in Users, Granted(u), actorOf[u] # None,
         actorOf'[u] = actorOf[u],
         \A p \in DOMAIN proc : RevokeAllActorGrants(p) \/ ApplyRoleGrants(p) => proc[p].user # u
  PROVE  Granted(u)'
  <1>1. ASSUME NEW p \in DOMAIN proc, RevokeAllActorGrants(p) \/ ApplyRoleGrants(p)
        PROVE  proc'[p].user # u
    <2>1. proc'[p].user = proc[p].user
      BY <1>1, RevokeMoves, GrantMoves
    <2> QED BY <1>1, <2>1
  <1>2. ASSUME NEW c \in DOMAIN proc', Works(proc'[c], u)  PROVE Stage(proc[c])'
    <2>1. CASE c \in DOMAIN proc /\ proc'[c] = proc[c]
      <3> PICK q : q = proc[c]
        OBVIOUS
      <3>1. Works(q, u) /\ Stage(q)
        BY <1>2, <2>1 DEF Granted
      <3>2. actorOf[u].actor = q.actor
        BY <2>1, <3>1, WorkerIs DEF Calmed
      <3>3. q.pc = "grant write" => Holds(q.actor, {})'
        BY <3>1, <3>2, GrantsOfOthers DEF Stage
      <3>4. q.pc = "grant manage" => Holds(q.actor, {"write"})'
        BY <3>1, <3>2, GrantsOfOthers DEF Stage
      <3> QED BY <2>1, <3>3, <3>4 DEF Stage, Holds
    <2>2. CASE proc'[c].pc \notin {"grant write", "grant manage"}
      BY <2>2 DEF Stage
    <2>3. CASE c \in DOMAIN proc /\ Onward(c, proc[c], proc'[c])
      BY <1>1, <1>2, <2>2, <2>3 DEF Onward, Works
    <2> QED BY <2>1, <2>2, <2>3, RowMoves
  <1>3. ASSUME Idle(u)', NEW c \in DOMAIN proc
        PROVE  ~Works(proc[c], u) /\ ~(c.user = u /\ Pends(c, proc[c]))
    <2> SUFFICES ASSUME Works(proc[c], u) \/ (c.user = u /\ Pends(c, proc[c]))  PROVE FALSE
      OBVIOUS
    <2>1. c \in DOMAIN proc'
      BY Removed DEF Works, Reconciling, Pends
    <2>2. \A x : x = proc'[c] => ~Works(x, u) /\ ~(c.user = u /\ Pends(c, x))
      BY <1>3, <2>1 DEF Idle, Works, Reconciling, Pends
    <2>3. Onward(c, proc[c], proc'[c])
      BY <2>1, <2>2, RowMoves
    <2>4. CASE Works(proc[c], u)
      <3>1. ~(RevokeAllActorGrants(c) \/ ApplyRoleGrants(c))
        BY <2>4 DEF Works
      <3> QED BY <2>2, <2>3, <2>4, <3>1 DEF Onward, Works, Reconciling
    <2>5. CASE c.user = u /\ Pends(c, proc[c])
      BY <2>2, <2>3, <2>5 DEF Onward, Works
    <2> QED BY <2>4, <2>5
  <1>4. ASSUME Idle(u)'  PROVE roleOf'[u] = roleOf[u]
    <2>1. ASSUME NEW c \in DOMAIN proc, ApplyRoleGrants(c)  PROVE roleOf'[u] = roleOf[u]
      <3>1. proc[c].user # u
        BY <2>1
      <3> QED BY <2>1, <3>1 DEF ApplyRoleGrants, Inv, TypeOK, AppOK
    <2>2. ASSUME NEW c \in waiting, AcceptInvite(c)  PROVE roleOf'[u] = roleOf[u]
      <3>1. CASE roleOf' = roleOf
        BY <3>1
      <3>2. CASE roleOf' = [roleOf EXCEPT ![c.user] = invites[c.on].role]
                 /\ proc' = With(proc, c, Call(c.user))
        <4>1. c \notin DOMAIN proc /\ c.op = "accept"
          BY <2>2 DEF AcceptInvite, Inv, Arriving
        <4> PICK x : x = Call(c.user)
          OBVIOUS
        <4>2. c \in DOMAIN proc' /\ proc'[c] = x /\ x.pc = "ensure"
          BY <3>2, <4>1 DEF With, Call
        <4>3. Pends(c, x)
          BY <4>1, <4>2 DEF Pends
        <4>4. c.user # u
          BY <1>4, <4>2, <4>3 DEF Idle, Pends
        <4> QED BY <3>2, <4>4 DEF Inv, TypeOK, AppOK
      <3> QED BY <2>2, <3>1, <3>2 DEF AcceptInvite
    <2> QED BY <2>1, <2>2, RolesWritten
  <1>5. ASSUME Idle(u)'
        PROVE  roleOf'[u] \in Roles /\ Holds(actorOf[u].actor, RoleTemplate(roleOf[u]))'
    <2>1. Idle(u)
      BY <1>3, <1>5 DEF Idle
    <2>2. roleOf[u] \in Roles /\ Holds(actorOf[u].actor, RoleTemplate(roleOf[u]))
      BY <2>1 DEF Granted
    <2> PICK a, r : a = actorOf[u].actor /\ r = roleOf[u]
      OBVIOUS
    <2>3. Holds(a, RoleTemplate(r))'
      <3> PICK S : S = RoleTemplate(r)
        OBVIOUS
      <3>1. Holds(a, S)'
        BY <2>2, GrantsOfOthers
      <3> QED BY <3>1 DEF Holds, RoleTemplate
    <2>4. actorOf'[u].actor = a /\ roleOf'[u] = r
      BY <1>4, <1>5
    <2> QED BY <2>2, <2>3, <2>4 DEF Holds, RoleTemplate
  <1>6. \A c \in DOMAIN proc' : Works(proc'[c], u) => Stage(proc[c])'
    BY <1>2
  <1>7. (\A c \in DOMAIN proc : Works(proc[c], u) => Stage(proc[c]))'
    BY <1>6 DEF Works, Reconciling
  <1> QED BY <1>5, <1>7 DEF Granted

LEMMA GrantedStep ==
  ASSUME Inv, Step, Calmed, AllGranted, Apart, Apart', overlapped \subseteq overlapped'
  PROVE  AllGranted'
  <1> SUFFICES ASSUME NEW u \in Users, actorOf'[u] # None, u \notin overlapped'
               PROVE  Granted(u)'
    BY DEF AllGranted
  <1>1. CASE actorOf[u] = None
    BY <1>1, GrantedFirst
  <1>2. CASE actorOf[u] # None
    <2>1. Granted(u) /\ u \notin overlapped /\ actorOf'[u] = actorOf[u]
      BY <1>2, CalmStays DEF AllGranted, CalmKept
    <2>2. ASSUME NEW p \in DOMAIN proc, RevokeAllActorGrants(p), proc[p].user = u
          PROVE  Granted(u)'
      BY <2>2, GrantedRevoked
    <2>3. ASSUME NEW p \in DOMAIN proc, ApplyRoleGrants(p), proc[p].user = u
          PROVE  Granted(u)'
      BY <1>2, <2>1, <2>3, GrantedGranted
    <2>4. CASE \A p \in DOMAIN proc :
                 RevokeAllActorGrants(p) \/ ApplyRoleGrants(p) => proc[p].user # u
      BY <1>2, <2>1, <2>4, GrantedKept
    <2> QED BY <2>2, <2>3, <2>4
  <1> QED BY <1>1, <1>2

\* Two reconciliations at once are noted when the second begins.
LEMMA ApartStep ==
  ASSUME overlapped' = overlapped \cup Overlaps'
  PROVE  Apart'
  <1> SUFFICES ASSUME NEW u \in Users, u \notin overlapped',
                      NEW c \in DOMAIN proc', NEW d \in DOMAIN proc',
                      Works(proc[c], u)', Works(proc[d], u)', c # d
               PROVE  FALSE
    BY DEF Apart
  <1>1. \A p \in DOMAIN proc' : Works(proc[p], u)' <=> (Reconciling(proc[p])' /\ proc'[p].user = u)
    BY DEF Works
  <1>2. u \in Overlaps'
    BY <1>1 DEF Overlaps, Pairs
  <1> QED BY <1>2

\* A permission request stays that of its actor, who is granted what it asks for.
LEMMA HasAskedStep ==
  ASSUME Inv, Step, HasAsked
  PROVE  HasAsked'
  <1>1. CASE UNCHANGED server
    BY <1>1 DEF server, HasAsked
  <1>2. ASSUME NEW c \in DOMAIN proc, Accepted(proc[c]), Served(proc[c])  PROVE HasAsked'
    <2> PICK q : q = proc[c]
      OBVIOUS
    <2>1. requests \in Seq(Asking)
      BY DEF Inv, TypeOK, ServerOK
    <2>2. q.pc \in {"approve", "deny"} => q.about \in DOMAIN requests
      BY <1>2 DEF Accepted, Undecided
    <2>3. ASSUME NEW n \in DOMAIN requests
          PROVE  n \in DOMAIN requests' /\ requests'[n].actor = requests[n].actor
      <3>1. CASE q.pc = "ask"
        <4> DEFINE x == [actor |-> q.actor, org |-> q.org, status |-> "open"]
        <4>1. requests' = Append(requests, x)
          BY <1>2, <3>1 DEF Served
        <4> HIDE DEF x
        <4> QED BY <2>1, <4>1
      <3>2. CASE q.pc \in {"approve", "deny"}
        <4>1. PICK v : requests' = [requests EXCEPT ![q.about].status = v]
          BY <1>2, <3>2 DEF Served
        <4>2. requests[n] \in Asking
          BY <2>1
        <4> QED BY <2>2, <3>2, <4>1, <4>2 DEF Asking
      <3>3. CASE q.pc \notin {"ask", "approve", "deny"}
        BY <1>2, <3>3 DEF Served
      <3> QED BY <3>1, <3>2, <3>3
    <2>4. ASSUME NEW g \in grants', g[2] = "create"
          PROVE  \/ g \in grants
                 \/ q.pc = "approve" /\ g = <<requests[q.about].actor, "create">>
      <3>1. CASE q.pc \in {"grant write", "grant manage"}
        <4>1. \/ grants' = grants \cup {<<q.actor, "write">>}
              \/ grants' = grants \cup {<<q.actor, "manage">>}
          BY <1>2, <3>1 DEF Served
        <4> QED BY <2>4, <4>1
      <3>2. CASE q.pc = "approve"
        <4>1. grants' = grants \cup {<<requests[q.about].actor, "create">>}
          BY <1>2, <3>2 DEF Served
        <4> QED BY <2>4, <3>2, <4>1
      <3>3. CASE q.pc \notin {"grant write", "grant manage", "approve"}
        <4>1. grants' \subseteq grants
          BY <1>2, <3>3 DEF Served
        <4> QED BY <2>4, <4>1
      <3> QED BY <3>1, <3>2, <3>3
    <2>5. ASSUME NEW g \in grants', g[2] = "create"
          PROVE  \E n \in DOMAIN requests' : requests'[n].actor = g[1]
      <3>1. CASE g \in grants
        BY <2>3, <2>5, <3>1 DEF HasAsked
      <3>2. CASE q.pc = "approve" /\ g = <<requests[q.about].actor, "create">>
        BY <2>2, <2>3, <3>2
      <3> QED BY <2>4, <2>5, <3>1, <3>2
    <2> QED BY <2>5 DEF HasAsked
  <1>3. CASE ServerRestart
    BY <1>3 DEF ServerRestart, HasAsked
  <1> QED BY <1>1, <1>2, <1>3, ServerMoves

\* The grants of a role, stage by stage, with what that rests on.
GrantInv == CalmInv /\ Apart /\ (Calm => AllGranted) /\ HasAsked

LEMMA GrantInit ==
  ASSUME Init
  PROVE  Apart /\ AllGranted /\ HasAsked
  <1>1. PICK s \in Starts :
          LET o == s.owner
              open == o # None
          IN /\ grants = IF open THEN {2} \X {"write", "manage"} ELSE {}
             /\ actorOf = [u \in Users |-> IF u = o THEN [actor |-> 2, org |-> 1] ELSE None]
             /\ roleOf = [u \in Users |-> IF u = o THEN "owner" ELSE None]
    BY DEF Init
  <1>2. DOMAIN proc = {}
    BY DEF Init
  <1>3. ASSUME NEW u \in Users, actorOf[u] # None  PROVE Granted(u)
    <2>1. u = s.owner /\ s.owner # None
      BY <1>1, <1>3, NamesAssumption
    <2>2. grants = {2} \X {"write", "manage"} /\ actorOf[u].actor = 2 /\ roleOf[u] = "owner"
      BY <1>1, <2>1
    <2>3. Holds(actorOf[u].actor, RoleTemplate(roleOf[u]))
      BY <2>2 DEF Holds, RoleTemplate, Managers
    <2> QED BY <1>2, <2>2, <2>3 DEF Granted, Roles
  <1>4. HasAsked
    <2>1. \A g \in grants : g[2] # "create"
      BY <1>1
    <2> QED BY <2>1 DEF HasAsked
  <1> QED BY <1>2, <1>3, <1>4 DEF Apart, AllGranted

LEMMA GrantInvStays ==
  ASSUME GrantInv, [Next]_vars
  PROVE  GrantInv'
  <1>1. CalmInv'
    BY CalmInvStays DEF GrantInv
  <1>2. CASE Next
    <2>1. Apart'
      BY <1>2, ApartStep DEF Next
    <2>2. ASSUME Calm'  PROVE AllGranted'
      <3>1. Inv /\ Step /\ overlapped \subseteq overlapped'
        BY <1>2 DEF Next, GrantInv, CalmInv
      <3>2. Calm
        BY <2>2, <3>1, CalmWas DEF Inv, TypeOK
      <3>3. Calmed /\ AllGranted /\ Apart
        BY <2>2, <3>2 DEF GrantInv, CalmInv, Calmed
      <3> QED BY <2>1, <3>1, <3>3, GrantedStep
    <2>3. HasAsked'
      BY <1>2, HasAskedStep DEF Next, GrantInv, CalmInv
    <2> QED BY <1>1, <2>1, <2>2, <2>3 DEF GrantInv
  <1>3. CASE UNCHANGED vars
    <2>1. UNCHANGED <<grants, requests, actorOf, roleOf, proc, left, lost, overlapped>>
      BY <1>3 DEF vars, server, appDb
    <2>2. Apart'
      <3>1. proc' = proc /\ overlapped' = overlapped /\ Apart
        BY <2>1 DEF GrantInv
      <3>2. \A u, c : Works(proc[c], u)' <=> Works(proc[c], u)
        BY <3>1 DEF Works, Reconciling
      <3> QED BY <3>1, <3>2 DEF Apart
    <2>3. ASSUME NEW u \in Users, Granted(u)  PROVE Granted(u)'
      BY <2>1, <2>3 DEF Granted, Works, Reconciling, Stage, Idle, Pends, Holds, RoleTemplate
    <2>4. Calm' => AllGranted'
      BY <2>1, <2>3 DEF GrantInv, AllGranted, Calm
    <2>5. HasAsked'
      BY <2>1 DEF GrantInv, HasAsked
    <2> QED BY <1>1, <2>2, <2>4, <2>5 DEF GrantInv
  <1> QED BY <1>2, <1>3

\* The grants of the actor a, as CalmlyGranted reads them.
LEMMA HoldsAll ==
  ASSUME ServerOK, HasAsked, NEW a, NEW S \in SUBSET {"write", "manage"}, Holds(a, S)
  PROVE  {g[2] : g \in {x \in grants : x[1] = a}} \ AskedFor(a) = S
  <1> DEFINE H == {g[2] : g \in {x \in grants : x[1] = a}}
  <1>1. \A g \in grants : g[2] \in {"write", "manage", "create"} /\ g = <<g[1], g[2]>>
    BY DEF ServerOK
  <1>2. ASSUME NEW g \in grants, g[1] = a  PROVE g[2] \in S \/ g[2] \in AskedFor(a)
    <2>1. CASE g[2] = "create"
      BY <1>2, <2>1 DEF HasAsked, AskedFor
    <2>2. CASE g[2] # "create"
      BY <1>1, <1>2, <2>2 DEF Holds
    <2> QED BY <2>1, <2>2
  <1>3. ASSUME NEW y \in S  PROVE y \in H /\ y \notin AskedFor(a)
    <2>1. <<a, y>> \in grants
      BY <1>3 DEF Holds
    <2>2. y \in H
      BY <2>1
    <2>3. y # "create"
      BY <1>3
    <2> QED BY <2>2, <2>3 DEF AskedFor
  <1>4. \A y \in H : y \in S \/ y \in AskedFor(a)
    BY <1>2
  <1> HIDE DEF H
  <1>5. H \ AskedFor(a) = S
    BY <1>3, <1>4
  <1> QED BY <1>5 DEF H

\* A role is granted by a revocation and one request per grant, and stored last:
\* when nobody works on a user any more, the actor holds the grants of the stored
\* role, and beside them only what its user asked for in a permission request, unless
\* an answer was lost, the server lost its data or two changes of the role
\* overlapped (reconcileUserRole, applyRoleGrants, resolvePermissionRequest).
THEOREM RolesAreGranted == Spec => []CalmlyGranted
  <1>1. Init => GrantInv
    BY InvInit, KnownInit, GrantInit DEF GrantInv, CalmInv
  <1>2. GrantInv /\ [Next]_vars => GrantInv'
    BY GrantInvStays
  <1>3. GrantInv => CalmlyGranted
    <2> SUFFICES ASSUME GrantInv, Calm, NEW u \in Users, actorOf[u] # None, u \notin overlapped,
                        \A p \in DOMAIN proc : proc[p].user # u
                 PROVE  {g[2] : g \in {x \in grants : x[1] = actorOf[u].actor}}
                          \ AskedFor(actorOf[u].actor) = RoleTemplate(roleOf[u])
      BY DEF CalmlyGranted
    <2>1. ASSUME NEW c \in DOMAIN proc, Pends(c, proc[c])  PROVE proc[c].user = c.user
      <3>1. Shape(c, proc[c])
        BY DEF GrantInv, CalmInv, Inv, Rows
      <3>2. CASE proc[c].pc = "ensure"
        BY <3>1, <3>2 DEF Shape, Call
      <3> QED BY <2>1, <3>1, <3>2 DEF Shape, Pends
    <2>2. Idle(u)
      BY <2>1 DEF Idle, Works
    <2>3. Holds(actorOf[u].actor, RoleTemplate(roleOf[u])) /\ ServerOK /\ HasAsked
      BY <2>2 DEF GrantInv, AllGranted, Granted, CalmInv, Inv, TypeOK
    <2>4. RoleTemplate(roleOf[u]) \in SUBSET {"write", "manage"}
      BY DEF RoleTemplate
    <2> QED BY <2>3, <2>4, HoldsAll
  <1> QED BY <1>1, <1>2, <1>3, PTL DEF Spec

(***************************************************************************)
(* The identity of an agent, while nothing goes wrong and the workspace    *)
(* has one organization.                                                   *)
(***************************************************************************)
\* Each join request is the one its program keeps the number of.
Tickets ==
  \A n \in DOMAIN joins :
    /\ joins[n].org \in orgs
    /\ agent[joins[n].name].ticket = [request |-> n, org |-> joins[n].org]

\* The program a asks only if it never did, and runs as what its request says.
Asker(a, ag) ==
  /\ ag.ticket # None => joins[ag.ticket.request].name = a
  /\ ag.pc = "ask" => ag.ticket = None
  /\ ag.pc = "live?" => ag.org \in orgs
  /\ ag.state # None =>
       /\ ag.ticket # None
       /\ joins[ag.ticket.request].status = "approved"
       /\ joins[ag.ticket.request].actor = ag.state.actor

Askers == \A a \in Programs : Asker(a, agent[a])

\* The only actor with the name of the request n is the one it was given, if it was.
Sole(n) ==
  {x \in DOMAIN actors : actors[x].name = joins[n].name}
    = IF joins[n].status = "approved" THEN {joins[n].actor} ELSE {}

Admitted ==
  /\ \A x \in DOMAIN actors : actors[x].name \in Programs =>
       \E n \in DOMAIN joins : joins[n].name = actors[x].name
  /\ \A n \in DOMAIN joins : n \notin overlapped => Sole(n)

\* Whoever makes an actor for a request still finds it open.
Opened ==
  \A c \in DOMAIN proc :
    proc[c].pc = "createAgent" /\ c.on \notin overlapped => joins[c.on].status = "open"

OneEach == Tickets /\ Askers /\ Admitted /\ Opened

\* The row of the call c answers the join request n.
Answers(c, q, n) == c.op = "resolve" /\ c.on = n /\ q.pc \in {"act", "createAgent"}

Alone ==
  \A n \in DOMAIN joins : n \notin overlapped =>
    \A c, d \in DOMAIN proc : Answers(c, proc[c], n) /\ Answers(d, proc[d], n) => c = d

LEMMA AloneStep ==
  ASSUME overlapped' = overlapped \cup Overlaps'
  PROVE  Alone'
  <1> SUFFICES ASSUME NEW n \in DOMAIN joins', n \notin overlapped',
                      NEW c \in DOMAIN proc', NEW d \in DOMAIN proc',
                      Answers(c, proc[c], n)', Answers(d, proc[d], n)', c # d
               PROVE  FALSE
    BY DEF Alone
  <1>1. \A p \in DOMAIN proc' : Answers(p, proc[p], n)' <=>
          (p.op = "resolve" /\ p.on = n /\ proc'[p].pc \in {"act", "createAgent"})
    BY DEF Answers
  <1>2. n \in Overlaps'
    BY <1>1 DEF Overlaps, Pairs
  <1> QED BY <1>2

\* Join requests are asked for and answered.
LEMMA JoinMoves ==
  ASSUME Inv, Step, Calmed
  PROVE  \/ joins' = joins
         \/ \E c \in DOMAIN proc : CreateAgentActor(c)
         \/ \E c \in DOMAIN proc : ResolveJoin(c) /\ ResolveAgentJoinRequest(c.on, "denied", None)
         \/ \E a \in Programs : AskToJoin(a)
  <1>1. lost' = FALSE
    BY DEF Calmed, Calm, Inv, TypeOK, LeftOK
  <1>2. CASE \E c \in DOMAIN proc : Resolution(c) \/ Request(c)
    BY <1>2 DEF Resolution, EnsureUserPrincipal, Probe, CreateOrg, CreateActor, Settle, Request,
                Refused, CreateBootstrapActor, RevokeAllActorGrants, ApplyRoleGrants,
                CreateDefaultChannel, AnswerLost, appDb
  <1>3. ASSUME NEW c \in DOMAIN proc, CallStep(c)
        PROVE  \/ joins' = joins
               \/ CreateAgentActor(c)
               \/ ResolveJoin(c) /\ ResolveAgentJoinRequest(c.on, "denied", None)
    BY <1>3 DEF CallStep, Handle, CheckCapability, ListChannels, SetActorRole, ResolveJoin, Answer,
                NewChannel, CreatePermissionRequest, ResolvePermissionRequest, appDb
  <1>4. CASE \E c \in waiting : SendInvite(c) \/ AcceptInvite(c) \/ RequirePrincipal(c)
    BY <1>4 DEF SendInvite, AcceptInvite, RequirePrincipal, appDb
  <1>5. ASSUME NEW a \in Programs, BootstrapAgent(a) \/ AgentStops(a)
        PROVE  joins' = joins \/ AskToJoin(a)
    BY <1>1, <1>5 DEF BootstrapAgent, ResolveWorkspace, ActorIsLive, WaitForJoinApproval,
                      AgentStops, appDb
  <1>6. CASE AppRestart \/ ServerRestart
    BY <1>6 DEF AppRestart, ServerRestart, appDb
  <1> QED BY <1>2, <1>3, <1>4, <1>5, <1>6
          DEF Step, PoetBootstrap, WeatherBootstrap, AssistantBootstrap, CursorBootstrap

\* An answer writes the status and the actor of its request.
LEMMA AnswerIs ==
  ASSUME Inv, NEW n \in DOMAIN joins, NEW v \in {"approved", "denied"}, NEW a \in Id,
         ResolveAgentJoinRequest(n, v, a)
  PROVE  /\ DOMAIN joins' = DOMAIN joins
         /\ \A k \in DOMAIN joins : k # n => joins'[k] = joins[k]
         /\ joins'[n].name = joins[n].name /\ joins'[n].org = joins[n].org
         /\ joins[n].status # "open" => joins'[n] = joins[n]
         /\ joins[n].status = "open" => joins'[n].status = v /\ joins'[n].actor = a
  <1>1. joins \in Seq(Join) /\ joins[n] \in Join
    BY DEF Inv, TypeOK, AppOK
  <1>2. CASE joins[n].status = "open"
    <2> PICK x : x = [joins[n] EXCEPT !.status = v, !.actor = a]
      OBVIOUS
    <2>1. x.name = joins[n].name /\ x.org = joins[n].org /\ x.status = v /\ x.actor = a
      BY <1>1 DEF Join
    <2>2. joins' = [joins EXCEPT ![n] = x]
      BY <1>2 DEF ResolveAgentJoinRequest
    <2> QED BY <1>1, <1>2, <2>1, <2>2
  <1>3. CASE joins[n].status # "open"
    BY <1>3 DEF ResolveAgentJoinRequest
  <1> QED BY <1>2, <1>3

LEMMA AskIs ==
  ASSUME Inv, NEW a, Asked(a)
  PROVE  /\ Len(joins) + 1 \notin DOMAIN joins
         /\ DOMAIN joins' = DOMAIN joins \cup {Len(joins) + 1}
         /\ \A k \in DOMAIN joins : joins'[k] = joins[k]
         /\ joins'[Len(joins) + 1] =
              [name |-> a, org |-> settings.org, status |-> "open", actor |-> None]
  <1> PICK row : row = [name |-> a, org |-> settings.org, status |-> "open", actor |-> None]
    OBVIOUS
  <1>1. joins' = Append(joins, row) /\ joins \in Seq(Join)
    BY DEF Asked, Inv, TypeOK, AppOK
  <1>2. /\ Len(joins) \in Nat /\ DOMAIN joins = 1 .. Len(joins)
        /\ DOMAIN joins' = 1 .. (Len(joins) + 1)
        /\ \A k \in 1 .. Len(joins) : joins'[k] = joins[k]
        /\ joins'[Len(joins) + 1] = row
    BY <1>1
  <1> QED BY <1>2

\* A request keeps its name and organization, and once approved its actor.
JoinsKept ==
  \A n \in DOMAIN joins :
    /\ n \in DOMAIN joins' /\ joins'[n].name = joins[n].name /\ joins'[n].org = joins[n].org
    /\ joins[n].status # "open" => joins'[n] = joins[n]

LEMMA JoinsKeep ==
  ASSUME Inv, Step, Calmed
  PROVE  JoinsKept
  <1>1. CASE joins' = joins
    BY <1>1 DEF JoinsKept
  <1>2. ASSUME NEW c \in DOMAIN proc, CreateAgentActor(c)  PROVE JoinsKept
    <2> PICK f : f = Fresh
      OBVIOUS
    <2>1. c.on \in DOMAIN joins /\ f \in Id /\ ResolveAgentJoinRequest(c.on, "approved", f)
      BY <1>2, FreshIs DEF CreateAgentActor, Inv, Rows, Backed, Shape, TypeOK, Id
    <2> QED BY <2>1, AnswerIs DEF JoinsKept
  <1>3. ASSUME NEW c \in DOMAIN proc, ResolveJoin(c),
               ResolveAgentJoinRequest(c.on, "denied", None)
        PROVE  JoinsKept
    <2>1. c.on \in DOMAIN joins /\ None \in Id
      BY <1>3 DEF ResolveJoin, Inv, Rows, Backed, Id
    <2> QED BY <1>3, <2>1, AnswerIs DEF JoinsKept
  <1>4. ASSUME NEW a \in Programs, AskToJoin(a)  PROVE JoinsKept
    <2>1. Asked(a)
      BY <1>4 DEF AskToJoin
    <2> QED BY <2>1, AskIs DEF JoinsKept
  <1> QED BY <1>1, <1>2, <1>3, <1>4, JoinMoves

\* A program that neither asks nor comes in.
LEMMA AskerAs ==
  ASSUME Inv, Step, Calmed, NEW a, NEW ag, AgentOK(ag), Asker(a, ag), NEW x,
         x.ticket = ag.ticket, x.state = ag.state, x.pc = "ask" => x.ticket = None,
         x.pc = "live?" => x.org \in orgs
  PROVE  Asker(a, x)'
  <1>1. JoinsKept /\ orgs \subseteq orgs'
    BY JoinsKeep, CalmStays DEF CalmKept
  <1>2. ag.ticket # None => ag.ticket.request \in DOMAIN joins
    BY DEF AgentOK
  <1>3. x.ticket # None => joins'[x.ticket.request].name = a
    BY <1>1, <1>2 DEF Asker, JoinsKept
  <1>4. x.state # None =>
          /\ x.ticket # None
          /\ joins'[x.ticket.request].status = "approved"
          /\ joins'[x.ticket.request].actor = x.state.actor
    BY <1>1, <1>2 DEF Asker, JoinsKept
  <1> QED BY <1>1, <1>3, <1>4 DEF Asker

\* The saved request is of the one organization.
LEMMA TicketOrg ==
  ASSUME Inv, Tickets, OneOrg, NEW a \in Programs, NEW ag, ag = agent[a], Asker(a, ag),
         ag.ticket # None, NEW o \in orgs
  PROVE  ag.ticket.org = o
  <1> PICK n : n = ag.ticket.request
    OBVIOUS
  <1>1. n \in DOMAIN joins /\ joins[n].name = a
    BY DEF Inv, TypeOK, AgentsOK, AgentOK, Asker
  <1>2. ag.ticket = [request |-> n, org |-> joins[n].org] /\ joins[n].org \in orgs
    BY <1>1 DEF Tickets
  <1>3. ag.ticket.org = joins[n].org
    BY <1>2
  <1> QED BY <1>2, <1>3 DEF OneOrg

\* What a step of the program a makes of it.
Turns(a, x) ==
  /\ agent' = [agent EXCEPT ![a] = x]
  /\ Asker(a, x)'
  /\ \/ x.ticket = agent[a].ticket
     \/ AskToJoin(a) /\ x.ticket = [request |-> Len(joins) + 1, org |-> settings.org]

LEMMA AgentTurns ==
  ASSUME Inv, Step, Calmed, OneOrg, Tickets, Askers, NEW a \in Programs,
         BootstrapAgent(a) \/ AgentStops(a)
  PROVE  \E x : Turns(a, x)
  <1> PICK ag \in Agent : ag = agent[a]
    BY DEF Inv, TypeOK, AgentsOK
  <1>1. AgentOK(ag) /\ Asker(a, ag) /\ settings.org \in Id /\ ag.org \in Id
    BY DEF Inv, TypeOK, AgentsOK, AppOK, Settings, Askers, Agent
  <1>2. settings.org # None => settings.org \in orgs
    BY DEF Calmed, Known, Housed
  <1>3. CASE ResolveWorkspace(a)
    <2>p. PICK up, live, y :
           /\ up = [ag EXCEPT !.boots = @ - 1]
           /\ live = [up EXCEPT !.pc = "live?", !.org = settings.org]
           /\ y = Joining(up, settings.org)
      OBVIOUS
    <2>1. up \in Agent /\ up.ticket = ag.ticket /\ up.state = ag.state /\ up.pc = "off"
      BY <1>3, <2>p DEF Agent, ResolveWorkspace
    <2>2. live.ticket = ag.ticket /\ live.state = ag.state /\ live.pc = "live?"
          /\ live.org = settings.org
      BY <1>1, <2>1, <2>p DEF Agent
    <2>3. y.ticket = ag.ticket /\ y.state = ag.state /\ y.pc \in {"poll", "ask"}
          /\ (y.pc = "ask" => ag.ticket = None \/ ag.ticket.org # settings.org)
      <3>1. y = Joining(up, settings.org)
        BY <2>p
      <3>2. /\ y.pc \in {"poll", "ask"} /\ y.ticket = up.ticket /\ y.state = up.state
            /\ y.pc = "ask" => up.ticket = None \/ up.ticket.org # settings.org
        BY <1>1, <2>1, <3>1, JoiningIs
      <3> QED BY <2>1, <3>2
    <2>4. \/ agent' = [agent EXCEPT ![a] = up]
          \/ settings.org # None /\ agent' = [agent EXCEPT ![a] = live]
          \/ settings.org # None /\ agent' = [agent EXCEPT ![a] = y]
      <3>0. ag.state # None => ag.state.org # None
        BY NamesAssumption DEF Agent, Mapped
      <3>1. CASE settings.org = None
        BY <1>3, <2>p, <3>0, <3>1 DEF ResolveWorkspace
      <3>2. CASE settings.org # None /\ ag.state # None /\ ag.state.org = settings.org
        BY <1>3, <2>p, <3>2 DEF ResolveWorkspace
      <3>3. CASE settings.org # None /\ ~(ag.state # None /\ ag.state.org = settings.org)
        BY <1>3, <2>p, <3>3 DEF ResolveWorkspace
      <3> QED BY <3>1, <3>2, <3>3
    <2>5. Asker(a, up)'
      BY <1>1, <2>1, AskerAs
    <2>6. settings.org # None => Asker(a, live)'
      BY <1>1, <1>2, <2>2, AskerAs
    <2>7. settings.org # None => Asker(a, y)'
      <3>1. settings.org # None /\ y.pc = "ask" => y.ticket = None
        BY <1>1, <1>2, <2>3, TicketOrg
      <3> QED BY <1>1, <2>3, <3>1, AskerAs
    <2> QED BY <2>1, <2>2, <2>3, <2>4, <2>5, <2>6, <2>7 DEF Turns
  <1>4. CASE ActorIsLive(a)
    <2>p. PICK x, y : x = [ag EXCEPT !.pc = "in"] /\ y = Joining(ag, ag.org)
      OBVIOUS
    <2>1. x.ticket = ag.ticket /\ x.state = ag.state /\ x.pc = "in"
      BY <2>p DEF Agent
    <2>2. y.ticket = ag.ticket /\ y.state = ag.state /\ y.pc \in {"poll", "ask"}
          /\ (y.pc = "ask" => ag.ticket = None \/ ag.ticket.org # ag.org)
      BY <1>1, <2>p, JoiningIs
    <2>3. agent' = [agent EXCEPT ![a] = x] \/ agent' = [agent EXCEPT ![a] = y]
      BY <1>4, <2>p DEF ActorIsLive
    <2>4. Asker(a, x)'
      BY <1>1, <2>1, AskerAs
    <2>5. ag.org \in orgs
      BY <1>1, <1>4 DEF ActorIsLive, Asker
    <2>6. y.pc = "ask" => y.ticket = None
      BY <1>1, <2>2, <2>5, TicketOrg
    <2>7. Asker(a, y)'
      BY <1>1, <2>2, <2>6, AskerAs
    <2> QED BY <2>1, <2>2, <2>3, <2>4, <2>7 DEF Turns
  <1>5. CASE AskToJoin(a)
    <2>p. PICK t, x : /\ t = [request |-> Len(joins) + 1, org |-> settings.org]
                      /\ x = [ag EXCEPT !.pc = "poll", !.ticket = t]
      OBVIOUS
    <2>1. x.ticket = t /\ x.state = ag.state /\ x.pc = "poll"
      BY <2>p DEF Agent
    <2>2. agent' = [agent EXCEPT ![a] = x] /\ ag.pc = "ask" /\ Asked(a)
      BY <1>5, <2>p DEF AskToJoin
    <2>3. t.request = Len(joins) + 1 /\ ag.state = None
      BY <1>1, <2>2, <2>p DEF Asker
    <2>4. joins'[t.request].name = a
      <3> PICK row : row = [name |-> a, org |-> settings.org, status |-> "open", actor |-> None]
        OBVIOUS
      <3>1. joins'[Len(joins) + 1] = row
        BY <2>2, AskIs
      <3> QED BY <2>3, <3>1
    <2>5. Asker(a, x)'
      BY <2>1, <2>3, <2>4 DEF Asker
    <2> QED BY <1>5, <2>1, <2>2, <2>5, <2>p DEF Turns
  <1>6. CASE WaitForJoinApproval(a)
    <2> PICK row : row = joins[ag.ticket.request]
      OBVIOUS
    <2>p. PICK v, x, y : /\ v = [actor |-> row.actor, org |-> ag.ticket.org]
                         /\ x = [ag EXCEPT !.pc = "in", !.state = v]
                         /\ y = [ag EXCEPT !.pc = "off"]
      OBVIOUS
    <2>1. x.ticket = ag.ticket /\ x.state = v /\ x.pc = "in" /\ v.actor = row.actor
      BY <2>p DEF Agent
    <2>2. y.ticket = ag.ticket /\ y.state = ag.state /\ y.pc = "off"
      BY <2>p DEF Agent
    <2>3. /\ ag.pc = "poll" /\ joins' = joins
          /\ \/ row.status = "approved" /\ agent' = [agent EXCEPT ![a] = x]
             \/ agent' = [agent EXCEPT ![a] = y]
      BY <1>6, <2>p DEF WaitForJoinApproval, appDb
    <2>4. Asker(a, y)'
      BY <1>1, <2>2, AskerAs
    <2>5. row.status = "approved" => Asker(a, x)'
      <3>1. ag.ticket # None
        BY <1>1, <2>3 DEF AgentOK
      <3>2. joins'[ag.ticket.request] = row /\ row.name = a
        BY <1>1, <2>3, <3>1 DEF Asker
      <3> QED BY <2>1, <3>1, <3>2 DEF Asker
    <2> QED BY <2>1, <2>2, <2>3, <2>4, <2>5 DEF Turns
  <1>7. CASE AgentStops(a)
    <2>p. PICK x : x = [ag EXCEPT !.pc = "off"]
      OBVIOUS
    <2>1. x.ticket = ag.ticket /\ x.state = ag.state /\ x.pc = "off"
      BY <2>p DEF Agent
    <2>2. agent' = [agent EXCEPT ![a] = x]
      BY <1>7, <2>p DEF AgentStops
    <2>3. Asker(a, x)'
      BY <1>1, <2>1, AskerAs
    <2> QED BY <2>1, <2>2, <2>3 DEF Turns
  <1> QED BY <1>3, <1>4, <1>5, <1>6, <1>7 DEF BootstrapAgent

LEMMA AgentsAct ==
  ASSUME Step
  PROVE  agent' = agent \/ \E a \in Programs : BootstrapAgent(a) \/ AgentStops(a)
  <1>1. CASE \E c \in DOMAIN proc : Resolution(c) \/ Request(c)
    BY <1>1 DEF Resolution, EnsureUserPrincipal, Probe, CreateOrg, CreateActor, Settle, Request,
                Refused, CreateBootstrapActor, RevokeAllActorGrants, ApplyRoleGrants,
                CreateDefaultChannel, AnswerLost
  <1>2. CASE \E c \in DOMAIN proc : CallStep(c)
    BY <1>2 DEF CallStep, Handle, CheckCapability, ListChannels, SetActorRole, ResolveJoin,
                CreateAgentActor, Answer, NewChannel, CreatePermissionRequest,
                ResolvePermissionRequest
  <1>3. CASE \E c \in waiting : SendInvite(c) \/ AcceptInvite(c) \/ RequirePrincipal(c)
    BY <1>3 DEF SendInvite, AcceptInvite, RequirePrincipal
  <1>4. CASE AppRestart \/ ServerRestart
    BY <1>4 DEF AppRestart, ServerRestart
  <1> QED BY <1>1, <1>2, <1>3, <1>4
          DEF Step, PoetBootstrap, WeatherBootstrap, AssistantBootstrap, CursorBootstrap

LEMMA AskersStep ==
  ASSUME Inv, Step, Calmed, OneOrg, Tickets, Askers
  PROVE  Askers'
  <1>1. CASE agent' = agent
    <2> SUFFICES ASSUME NEW a \in Programs  PROVE Asker(a, agent[a])'
      BY DEF Askers
    <2> PICK ag : ag = agent[a]
      OBVIOUS
    <2>1. AgentOK(ag) /\ Asker(a, ag)
      BY DEF Inv, TypeOK, AgentsOK, Askers
    <2>2. Asker(a, ag)'
      BY <2>1, AskerAs DEF Asker
    <2> QED BY <1>1, <2>2 DEF Asker
  <1>2. ASSUME NEW a \in Programs, BootstrapAgent(a) \/ AgentStops(a)  PROVE Askers'
    <2>1. PICK x : Turns(a, x)
      BY <1>2, AgentTurns
    <2>2. agent'[a] = x /\ \A b \in Programs : b # a => agent'[b] = agent[b]
      BY <2>1 DEF Turns, Inv, TypeOK, AgentsOK
    <2> SUFFICES ASSUME NEW b \in Programs  PROVE Asker(b, agent[b])'
      BY DEF Askers
    <2>3. CASE b = a
      BY <2>1, <2>2, <2>3 DEF Turns, Asker
    <2>4. CASE b # a
      <3> PICK ag : ag = agent[b]
        OBVIOUS
      <3>1. AgentOK(ag) /\ Asker(b, ag)
        BY DEF Inv, TypeOK, AgentsOK, Askers
      <3>2. Asker(b, ag)'
        BY <3>1, AskerAs DEF Asker
      <3> QED BY <2>2, <2>4, <3>2 DEF Asker
    <2> QED BY <2>3, <2>4
  <1> QED BY <1>1, <1>2, AgentsAct

\* A program that asks, and the number it is given.
LEMMA AskTicket ==
  ASSUME Inv, NEW a \in Programs, AskToJoin(a)
  PROVE  /\ Asked(a) /\ agent[a].pc = "ask" /\ UNCHANGED <<server, settings, proc>>
         /\ agent'[a].ticket = [request |-> Len(joins) + 1, org |-> settings.org]
         /\ \A b \in Programs : b # a => agent'[b] = agent[b]
  <1> PICK ag \in Agent : ag = agent[a]
    BY DEF Inv, TypeOK, AgentsOK
  <1>p. PICK t, x : /\ t = [request |-> Len(joins) + 1, org |-> settings.org]
                    /\ x = [ag EXCEPT !.pc = "poll", !.ticket = t]
    OBVIOUS
  <1>1. x.ticket = t
    BY <1>p DEF Agent
  <1>2. agent' = [agent EXCEPT ![a] = x]
    BY <1>p DEF AskToJoin
  <1> QED BY <1>1, <1>2, <1>p DEF AskToJoin, Inv, TypeOK, AgentsOK

LEMMA JoinsNew ==
  ASSUME Inv, Step, Calmed, \A a \in Programs : ~AskToJoin(a)
  PROVE  DOMAIN joins' = DOMAIN joins
  <1>1. ASSUME NEW c \in DOMAIN proc, CreateAgentActor(c)  PROVE DOMAIN joins' = DOMAIN joins
    <2> PICK f : f = Fresh
      OBVIOUS
    <2>1. c.on \in DOMAIN joins /\ f \in Id /\ ResolveAgentJoinRequest(c.on, "approved", f)
      BY <1>1, FreshIs DEF CreateAgentActor, Inv, Rows, Backed, Shape, TypeOK, Id
    <2> QED BY <2>1, AnswerIs
  <1>2. ASSUME NEW c \in DOMAIN proc, ResolveJoin(c),
               ResolveAgentJoinRequest(c.on, "denied", None)
        PROVE  DOMAIN joins' = DOMAIN joins
    <2>1. c.on \in DOMAIN joins /\ None \in Id
      BY <1>2 DEF ResolveJoin, Inv, Rows, Backed, Id
    <2> QED BY <1>2, <2>1, AnswerIs
  <1> QED BY <1>1, <1>2, JoinMoves

\* A program that has asked has a ticket.
LEMMA AskedHas ==
  ASSUME Inv, Tickets, NEW n \in DOMAIN joins
  PROVE  joins[n].name \in Programs /\ agent[joins[n].name].ticket # None
  <1>0. joins \in Seq(Join) /\ joins[n] \in Join /\ n \in Nat
    BY DEF Inv, TypeOK, AppOK
  <1>1. joins[n].name \in Programs /\ joins[n].org \in Nat
    BY <1>0 DEF Join
  <1> PICK o \in Nat : o = joins[n].org
    BY <1>1
  <1>2. agent[joins[n].name].ticket \in Ticket
    <2>1. agent[joins[n].name].ticket = [request |-> n, org |-> o]
      BY DEF Tickets
    <2>2. [request |-> n, org |-> o] \in Ticket
      BY <1>0 DEF Ticket
    <2> QED BY <2>1, <2>2
  <1> QED BY <1>1, <1>2, NamesAssumption DEF Ticket

LEMMA TicketsStep ==
  ASSUME Inv, Step, Calmed, OneOrg, Tickets, Askers
  PROVE  Tickets'
  <1>1. JoinsKept /\ orgs \subseteq orgs'
    BY JoinsKeep, CalmStays DEF CalmKept
  <1>2. ASSUME NEW a \in Programs, AskToJoin(a)  PROVE Tickets'
    <2>1. /\ Asked(a) /\ agent[a].pc = "ask" /\ orgs' = orgs
          /\ agent'[a].ticket = [request |-> Len(joins) + 1, org |-> settings.org]
          /\ \A b \in Programs : b # a => agent'[b] = agent[b]
      BY <1>2, AskTicket DEF server
    <2>2. agent[a].ticket = None /\ settings.org # None
      BY <2>1 DEF Askers, Asker, Inv, TypeOK, AgentsOK, AgentOK
    <2>3. settings.org \in orgs
      BY <2>2 DEF Calmed, Known, Housed
    <2>4. ASSUME NEW n \in DOMAIN joins
          PROVE  /\ joins'[n].org \in orgs'
                 /\ agent'[joins'[n].name].ticket = [request |-> n, org |-> joins'[n].org]
      <3>1. joins[n].name # a /\ joins[n].name \in Programs
        BY <2>2, AskedHas
      <3>2. joins'[n] = joins[n]
        BY <2>1, AskIs
      <3> QED BY <2>1, <3>1, <3>2 DEF Tickets
    <2>5. ASSUME NEW n, n = Len(joins) + 1
          PROVE  /\ joins'[n].org \in orgs'
                 /\ agent'[joins'[n].name].ticket = [request |-> n, org |-> joins'[n].org]
      <3> PICK row : row = [name |-> a, org |-> settings.org, status |-> "open", actor |-> None]
        OBVIOUS
      <3>1. joins'[n] = row /\ row.name = a /\ row.org = settings.org
        BY <2>1, <2>5, AskIs
      <3> QED BY <2>1, <2>3, <2>5, <3>1
    <2>6. DOMAIN joins' = DOMAIN joins \cup {Len(joins) + 1}
      BY <2>1, AskIs
    <2> QED BY <2>4, <2>5, <2>6 DEF Tickets
  <1>3. CASE \A a \in Programs : ~AskToJoin(a)
    <2>1. DOMAIN joins' = DOMAIN joins
      BY <1>3, JoinsNew
    <2>2. \A b \in Programs : agent'[b].ticket = agent[b].ticket
      <3>1. CASE agent' = agent
        BY <3>1
      <3>2. ASSUME NEW a \in Programs, BootstrapAgent(a) \/ AgentStops(a)
            PROVE  \A b \in Programs : agent'[b].ticket = agent[b].ticket
        <4>1. PICK x : Turns(a, x)
          BY <3>2, AgentTurns
        <4>2. agent'[a] = x /\ \A b \in Programs : b # a => agent'[b] = agent[b]
          BY <4>1 DEF Turns, Inv, TypeOK, AgentsOK
        <4>3. x.ticket = agent[a].ticket
          BY <1>3, <4>1 DEF Turns
        <4> QED BY <4>2, <4>3
      <3> QED BY <3>1, <3>2, AgentsAct
    <2> SUFFICES ASSUME NEW n \in DOMAIN joins
                 PROVE  /\ joins'[n].org \in orgs'
                        /\ agent'[joins'[n].name].ticket = [request |-> n, org |-> joins'[n].org]
      BY <2>1 DEF Tickets
    <2>3. joins'[n].name = joins[n].name /\ joins'[n].org = joins[n].org
          /\ joins[n].name \in Programs
      BY <1>1, AskedHas DEF JoinsKept
    <2> QED BY <1>1, <2>2, <2>3 DEF Tickets
  <1> QED BY <1>2, <1>3

LEMMA OpenedStep ==
  ASSUME Inv, Step, Calmed, Alone, Opened, overlapped \subseteq overlapped'
  PROVE  Opened'
  <1> SUFFICES ASSUME NEW c \in DOMAIN proc', proc'[c].pc = "createAgent", c.on \notin overlapped'
               PROVE  joins'[c.on].status = "open"
    BY DEF Opened
  <1>1. c \in DOMAIN proc
    BY RowMoves
  <1>2. CASE ResolveJoin(c)
    <2>1. joins' = joins /\ joins[c.on].status = "open"
      <3> PICK q, e : q = proc[c] /\ e = [q EXCEPT !.pc = "end"]
        OBVIOUS
      <3>1. q \in Row /\ e.pc = "end"
        BY <1>1 DEF Inv, Rows, Shape, Row
      <3>2. ~Put(c, e)
        BY <1>1, <3>1 DEF Put
      <3> QED BY <1>2, <3>2 DEF ResolveJoin
    <2> QED BY <2>1
  <1>3. CASE ~ResolveJoin(c)
    <2>1. proc'[c] = proc[c] /\ Shape(c, proc[c]) /\ c.on \in DOMAIN joins
      BY <1>1, <1>3, RowMoves DEF Onward, Inv, Rows, Backed, Shape
    <2>2. c.op = "resolve" /\ joins[c.on].status = "open"
      BY <1>1, <2>1 DEF Shape, Opened
    <2>3. \A d \in DOMAIN proc : d # c => ~Answers(d, proc[d], c.on)
      BY <1>1, <2>1, <2>2 DEF Alone, Answers
    <2>4. ASSUME NEW d \in DOMAIN proc, d # c, d.on = c.on,
                 d.op = "resolve", proc[d].pc \in {"act", "createAgent"}
          PROVE  FALSE
      BY <2>3, <2>4 DEF Answers
    <2>5. ASSUME NEW d \in DOMAIN proc, CreateAgentActor(d)  PROVE joins'[c.on] = joins[c.on]
      <3> PICK f, q, e : f = Fresh /\ q = proc[d] /\ e = [q EXCEPT !.pc = "end"]
        OBVIOUS
      <3>1. /\ ResolveAgentJoinRequest(d.on, "approved", f) /\ Put(d, e)
            /\ q.pc = "createAgent"
        BY <2>5 DEF CreateAgentActor
      <3>2. Shape(d, q) /\ Backed(d, q) /\ q \in Row
        BY DEF Inv, Rows, Shape
      <3>3. d.op = "resolve" /\ d.on \in DOMAIN joins /\ f \in Id /\ e.pc = "end"
        BY <3>1, <3>2, FreshIs DEF Shape, Backed, Row, Inv, TypeOK, Id
      <3>4. d # c
        BY <2>1, <3>1, <3>3 DEF Put
      <3>5. d.on # c.on
        BY <2>4, <3>1, <3>3, <3>4
      <3> QED BY <2>1, <3>1, <3>3, <3>5, AnswerIs
    <2>6. ASSUME NEW d \in DOMAIN proc, ResolveJoin(d),
                 ResolveAgentJoinRequest(d.on, "denied", None)
          PROVE  joins'[c.on] = joins[c.on]
      <3>1. d.op = "resolve" /\ proc[d].pc = "act" /\ Backed(d, proc[d]) /\ None \in Id
        BY <2>6 DEF ResolveJoin, Inv, Rows, Id
      <3>2. d # c /\ d.on \in DOMAIN joins
        BY <2>1, <3>1 DEF Backed
      <3>3. d.on # c.on
        BY <2>4, <3>1, <3>2
      <3> QED BY <2>1, <2>6, <3>1, <3>2, <3>3, AnswerIs
    <2>7. ASSUME NEW a \in Programs, AskToJoin(a)  PROVE joins'[c.on] = joins[c.on]
      BY <2>1, <2>7, AskTicket, AskIs
    <2> QED BY <2>2, <2>5, <2>6, <2>7, JoinMoves
  <1> QED BY <1>2, <1>3

\* Only an approval makes an actor for a program.
LEMMA ProgramActors ==
  ASSUME Inv, Step, Calmed, \A c \in DOMAIN proc : ~CreateAgentActor(c)
  PROVE  \A x \in DOMAIN actors' : actors'[x].name \in Programs =>
           x \in DOMAIN actors /\ actors'[x] = actors[x]
  <1> SUFFICES ASSUME NEW x \in DOMAIN actors', actors'[x].name \in Programs
               PROVE  x \in DOMAIN actors
    BY CalmStays DEF CalmKept
  <1> SUFFICES ASSUME x \notin DOMAIN actors  PROVE FALSE
    OBVIOUS
  <1>1. PICK c \in DOMAIN proc :
          \E f : Made(f, proc[c]) /\ (proc[c].pc = "createAgent" => CreateAgentActor(c))
    BY ActorsGrow
  <1>2. PICK f : Made(f, proc[c])
    BY <1>1
  <1>3. x = f /\ actors'[x].name = proc[c].name /\ proc[c].pc \in {"createActor", "createBoot"}
    <2>1. DOMAIN actors' = DOMAIN actors \cup {f} /\ actors'[f].name = proc[c].name
      BY <1>2, MadeIs
    <2>2. proc[c].pc \in {"createActor", "createBoot"}
      BY <1>1, <1>2 DEF Made
    <2> QED BY <2>1, <2>2
  <1>4. Shape(c, proc[c])
    BY DEF Inv, Rows
  <1>5. proc[c].name \in Users \cup {"bootstrap"}
    BY <1>3, <1>4 DEF Shape, Sound
  <1> QED BY <1>3, <1>5, NamesAssumption

\* The actor an approval makes has the name its request has.
LEMMA AgentMade ==
  ASSUME Inv, NEW c \in DOMAIN proc, CreateAgentActor(c)
  PROVE  \E f : /\ f \in Nat /\ f \notin DOMAIN actors /\ DOMAIN actors' = DOMAIN actors \cup {f}
                /\ \A x \in DOMAIN actors : actors'[x] = actors[x]
                /\ c.on \in DOMAIN joins /\ actors'[f].name = joins[c.on].name
                /\ ResolveAgentJoinRequest(c.on, "approved", f)
  <1> PICK f, q : f = Fresh /\ q = proc[c]
    OBVIOUS
  <1>1. q.pc = "createAgent" /\ Served(q) /\ ResolveAgentJoinRequest(c.on, "approved", f)
    BY DEF CreateAgentActor
  <1>2. Shape(c, q) /\ Backed(c, q)
    BY DEF Inv, Rows
  <1>3. c.on \in DOMAIN joins /\ q.name = joins[c.on].name
    BY <1>1, <1>2 DEF Shape, Backed
  <1>4. Made(f, q)
    BY <1>1 DEF Made, Served
  <1>5. /\ DOMAIN actors' = DOMAIN actors \cup {f} /\ f \notin DOMAIN actors
        /\ actors'[f].name = q.name
    BY <1>4, MadeIs
  <1>6. \A x \in DOMAIN actors : actors'[x] = actors[x]
    BY <1>1, ServedKeeps DEF Inv, TypeOK
  <1>7. f \in Nat
    BY FreshIs DEF Inv, TypeOK
  <1> QED BY <1>1, <1>3, <1>5, <1>6, <1>7

\* Two requests have two names.
LEMMA TwoNames ==
  ASSUME Inv, Tickets, NEW m \in DOMAIN joins, NEW n \in DOMAIN joins,
         joins[m].name = joins[n].name
  PROVE  m = n
  <1>1. agent[joins[n].name].ticket = [request |-> n, org |-> joins[n].org]
        /\ agent[joins[n].name].ticket = [request |-> m, org |-> joins[m].org]
    BY DEF Tickets
  <1>2. agent[joins[n].name].ticket.request = n /\ agent[joins[n].name].ticket.request = m
    BY <1>1
  <1> QED BY <1>2

\* The actors of the programs, and the requests by their names, before and after.
SameActors ==
  \A b \in Programs : {x \in DOMAIN actors' : actors'[x].name = b}
                        = {x \in DOMAIN actors : actors[x].name = b}

LEMMA SameAre ==
  ASSUME Inv, Step, Calmed, \A c \in DOMAIN proc : ~CreateAgentActor(c)
  PROVE  SameActors
  <1>1. \A x \in DOMAIN actors : x \in DOMAIN actors' /\ actors'[x] = actors[x]
    BY CalmStays DEF CalmKept
  <1>2. \A x \in DOMAIN actors' : actors'[x].name \in Programs =>
          x \in DOMAIN actors /\ actors'[x] = actors[x]
    BY ProgramActors
  <1> QED BY <1>1, <1>2 DEF SameActors

LEMMA NamedByJoins ==
  ASSUME Inv, Step, Calmed, Admitted
  PROVE  \A x \in DOMAIN actors' : actors'[x].name \in Programs =>
           \E n \in DOMAIN joins' : joins'[n].name = actors'[x].name
  <1>1. JoinsKept
    BY JoinsKeep
  <1>2. ASSUME NEW x \in DOMAIN actors, actors[x].name \in Programs
        PROVE  \E n \in DOMAIN joins' : joins'[n].name = actors[x].name
    BY <1>1, <1>2 DEF Admitted, JoinsKept
  <1>3. ASSUME NEW c \in DOMAIN proc, CreateAgentActor(c), NEW x \in DOMAIN actors',
               actors'[x].name \in Programs
        PROVE  \E n \in DOMAIN joins' : joins'[n].name = actors'[x].name
    <2>1. PICK f : /\ DOMAIN actors' = DOMAIN actors \cup {f}
                   /\ \A y \in DOMAIN actors : actors'[y] = actors[y]
                   /\ c.on \in DOMAIN joins /\ actors'[f].name = joins[c.on].name
      BY <1>3, AgentMade
    <2>2. CASE x = f
      BY <1>1, <2>1, <2>2 DEF JoinsKept
    <2>3. CASE x \in DOMAIN actors
      BY <1>2, <1>3, <2>1, <2>3
    <2> QED BY <2>1, <2>2, <2>3
  <1>4. CASE \A c \in DOMAIN proc : ~CreateAgentActor(c)
    BY <1>2, <1>4, ProgramActors
  <1> QED BY <1>3, <1>4

\* A request that stays as it is, with the actors of its name.
LEMMA SoleKept ==
  ASSUME Inv, SameActors, NEW n \in DOMAIN joins, joins'[n] = joins[n], Sole(n)
  PROVE  Sole(n)'
  <1>1. joins[n].name \in Programs
    <2>1. joins \in Seq(Join) /\ joins[n] \in Join
      BY DEF Inv, TypeOK, AppOK
    <2> QED BY <2>1 DEF Join
  <1>2. {x \in DOMAIN actors' : actors'[x].name = joins[n].name}
          = {x \in DOMAIN actors : actors[x].name = joins[n].name}
    BY <1>1 DEF SameActors
  <1> QED BY <1>2 DEF Sole

LEMMA SoleStep ==
  ASSUME Inv, Step, Calmed, Tickets, Askers, Admitted, Opened, overlapped \subseteq overlapped',
         NEW n \in DOMAIN joins', n \notin overlapped'
  PROVE  Sole(n)'
  <1>1. n \in DOMAIN joins => Sole(n)
    BY DEF Admitted
  <1>2. ASSUME NEW c \in DOMAIN proc, CreateAgentActor(c)  PROVE Sole(n)'
    <2>1. PICK f : /\ f \in Nat /\ f \notin DOMAIN actors /\ DOMAIN actors' = DOMAIN actors \cup {f}
                   /\ \A x \in DOMAIN actors : actors'[x] = actors[x]
                   /\ c.on \in DOMAIN joins /\ actors'[f].name = joins[c.on].name
                   /\ ResolveAgentJoinRequest(c.on, "approved", f)
      BY <1>2, AgentMade
    <2>2. /\ DOMAIN joins' = DOMAIN joins /\ joins'[c.on].name = joins[c.on].name
          /\ \A k \in DOMAIN joins : k # c.on => joins'[k] = joins[k]
          /\ joins[c.on].status = "open"
               => joins'[c.on].status = "approved" /\ joins'[c.on].actor = f
      BY <2>1, AnswerIs DEF Id
    <2>3. CASE n = c.on
      <3>1. joins[n].status = "open"
        BY <1>2, <2>3 DEF Opened, CreateAgentActor
      <3>2. {x \in DOMAIN actors : actors[x].name = joins[n].name} = {}
        BY <1>1, <2>1, <2>3, <3>1 DEF Sole
      <3>3. {x \in DOMAIN actors' : actors'[x].name = joins[n].name} = {f}
        BY <2>1, <2>3, <3>2
      <3> QED BY <2>2, <2>3, <3>1, <3>3 DEF Sole
    <2>4. CASE n # c.on
      <3>1. n \in DOMAIN joins /\ joins'[n] = joins[n] /\ joins[n].name # joins[c.on].name
        BY <2>1, <2>2, <2>4, TwoNames
      <3>2. {x \in DOMAIN actors' : actors'[x].name = joins[n].name}
              = {x \in DOMAIN actors : actors[x].name = joins[n].name}
        BY <2>1, <3>1
      <3> QED BY <1>1, <3>1, <3>2 DEF Sole
    <2> QED BY <2>3, <2>4
  <1>3. CASE \A c \in DOMAIN proc : ~CreateAgentActor(c)
    <2>1. SameActors
      BY <1>3, SameAre
    <2>2. ASSUME n \in DOMAIN joins, joins'[n] = joins[n]  PROVE Sole(n)'
      BY <1>1, <2>1, <2>2, SoleKept
    <2>3. ASSUME NEW a \in Programs, AskToJoin(a)  PROVE Sole(n)'
      <3>1. Asked(a) /\ agent[a].pc = "ask" /\ actors' = actors
        BY <2>3, AskTicket DEF server
      <3>2. CASE n \in DOMAIN joins
        BY <2>2, <3>1, <3>2, AskIs
      <3>3. CASE n = Len(joins) + 1
        <4> PICK row : row = [name |-> a, org |-> settings.org, status |-> "open", actor |-> None]
          OBVIOUS
        <4>1. joins'[n] = row /\ row.name = a /\ row.status = "open"
          BY <3>1, <3>3, AskIs
        <4>2. agent[a].ticket = None
          BY <3>1 DEF Askers, Asker
        <4>3. \A m \in DOMAIN joins : joins[m].name # a
          BY <4>2, AskedHas
        <4>4. {x \in DOMAIN actors : actors[x].name = a} = {}
          BY <4>3 DEF Admitted
        <4> QED BY <3>1, <4>1, <4>4 DEF Sole
      <3>4. DOMAIN joins' = DOMAIN joins \cup {Len(joins) + 1}
        BY <3>1, AskIs
      <3> QED BY <3>2, <3>3, <3>4
    <2>4. ASSUME NEW c \in DOMAIN proc, ResolveJoin(c),
                 ResolveAgentJoinRequest(c.on, "denied", None)
          PROVE  Sole(n)'
      <3>1. c.on \in DOMAIN joins /\ None \in Id
        BY <2>4 DEF ResolveJoin, Inv, Rows, Backed, Id
      <3>2. /\ DOMAIN joins' = DOMAIN joins /\ joins'[c.on].name = joins[c.on].name
            /\ \A k \in DOMAIN joins : k # c.on => joins'[k] = joins[k]
            /\ joins[c.on].status # "open" => joins'[c.on] = joins[c.on]
            /\ joins[c.on].status = "open" => joins'[c.on].status = "denied"
        BY <2>4, <3>1, AnswerIs
      <3>3. CASE n = c.on /\ joins[c.on].status = "open"
        <4>1. {x \in DOMAIN actors : actors[x].name = joins[n].name} = {}
          BY <1>1, <3>1, <3>3 DEF Sole
        <4>2. actors' = actors
          BY <2>4 DEF ResolveJoin, server
        <4> QED BY <3>2, <3>3, <4>1, <4>2 DEF Sole
      <3>4. CASE ~(n = c.on /\ joins[c.on].status = "open")
        BY <2>2, <3>2, <3>4
      <3> QED BY <3>3, <3>4
    <2>5. CASE joins' = joins
      BY <2>2, <2>5
    <2> QED BY <1>3, <2>3, <2>4, <2>5, JoinMoves
  <1> QED BY <1>2, <1>3

LEMMA OneEachStep ==
  ASSUME Inv, Step, Calmed, OneOrg, Alone, OneEach, overlapped \subseteq overlapped'
  PROVE  OneEach'
  <1>1. Tickets' /\ Askers' /\ Opened'
    BY TicketsStep, AskersStep, OpenedStep DEF OneEach
  <1>2. Admitted'
    <2>1. \A n \in DOMAIN joins' : n \notin overlapped' => Sole(n)'
      BY SoleStep DEF OneEach
    <2>2. \A x \in DOMAIN actors' : actors'[x].name \in Programs =>
            \E n \in DOMAIN joins' : joins'[n].name = actors'[x].name
      BY NamedByJoins DEF OneEach
    <2> QED BY <2>1, <2>2 DEF Admitted, Sole
  <1> QED BY <1>1, <1>2 DEF OneEach

\* One identity for each program, with what that rests on.
IdentityInv == CalmInv /\ Alone /\ (Calm /\ OneOrg => OneEach)

LEMMA IdentityInit ==
  ASSUME Init
  PROVE  Alone /\ OneEach
  <1>1. PICK s \in Starts :
          LET o == s.owner
              open == o # None
          IN /\ actors = [a \in IF open THEN {2, 3} ELSE {} |->
                           [org |-> 1, kind |-> IF a = 2 THEN "human" ELSE "app",
                            name |-> IF a = 2 THEN o ELSE "bootstrap"]]
             /\ agent = [a \in Programs |->
                          [pc |-> "off", state |-> None, ticket |-> None, org |-> None,
                           boots |-> IF a = s.agent THEN s.boots ELSE 0]]
    BY DEF Init
  <1>2. DOMAIN joins = {} /\ DOMAIN proc = {}
    BY DEF Init
  <1>3. \A x \in DOMAIN actors : actors[x].name \notin Programs
    BY <1>1, NamesAssumption, StartsAssumption
  <1>4. Askers
    BY <1>1 DEF Askers, Asker
  <1> QED BY <1>2, <1>3, <1>4 DEF Alone, OneEach, Tickets, Admitted, Opened

LEMMA IdentityInvStays ==
  ASSUME IdentityInv, [Next]_vars
  PROVE  IdentityInv'
  <1>1. CalmInv'
    BY CalmInvStays DEF IdentityInv
  <1>2. CASE Next
    <2>1. Alone'
      BY <1>2, AloneStep DEF Next
    <2>2. ASSUME Calm', OneOrg'  PROVE OneEach'
      <3>1. Inv /\ Step /\ overlapped \subseteq overlapped'
        BY <1>2 DEF Next, IdentityInv, CalmInv
      <3>2. Calm
        BY <2>2, <3>1, CalmWas DEF Inv, TypeOK
      <3>3. Calmed /\ Alone
        BY <2>2, <3>2 DEF IdentityInv, CalmInv, Calmed
      <3>4. orgs \subseteq orgs'
        BY <3>1, <3>3, CalmStays DEF CalmKept
      <3>5. OneOrg
        BY <2>2, <3>4 DEF OneOrg
      <3>6. OneEach
        BY <3>2, <3>5 DEF IdentityInv
      <3> QED BY <3>1, <3>3, <3>5, <3>6, OneEachStep
    <2> QED BY <1>1, <2>1, <2>2 DEF IdentityInv
  <1>3. CASE UNCHANGED vars
    <2>1. /\ orgs' = orgs /\ actors' = actors /\ joins' = joins /\ proc' = proc /\ agent' = agent
          /\ left' = left /\ lost' = lost /\ overlapped' = overlapped
      BY <1>3 DEF vars, server, appDb
    <2>2. Alone'
      BY <2>1 DEF IdentityInv, Alone, Answers
    <2>3. Tickets => Tickets'
      BY <2>1 DEF Tickets
    <2>4. Askers => Askers'
      BY <2>1 DEF Askers, Asker
    <2>5. Admitted => Admitted'
      BY <2>1 DEF Admitted, Sole
    <2>6. Opened => Opened'
      BY <2>1 DEF Opened
    <2>7. Calm' /\ OneOrg' => Calm /\ OneOrg
      BY <2>1 DEF Calm, OneOrg
    <2> QED BY <1>1, <2>2, <2>3, <2>4, <2>5, <2>6, <2>7 DEF IdentityInv, OneEach
  <1> QED BY <1>2, <1>3

\* An agent's program asks once, however often it starts, and is given one actor, the
\* one its approved request names and it runs as, unless an answer was lost, the
\* server lost its data, two users opened an organization each or two answers to the
\* request overlapped (bootstrapAgent, resolveAgentJoinRequest).
THEOREM OneIdentityEach == Spec => []CalmlyOneIdentity
  <1>1. Init => IdentityInv
    BY InvInit, KnownInit, IdentityInit DEF IdentityInv, CalmInv
  <1>2. IdentityInv /\ [Next]_vars => IdentityInv'
    BY IdentityInvStays
  <1>3. IdentityInv => CalmlyOneIdentity
    <2> SUFFICES ASSUME IdentityInv, Calm, OneOrg, NEW a \in Programs,
                        NEW asked, asked = {n \in DOMAIN joins : joins[n].name = a}
                 PROVE  /\ Cardinality(asked) <= 1
                        /\ asked \cap overlapped = {} =>
                             {x \in DOMAIN actors : actors[x].name = a}
                               = {joins[n].actor : n \in {m \in asked :
                                                            joins[m].status = "approved"}}
                        /\ agent[a].pc = "in" =>
                             \E n \in asked : joins[n].actor = agent[a].state.actor
      BY DEF CalmlyOneIdentity
    <2>1. Inv /\ Tickets /\ Askers /\ Admitted
      BY DEF IdentityInv, CalmInv, OneEach
    <2>2. CASE asked = {}
      <3>1. {x \in DOMAIN actors : actors[x].name = a} = {}
        BY <2>1, <2>2 DEF Admitted
      <3>2. Cardinality(asked) = 0
        BY <2>2, FS_EmptySet
      <3>3. agent[a].pc # "in"
        <4>1. agent[a].ticket = None
          BY <2>1, <2>2 DEF Askers, Asker, Inv, TypeOK, AgentsOK, AgentOK
        <4> QED BY <2>1, <4>1 DEF Askers, Asker, Inv, TypeOK, AgentsOK, AgentOK
      <3> QED BY <2>2, <3>1, <3>2, <3>3
    <2>3. CASE asked # {}
      <3>1. PICK n \in DOMAIN joins : asked = {n} /\ joins[n].name = a
        BY <2>1, <2>3, TwoNames
      <3>2. Cardinality(asked) = 1
        BY <3>1, FS_Singleton
      <3>3. n \notin overlapped =>
              {x \in DOMAIN actors : actors[x].name = a}
                = {joins[k].actor : k \in {m \in asked : joins[m].status = "approved"}}
        <4>1. n \notin overlapped => Sole(n)
          BY <2>1 DEF Admitted
        <4> QED BY <3>1, <4>1 DEF Sole
      <3>4. agent[a].pc = "in" => joins[n].actor = agent[a].state.actor
        <4>1. agent[a].pc = "in" =>
                /\ agent[a].ticket # None
                /\ agent[a].ticket.request \in DOMAIN joins
                /\ joins[agent[a].ticket.request].name = a
                /\ joins[agent[a].ticket.request].actor = agent[a].state.actor
          BY <2>1 DEF Askers, Asker, Inv, TypeOK, AgentsOK, AgentOK
        <4> QED BY <2>1, <3>1, <4>1, TwoNames
      <3> QED BY <3>1, <3>2, <3>3, <3>4
    <2> QED BY <2>2, <2>3
  <1> QED BY <1>1, <1>2, <1>3, PTL DEF Spec

(***************************************************************************)
(* The page in the browser (TeamClient), the other half of the team        *)
(* application: what its composer and its screen hold.                     *)
(***************************************************************************)
\* A request, with other data and served or not.
Alike(r, data, served) ==
  [kind : {r.kind}, ch : {r.ch}, on : {r.on}, data : {data}, served : {served}]

Shaped == \A r \in flight : r \in Alike(r, r.data, r.served)

\* What the composer and the history are made of.
Storage ==
  /\ stored \in [Words \cup Files -> Nat]
  /\ again \subseteq typed /\ typed \subseteq Words \cup Files
  /\ \A w \in (Words \cup Files) \ typed : stored[w] = 0
  /\ draft \cup uploads \subseteq typed
  /\ \A r \in flight : r.kind = "send" => r.data \subseteq typed

\* A word is typed once, and a file is attached by one upload.
TypedOnce ==
  /\ \A w \in Words : w \in typed => [what |-> "type", on |-> w] \notin todo
  /\ \A f \in Files : [what |-> "upload", on |-> f] \in todo =>
       f \notin typed /\ \A r \in flight : r.kind = "upload" => r.on # f
  /\ \A r \in flight : r.kind = "upload" =>
       /\ r.on \in Files /\ r.on \notin typed
       /\ \A q \in flight : q.kind = "upload" /\ q.on = r.on => q = r

\* What was typed in time and is not stored waits in the composer, and every send
\* under way carries it.
Awaited ==
  \A w \in typed : stored[w] = 0 /\ w \notin late =>
    /\ w \in draft \cup uploads
    /\ \A r \in flight : r.kind = "send" => w \in r.data /\ ~r.served

\* What was not sent again is carried by one send, whose answer empties the composer.
SentOnce ==
  \A w \in typed \ again :
    /\ stored[w] <= 1
    /\ \A q, r \in flight : q.kind = "send" /\ r.kind = "send" /\ w \in q.data \cap r.data
         => q = r
    /\ \A r \in flight : r.kind = "send" /\ w \in r.data => (r.served <=> stored[w] = 1)
    /\ stored[w] = 1 /\ w \in draft \cup uploads =>
         \E r \in flight : r.kind = "send" /\ w \in r.data

ComposerInv == Shaped /\ Storage /\ TypedOnce /\ Awaited /\ SentOnce

LEMMA ComposerInit ==
  ASSUME PageInit
  PROVE  ComposerInv
  <1>1. \A r \in flight : r.kind \notin {"send", "upload"}
    BY DEF PageInit, Read, Ask
  <1>2. stored = [w \in Words \cup Files |-> 0] /\ typed = {} /\ again = {} /\ draft = {}
    /\ uploads = {}
    BY DEF PageInit
  <1>3. Shaped
    BY DEF PageInit, Shaped, Alike, Read, Ask
  <1> QED BY <1>1, <1>2, <1>3 DEF ComposerInv, Storage, TypedOnce, Awaited, SentOnce

\* A request that neither sends nor attaches.
Reading(r) == r.kind \notin {"send", "upload"} /\ r \in Alike(r, r.data, r.served)

\* A step that leaves the composer, the history and the sends under way alone,
\* but for those that end without having been served.
LEMMA ComposerFrame ==
  ASSUME ComposerInv, UNCHANGED <<composer, history>>, todo' \subseteq todo,
         \A r \in flight' : r \in flight \/ Reading(r),
         \A r \in flight \ flight' : r.kind = "send" => ~r.served
  PROVE  ComposerInv'
  <1>0. Shaped'
    BY DEF ComposerInv, Shaped, Reading
  <1>1. /\ UNCHANGED <<draft, uploads, typed, stored, late, again>>
        /\ \A r \in flight' : r.kind \in {"send", "upload"} => r \in flight
    BY DEF composer, history, Reading
  <1>2. Storage'
    BY <1>1 DEF ComposerInv, Storage
  <1>3. TypedOnce'
    BY <1>1 DEF ComposerInv, TypedOnce
  <1>4. Awaited'
    BY <1>1 DEF ComposerInv, Awaited
  <1>5. SentOnce'
    <2> SUFFICES ASSUME NEW w \in typed \ again
                 PROVE  /\ stored[w] <= 1
                        /\ \A q, r \in flight' :
                             q.kind = "send" /\ r.kind = "send" /\ w \in q.data \cap r.data
                             => q = r
                        /\ \A r \in flight' : r.kind = "send" /\ w \in r.data
                             => (r.served <=> stored[w] = 1)
                        /\ stored[w] = 1 /\ w \in draft \cup uploads =>
                             \E r \in flight' : r.kind = "send" /\ w \in r.data
      BY <1>1 DEF SentOnce
    <2>1. /\ stored[w] <= 1
          /\ \A q, r \in flight :
               q.kind = "send" /\ r.kind = "send" /\ w \in q.data \cap r.data => q = r
          /\ \A r \in flight : r.kind = "send" /\ w \in r.data => (r.served <=> stored[w] = 1)
          /\ stored[w] = 1 /\ w \in draft \cup uploads =>
               \E r \in flight : r.kind = "send" /\ w \in r.data
      BY DEF ComposerInv, SentOnce
    <2> QED BY <1>1, <2>1
  <1> QED BY <1>0, <1>2, <1>3, <1>4, <1>5 DEF ComposerInv

LEMMA ComposerType ==
  ASSUME Distinct, ComposerInv, NEW w \in Words, Type(w)
  PROVE  ComposerInv'
  <1>1. /\ draft' = draft \cup {w} /\ typed' = typed \cup {w}
        /\ late' = IF Sends # {} THEN late \cup {w} ELSE late
        /\ UNCHANGED <<uploads, flight, stored, again>>
        /\ [what |-> "type", on |-> w] \in todo /\ todo' = todo \ {[what |-> "type", on |-> w]}
    BY DEF Type, DoesOn, During, composer, history
  <1>2. w \notin typed /\ stored[w] = 0 /\ w \notin again
    BY <1>1 DEF ComposerInv, TypedOnce, Storage
  <1>3. Storage'
    BY <1>1 DEF ComposerInv, Storage
  <1>4. TypedOnce'
    BY <1>1 DEF Distinct, ComposerInv, TypedOnce
  <1>5. Awaited'
    BY <1>1 DEF ComposerInv, Awaited, Sends
  <1>6. SentOnce'
    BY <1>1, <1>2 DEF ComposerInv, SentOnce, Storage
  <1>9. Shaped'
    BY <1>1 DEF ComposerInv, Shaped
  <1> QED BY <1>9, <1>3, <1>4, <1>5, <1>6 DEF ComposerInv

LEMMA ComposerSend ==
  ASSUME ComposerInv, NEW n, SendMessage(n)
  PROVE  ComposerInv'
  <1> DEFINE ws == draft \cup uploads
             s == Ask("send", active, n, ws)
  <1>1. /\ flight' = flight \cup {s} /\ todo' \subseteq todo
        /\ again' = again \cup (ws \cap UNION {r.data : r \in Sends})
        /\ UNCHANGED <<draft, uploads, typed, stored, late>>
    BY DEF SendMessage, DoesOn, composer
  <1>2. s.kind = "send" /\ s.data = ws /\ s.served = FALSE /\ s \in Alike(s, s.data, s.served)
    BY DEF Ask, Alike
  <1> HIDE DEF s
  <1>3. Storage'
    BY <1>1, <1>2 DEF ComposerInv, Storage
  <1>4. TypedOnce'
    BY <1>1, <1>2 DEF ComposerInv, TypedOnce
  <1>5. Awaited'
    BY <1>1, <1>2 DEF ComposerInv, Awaited
  <1>6. SentOnce'
    <2> SUFFICES ASSUME NEW w \in typed \ again'
                 PROVE  /\ stored[w] <= 1
                        /\ \A q, r \in flight' :
                             q.kind = "send" /\ r.kind = "send" /\ w \in q.data \cap r.data
                             => q = r
                        /\ \A r \in flight' : r.kind = "send" /\ w \in r.data
                             => (r.served <=> stored[w] = 1)
                        /\ stored[w] = 1 /\ w \in draft \cup uploads =>
                             \E r \in flight' : r.kind = "send" /\ w \in r.data
      BY <1>1 DEF SentOnce
    <2>1. w \notin again /\ stored[w] \in Nat
      BY <1>1 DEF ComposerInv, Storage
    <2>2. CASE w \in ws
      <3>1. \A r \in flight : r.kind = "send" => w \notin r.data
        BY <1>1, <2>2 DEF Sends
      <3>2. stored[w] = 0
        BY <2>1, <2>2, <3>1 DEF ComposerInv, SentOnce
      <3> QED BY <1>1, <1>2, <3>1, <3>2
    <2>3. CASE w \notin ws
      BY <1>1, <1>2, <2>1, <2>3 DEF ComposerInv, SentOnce
    <2> QED BY <2>2, <2>3
  <1>9. Shaped'
    BY <1>1, <1>2 DEF ComposerInv, Shaped
  <1> QED BY <1>9, <1>3, <1>4, <1>5, <1>6 DEF ComposerInv

LEMMA ComposerUpload ==
  ASSUME ComposerInv, NEW f \in Files, UploadAttachment(f)
  PROVE  ComposerInv'
  <1> DEFINE u == Ask("upload", active, f, {})
  <1>1. /\ flight' = flight \cup {u} /\ UNCHANGED <<draft, uploads, typed, stored, late, again>>
        /\ [what |-> "upload", on |-> f] \in todo /\ todo' = todo \ {[what |-> "upload",
             on |-> f]}
    BY DEF UploadAttachment, DoesOn, composer, history
  <1>2. u.kind = "upload" /\ u.on = f /\ u \in Alike(u, u.data, u.served)
    BY DEF Ask, Alike
  <1> HIDE DEF u
  <1>3. Storage'
    BY <1>1, <1>2 DEF ComposerInv, Storage
  <1>4. TypedOnce'
    BY <1>1, <1>2 DEF ComposerInv, TypedOnce
  <1>5. Awaited'
    BY <1>1, <1>2 DEF ComposerInv, Awaited
  <1>6. SentOnce'
    BY <1>1, <1>2 DEF ComposerInv, SentOnce
  <1>9. Shaped'
    BY <1>1, <1>2 DEF ComposerInv, Shaped
  <1> QED BY <1>9, <1>3, <1>4, <1>5, <1>6 DEF ComposerInv

\* Serving a request does not change what kind it is and what it is for.
LEMMA ComposerServe ==
  ASSUME ComposerInv, NEW r \in flight, Serve(r)
  PROVE  ComposerInv'
  <1> DEFINE a == [r EXCEPT !.served = TRUE, !.data = Reply(r)]
  <1>0. r \in Alike(r, r.data, r.served)
    BY DEF ComposerInv, Shaped
  <1>1. /\ ~r.served /\ flight' = (flight \ {r}) \cup {a}
        /\ UNCHANGED <<draft, uploads, todo, typed, late, again>>
    BY DEF Serve, composer
  <1>2. r.kind = "send"
    => stored' = [w \in DOMAIN stored |-> stored[w] + IF w \in r.data THEN 1 ELSE 0]
    BY DEF Serve, PostMessage, PostThread, CreateChannel, ReadOnly, DefaultMade, ChannelLists
  <1>3. r.kind # "send" => UNCHANGED stored
    BY DEF Serve, PostMessage, PostThread, CreateChannel, ReadOnly, DefaultMade,
           DeleteChannel, Deleted, ResolveRequest
  <1>4. a.kind = r.kind /\ a.on = r.on /\ a.served = TRUE /\ a \in Alike(a, a.data, a.served)
        /\ (r.kind = "send" => a.data = r.data)
    <2>1. r.kind = "send" => Reply(r) = r.data
      BY DEF Reply, ChannelLists
    <2>2. /\ a.kind = r.kind /\ a.on = r.on /\ a.data = Reply(r) /\ a.served = TRUE
          /\ a \in Alike(a, a.data, a.served)
      BY <1>0 DEF Alike
    <2> QED BY <2>1, <2>2
  <1> HIDE DEF a
  <1>5. TypedOnce' /\ Shaped'
    BY <1>1, <1>4 DEF ComposerInv, TypedOnce, Shaped
  <1>6. CASE r.kind # "send"
    <2>1. Storage'
      BY <1>1, <1>3, <1>4, <1>6 DEF ComposerInv, Storage
    <2>2. Awaited'
      BY <1>1, <1>3, <1>4, <1>6 DEF ComposerInv, Awaited
    <2>3. SentOnce'
      <3> SUFFICES ASSUME NEW w \in typed \ again
                   PROVE  /\ stored[w] <= 1
                          /\ \A p, q \in flight' :
                               p.kind = "send" /\ q.kind = "send"
                               /\ w \in p.data \cap q.data => p = q
                          /\ \A q \in flight' : q.kind = "send" /\ w \in q.data
                               => (q.served <=> stored[w] = 1)
                          /\ stored[w] = 1 /\ w \in draft \cup uploads =>
                               \E q \in flight' : q.kind = "send" /\ w \in q.data
        BY <1>1, <1>3, <1>6 DEF SentOnce
      <3>1. \A q \in flight' : q.kind = "send" => q \in flight
        BY <1>1, <1>4, <1>6
      <3>2. \A q \in flight : q.kind = "send" => q \in flight'
        BY <1>1, <1>6
      <3> QED BY <3>1, <3>2 DEF ComposerInv, SentOnce
    <2> QED BY <1>5, <2>1, <2>2, <2>3 DEF ComposerInv
  <1>7. CASE r.kind = "send"
    <2>0. \A w \in Words \cup Files : stored'[w] = stored[w] + IF w \in r.data THEN 1 ELSE 0
      BY <1>2, <1>7 DEF ComposerInv, Storage
    <2>1. Storage'
      <3>1. stored' \in [Words \cup Files -> Nat]
        BY <1>2, <1>7 DEF ComposerInv, Storage
      <3>2. r.data \subseteq typed /\ a.data \subseteq typed
        BY <1>4, <1>7 DEF ComposerInv, Storage
      <3>3. \A w \in (Words \cup Files) \ typed : stored'[w] = 0
        BY <2>0, <3>2 DEF ComposerInv, Storage
      <3>5. \A q \in flight' : q.kind = "send" => q.data \subseteq typed
        BY <1>1, <3>2 DEF ComposerInv, Storage
      <3> QED BY <1>1, <3>1, <3>3, <3>5 DEF ComposerInv, Storage
    <2>2. Awaited'
      <3> SUFFICES ASSUME NEW w \in typed, stored'[w] = 0, w \notin late
                   PROVE  /\ w \in draft \cup uploads
                          /\ \A q \in flight' : q.kind = "send" => w \in q.data /\ ~q.served
        BY <1>1 DEF Awaited
      <3>1. stored[w] \in Nat /\ w \in Words \cup Files
        BY DEF ComposerInv, Storage
      <3>2. w \notin r.data /\ stored[w] = 0
        BY <2>0, <3>1
      <3> QED BY <1>7, <3>2 DEF ComposerInv, Awaited
    <2>3. SentOnce'
      <3> SUFFICES ASSUME NEW w \in typed \ again
                   PROVE  /\ stored'[w] <= 1
                          /\ \A p, q \in flight' :
                               p.kind = "send" /\ q.kind = "send"
                               /\ w \in p.data \cap q.data => p = q
                          /\ \A q \in flight' : q.kind = "send" /\ w \in q.data
                               => (q.served <=> stored'[w] = 1)
                          /\ stored'[w] = 1 /\ w \in draft \cup uploads =>
                               \E q \in flight' : q.kind = "send" /\ w \in q.data
        BY <1>1 DEF SentOnce
      <3>1. stored[w] \in Nat /\ stored'[w] = stored[w] + IF w \in r.data THEN 1 ELSE 0
        BY <2>0 DEF ComposerInv, Storage
      <3>2. /\ stored[w] <= 1
            /\ \A p, q \in flight :
                 p.kind = "send" /\ q.kind = "send" /\ w \in p.data \cap q.data => p = q
            /\ \A q \in flight : q.kind = "send" /\ w \in q.data => (q.served <=> stored[w] = 1)
            /\ stored[w] = 1 /\ w \in draft \cup uploads =>
                 \E q \in flight : q.kind = "send" /\ w \in q.data
        BY DEF ComposerInv, SentOnce
      <3>3. CASE w \in r.data
        <4>1. stored[w] = 0 /\ stored'[w] = 1
          BY <1>1, <1>7, <3>1, <3>2, <3>3
        <4>2. \A q \in flight' : q.kind = "send" /\ w \in q.data => q = a
          BY <1>1, <1>7, <3>2, <3>3
        <4>3. a \in flight' /\ a.kind = "send" /\ w \in a.data
          BY <1>1, <1>4, <1>7, <3>3
        <4> QED BY <1>4, <4>1, <4>2, <4>3
      <3>4. CASE w \notin r.data
        <4>1. stored'[w] = stored[w]
          BY <3>1, <3>4
        <4>2. \A q : q \in flight' /\ q.kind = "send" /\ w \in q.data <=> q \in flight
          /\ q.kind = "send" /\ w \in q.data
          BY <1>1, <1>4, <1>7, <3>4
        <4> QED BY <3>2, <4>1, <4>2
      <3> QED BY <3>3, <3>4
    <2> QED BY <1>5, <2>1, <2>2, <2>3 DEF ComposerInv
  <1> QED BY <1>6, <1>7

LEMMA ComposerSent ==
  ASSUME ComposerInv, NEW r \in flight, Sent(r)
  PROVE  ComposerInv'
  <1> DEFINE m == Read("messages", r.ch, Nothing)
  <1>1. /\ r.kind = "send" /\ r.served /\ draft' = {} /\ uploads' = {}
        /\ flight' = (flight \ {r}) \cup {m}
        /\ UNCHANGED <<todo, typed, stored, late, again>>
    BY DEF Sent, Done, Rest, history
  <1>2. m.kind = "messages" /\ m \in Alike(m, m.data, m.served)
    BY DEF Read, Ask, Alike
  <1> HIDE DEF m
  <1>3. Storage'
    BY <1>1, <1>2 DEF ComposerInv, Storage
  <1>4. TypedOnce'
    BY <1>1, <1>2 DEF ComposerInv, TypedOnce
  <1>5. Awaited'
    BY <1>1 DEF ComposerInv, Awaited
  <1>6. SentOnce'
    BY <1>1, <1>2 DEF ComposerInv, SentOnce
  <1>9. Shaped'
    BY <1>1, <1>2 DEF ComposerInv, Shaped
  <1> QED BY <1>9, <1>3, <1>4, <1>5, <1>6 DEF ComposerInv

LEMMA ComposerUploaded ==
  ASSUME Distinct, ComposerInv, NEW r \in flight, Uploaded(r)
  PROVE  ComposerInv'
  <1>1. /\ r.kind = "upload" /\ uploads' = uploads \cup {r.on} /\ typed' = typed \cup {r.on}
        /\ late' = IF Sends # {} THEN late \cup {r.on} ELSE late
        /\ flight' = flight \ {r} /\ UNCHANGED <<draft, todo, stored, again>>
    BY DEF Uploaded, Done, Rest, During
  <1>2. r.on \in Files /\ r.on \notin typed /\ stored[r.on] = 0 /\ r.on \notin again
    /\ r.on \notin Words
    BY <1>1 DEF Distinct, ComposerInv, TypedOnce, Storage
  <1>3. Storage'
    BY <1>1, <1>2 DEF ComposerInv, Storage
  <1>4. TypedOnce'
    BY <1>1, <1>2 DEF ComposerInv, TypedOnce
  <1>5. Awaited'
    BY <1>1 DEF ComposerInv, Awaited, Sends
  <1>6. SentOnce'
    BY <1>1, <1>2 DEF ComposerInv, SentOnce, Storage
  <1>9. Shaped'
    BY <1>1 DEF ComposerInv, Shaped
  <1> QED BY <1>9, <1>3, <1>4, <1>5, <1>6 DEF ComposerInv

LEMMA ComposerFails ==
  ASSUME ComposerInv, NEW r \in flight, Fails(r)
  PROVE  ComposerInv'
  <1>1. /\ flight' = flight \ {r}
        /\ again' = IF r.kind = "send" /\ r.served THEN again \cup r.data ELSE again
        /\ UNCHANGED <<draft, uploads, todo, typed, stored, late>>
    BY DEF Fails, PageFault, Rest, composer
  <1>2. Storage'
    BY <1>1 DEF ComposerInv, Storage
  <1>3. TypedOnce'
    BY <1>1 DEF ComposerInv, TypedOnce
  <1>4. Awaited'
    BY <1>1 DEF ComposerInv, Awaited
  <1>5. SentOnce'
    <2> SUFFICES ASSUME NEW w \in typed \ again'
                 PROVE  /\ stored[w] <= 1
                        /\ \A p, q \in flight' :
                             p.kind = "send" /\ q.kind = "send" /\ w \in p.data \cap q.data
                             => p = q
                        /\ \A q \in flight' : q.kind = "send" /\ w \in q.data
                             => (q.served <=> stored[w] = 1)
                        /\ stored[w] = 1 /\ w \in draft \cup uploads =>
                             \E q \in flight' : q.kind = "send" /\ w \in q.data
      BY <1>1 DEF SentOnce
    <2>1. /\ w \notin again
          /\ stored[w] <= 1
          /\ \A p, q \in flight :
               p.kind = "send" /\ q.kind = "send" /\ w \in p.data \cap q.data => p = q
          /\ \A q \in flight : q.kind = "send" /\ w \in q.data => (q.served <=> stored[w] = 1)
          /\ stored[w] = 1 /\ w \in draft \cup uploads =>
               \E q \in flight : q.kind = "send" /\ w \in q.data
      BY <1>1 DEF ComposerInv, SentOnce
    <2>2. r.kind = "send" /\ w \in r.data => ~r.served
      BY <1>1
    <2> QED BY <1>1, <2>1, <2>2
  <1>9. Shaped'
    BY <1>1 DEF ComposerInv, Shaped
  <1> QED BY <1>9, <1>2, <1>3, <1>4, <1>5 DEF ComposerInv

\* The lists a render or the timer asks for.
LEMMA ReadReads ==
  ASSUME NEW kind, NEW c, NEW then, kind \notin {"send", "upload"}
  PROVE  Reading(Read(kind, c, then))
  BY DEF Reading, Read, Ask, Alike

LEMMA RenderReads ==
  ASSUME NEW c, NEW t, NEW tb, NEW reqs, Render(c, t, tb, reqs)
  PROVE  \A r \in flight' : r \in reqs \/ Reading(r)
  BY ReadReads DEF Render, OnOpen

\* A request for something else than a message or an attachment.
LEMMA AskedReads ==
  ASSUME NEW kind, NEW c, NEW on, NEW data, kind \notin {"send", "upload"}
  PROVE  Reading(Ask(kind, c, on, data))
  BY DEF Reading, Ask, Alike

LEMMA ComposerMember ==
  ASSUME Distinct, ComposerInv, Member
  PROVE  ComposerInv'
  <1>1. ASSUME NEW c, SelectChannel(c)
        PROVE  ComposerInv'
    BY <1>1, ComposerFrame, RenderReads DEF SelectChannel, DoesOn, Render
  <1>2. ASSUME NEW t, OpenThread(t)
        PROVE  ComposerInv'
    BY <1>2, ComposerFrame, RenderReads DEF OpenThread, DoesOn, Render
  <1>3. ASSUME NEW c, DeleteExistingChannel(c)
        PROVE  ComposerInv'
    BY <1>3, ComposerFrame, AskedReads DEF DeleteExistingChannel, DoesOn
  <1>4. ASSUME NEW c, CreateNewChannel(c)
        PROVE  ComposerInv'
    BY <1>4, ComposerFrame, AskedReads DEF CreateNewChannel, DoesOn
  <1>5. ASSUME NEW t, CreateThreadFromMessage(t)
        PROVE  ComposerInv'
    BY <1>5, ComposerFrame, AskedReads DEF CreateThreadFromMessage, DoesOn
  <1>6. ASSUME NEW q, ResolveApproval(q)
        PROVE  ComposerInv'
    BY <1>6, ComposerFrame, AskedReads DEF ResolveApproval, DoesOn
  <1> QED BY <1>1, <1>2, <1>3, <1>4, <1>5, <1>6, ComposerType, ComposerSend,
    ComposerUpload DEF Member

LEMMA ComposerOthers ==
  ASSUME ComposerInv, Others
  PROVE  ComposerInv'
  <1>1. UNCHANGED <<composer, flight, history>> /\ todo' \subseteq todo
    BY DEF Others, OtherPosts, OtherDeletes, OtherAsks, OtherResolves, DoesOn, DeleteChannel, Deleted,
           ResolveRequest, history
  <1> QED BY <1>1, ComposerFrame

\* An answer to anything but a message or an attachment.
LEMMA ComposerShown ==
  ASSUME ComposerInv, NEW r \in flight, UNCHANGED <<composer, history, todo>>,
         r.kind # "send", \A q \in flight' : q \in flight \ {r} \/ Reading(q),
           flight \ {r} \subseteq flight'
  PROVE  ComposerInv'
  BY ComposerFrame

LEMMA ComposerAnswered ==
  ASSUME Distinct, ComposerInv, NEW r \in flight, Answered(r)
  PROVE  ComposerInv'
  <1> USE DEF Done, Rest
  <1>0. ASSUME NEW c, NEW t, NEW tb, NEW reqs, Render(c, t, tb, reqs)
        PROVE  reqs \subseteq flight' /\ \A q \in flight' : q \in reqs \/ Reading(q)
    BY <1>0, RenderReads DEF Render
  <1>1. CASE ShowMessages(r) \/ ShowApprovals(r) \/ Resolved(r)
    BY <1>1, ComposerShown DEF ShowMessages, ShowApprovals, Resolved
  <1>2. CASE ShowThreads(r)
    BY <1>0, <1>2, ComposerShown DEF ShowThreads
  <1>3. CASE RefreshDirectory(r)
    <2>1. PICK reqs : reqs \in {{}, {Read("first channel", r.ch, Nothing)}}
                      /\ \E c : Render(c, thread, threadsBy, Rest(r) \cup reqs)
      BY <1>3 DEF RefreshDirectory
    <2>2. \A q \in reqs : Reading(q)
      <3>1. Reading(Read("first channel", r.ch, Nothing))
        BY ReadReads
      <3> QED BY <2>1, <3>1
    <2>3. flight \ {r} \subseteq flight' /\ \A q \in flight' : q \in flight \ {r} \/ Reading(q)
      <3>1. PICK c : Render(c, thread, threadsBy, Rest(r) \cup reqs)
        BY <2>1
      <3>2. (Rest(r) \cup reqs) \subseteq flight' /\ \A q \in flight' :
        q \in Rest(r) \cup reqs \/ Reading(q)
        BY <1>0, <3>1
      <3> QED BY <2>2, <3>2
    <2> QED BY <1>3, <2>3, ComposerShown DEF RefreshDirectory
  <1>4. CASE RefreshAfterCreate(r)
    BY <1>0, <1>4, ComposerShown DEF RefreshAfterCreate
  <1>5. CASE OpenFirst(r)
    BY <1>0, <1>5, ComposerShown DEF OpenFirst
  <1>6. CASE OpenDefault(r)
    BY <1>0, <1>6, ComposerShown DEF OpenDefault
  <1>7. CASE ThreadCreated(r) \/ ChannelDeleted(r) \/ ChannelCreated(r)
    <2>1. PICK q : flight' = (flight \ {r}) \cup {q} /\ Reading(q)
      <3>1. Reading(Read("threads", r.ch, r.on)) /\ Reading(Read("channels after delete",
        r.on, r.ch))
            /\ Reading(Read("channels after create", r.ch, r.on))
        BY ReadReads
      <3> QED BY <1>7, <3>1 DEF ThreadCreated, ChannelDeleted, ChannelCreated
    <2>2. UNCHANGED <<composer, history, todo>> /\ r.kind # "send"
      BY <1>7 DEF ThreadCreated, ChannelDeleted, ChannelCreated
    <2> QED BY <2>1, <2>2, ComposerShown
  <1> QED BY <1>1, <1>2, <1>3, <1>4, <1>5, <1>6, <1>7, ComposerSent,
    ComposerUploaded DEF Answered

LEMMA ComposerInvStays ==
  ASSUME Distinct, ComposerInv, [PageNext]_pageVars
  PROVE  ComposerInv'
  <1>1. CASE UNCHANGED pageVars
    BY <1>1, ComposerFrame DEF pageVars
  <1>2. ASSUME NEW kind \in Reads, Tick(kind)
        PROVE  ComposerInv'
    <2>1. \A r \in Polled(active) : Reading(r)
      BY ReadReads DEF Polled, MutantPolled
    <2> QED BY <1>2, <2>1, ComposerFrame DEF Tick
  <1>3. ASSUME NEW r \in flight, Refuse(r)
        PROVE  ComposerInv'
    BY <1>3, ComposerFrame DEF Refuse
  <1>4. ASSUME NEW r \in flight, HalfDeleted(r)
        PROVE  ComposerInv'
    <2>1. UNCHANGED <<composer, history, todo>> /\ flight' = flight \ {r} /\ r.kind # "send"
      BY <1>4 DEF HalfDeleted, Deleted, Rest, history
    <2> QED BY <2>1, ComposerFrame
  <1>5. CASE ResolutionFails
    BY <1>5, ComposerFrame DEF ResolutionFails
  <1> QED BY <1>1, <1>2, <1>3, <1>4, <1>5, ComposerMember, ComposerOthers, ComposerServe,
             ComposerAnswered, ComposerFails DEF PageNext

\* What a member types or attaches stays in the composer until it is stored, and is
\* stored once, but for what was typed during a send, sent again during one, or lost
\* its answer (sendMessage, uploadAttachment).
THEOREM WordsAreSentOnce == PageSpec => []WordsSentOnce
  <1>1. PageInit => ComposerInv
    BY ComposerInit
  <1>2. ComposerInv /\ [PageNext]_pageVars => ComposerInv'
    BY ComposerInvStays, ComposerAssumption
  <1>3. ComposerInv => WordsSentOnce
    BY DEF ComposerInv, Storage, Awaited, SentOnce, WordsSentOnce
  <1> QED BY <1>1, <1>2, <1>3, PTL DEF PageSpec

\* The open thread is listed in the channel on the screen, whichever answers come late
\* (openThread, createThreadFromMessage and the effects after them).
THEOREM OpenThreadAlwaysListed == PageSpec => []OpenThreadIsListed
  <1>1. PageInit => OpenThreadIsListed
    BY DEF PageInit, OpenThreadIsListed
  <1>2. OpenThreadIsListed /\ [PageNext]_pageVars => OpenThreadIsListed'
    <2> SUFFICES ASSUME OpenThreadIsListed, [PageNext]_pageVars
                 PROVE  OpenThreadIsListed'
      OBVIOUS
    <2>1. UNCHANGED view => OpenThreadIsListed'
      BY DEF view, OpenThreadIsListed
    <2>2. ASSUME NEW c, NEW t, NEW tb, NEW reqs, Render(c, t, tb, reqs)
          PROVE  OpenThreadIsListed'
      BY <2>2 DEF Render, OpenThreadIsListed
    <2>3. CASE Member
      BY <2>1, <2>2, <2>3 DEF Member, Type, SendMessage, UploadAttachment, SelectChannel,
        OpenThread,
         DeleteExistingChannel, CreateNewChannel, CreateThreadFromMessage, ResolveApproval
    <2>4. CASE Others
      BY <2>1, <2>4 DEF Others, OtherPosts, OtherDeletes, OtherAsks, OtherResolves
    <2>5. ASSUME NEW r \in flight, Answered(r)
          PROVE  OpenThreadIsListed'
      BY <2>1, <2>2, <2>5 DEF Answered, ShowMessages, ShowThreads, ShowApprovals,
        RefreshDirectory,
         OpenFirst, OpenDefault, Sent, Uploaded, ThreadCreated, ChannelDeleted, Resolved,
           ChannelCreated,
         RefreshAfterCreate
    <2> QED BY <2>1, <2>3, <2>4, <2>5 DEF PageNext, Tick, Serve, Refuse, Fails, HalfDeleted, ResolutionFails,
                                       pageVars
  <1> QED BY <1>1, <1>2, PTL DEF PageSpec
=============================================================================
