----------------------------- MODULE Workspace -----------------------------
(***************************************************************************)
(* The team application in front of the message layer (src/clients/nextjs) *)
(* and the first minutes of the agents that join it.  The application      *)
(* keeps its own database (settings, user_actor_map, user_roles, invites,  *)
(* agent_join_requests) and turns a signed-in user into an actor of the    *)
(* message-layer server: it makes the organization, the actor, the role's  *)
(* grants and the default channel with one HTTP request after the other.   *)
(* Its database calls are synchronous, so its code is atomic from one      *)
(* request to the next: `pc' of a process is the request it waits for, and *)
(* an action serves that request and runs the code after it.               *)
(*                                                                         *)
(* A process is a call: an HTTP request of a browser.  Of the calls of one *)
(* user that need the principal, one resolves it and the others wait.      *)
(*                                                                         *)
(* Faults: a request whose answer is lost (its effect may have happened),  *)
(* the end of the application's process, the end of an agent's process,    *)
(* and a restart of the server, which forgets everything in its default    *)
(* configuration (STORAGE_PATH memory://server).                           *)
(***************************************************************************)
EXTENDS Naturals, Sequences, FiniteSets, Functions

CONSTANTS
  Users,      \* signed-in users
  Programs,   \* the agents' programs
  Starts,     \* what a run may begin with, see Init
  None        \* an absent value

\* The roles an invite or a change of role can name: the routes refuse "owner".
Grantable == {"admin", "member"}
Roles == {"owner"} \cup Grantable

\* The name of an actor tells what it was made for: a user, a program or granting.
ASSUME NamesAssumption ==
  /\ None \notin Users \cup Programs \cup Nat \cup Roles \cup {"grants", "channel"}
  /\ None \notin [actor : Nat, org : Nat] \cup [request : Nat, org : Nat]
  /\ Users \cap (Programs \cup {"bootstrap"}) = {} /\ "bootstrap" \notin Programs

\* A run's start: who owns the workspace already, the calls that will arrive, the
\* agent that may start and how often, and the bounds on the faults.
ASSUME StartsAssumption ==
  \A s \in Starts :
    /\ s.owner \in Users \cup {None} /\ s.boots \in Nat /\ s.faults \in Nat
    /\ s.wipes \in BOOLEAN
    /\ \A c \in s.calls :
         /\ c.op \in {"bootstrap", "invite", "accept", "role", "resolve", "propose", "decide"}
         /\ c.user \in Users
         /\ c.op = "invite" => c.arg \in Grantable
         /\ c.op = "role" => c.on \in Users /\ c.arg \in Grantable
         /\ c.op \in {"resolve", "decide"} => c.arg \in {"approved", "denied"}
         /\ c.op = "decide" => c.on \in Nat

VARIABLES
  \* the message-layer server
  orgs, actors, grants, channels, requests, minted,
  \* the application's database
  settings, actorOf, roleOf, invites, joins,
  \* the application's processes, and the calls that have not arrived
  proc, waiting,
  \* the agents: their program counters and the two files each keeps
  agent,
  \* bounds on the faults, and what has gone wrong so far
  left, lost, overlapped

server == <<orgs, actors, grants, channels, requests, minted>>
appDb == <<settings, actorOf, roleOf, invites, joins>>
vars == <<server, appDb, proc, waiting, agent, left, lost, overlapped>>

Managers == {"owner", "admin"}

\* One point more.
With(f, x, v) == [y \in DOMAIN f \cup {x} |-> IF y \in DOMAIN f THEN f[y] ELSE v]

\* The five grants every role gets count as one, "write"; the three more of an
\* owner or an admin as one, "manage".  The channel:create that a permission
\* request asks for is "create".
RoleTemplate(role) == IF role \in Managers THEN {"write", "manage"} ELSE {"write"}

Fresh == minted + 1

----------------------------------------------------------------------------
(* The server, as the application meets it.  Accepted: the checks of the   *)
(* request q waits for; Served: what it does to the server's tables.       *)

AssertOrgActor(a, org) == a \in DOMAIN actors /\ actors[a].org = org

\* grant:create, by the scopes of the principal or by a grant.
MayGrant(q) == q.role \in Managers \/ <<q.actor, "manage">> \in grants

Undecided(q) ==
  q.about \in DOMAIN requests /\ requests[q.about].org = q.org /\ requests[q.about].status = "open"

Accepted(q) ==
  /\ q.pc \in {"createActor", "createAgent", "createBoot"} => q.org \in orgs
  /\ q.pc \in {"revoke", "grant write", "grant manage"} =>
       AssertOrgActor(q.grantor, q.org) /\ AssertOrgActor(q.actor, q.org)
  /\ q.pc = "createChannel" => AssertOrgActor(q.grantor, q.org)
  /\ q.pc \in {"probe", "list", "check", "newChannel", "ask", "approve", "deny"} =>
       AssertOrgActor(q.actor, q.org)
  /\ q.pc = "newChannel" => grants \cap {<<q.actor, "manage">>, <<q.actor, "create">>} # {}
  /\ q.pc \in {"approve", "deny"} => MayGrant(q) /\ Undecided(q)

Kind(pc) == CASE pc = "createActor" -> "human" [] pc = "createAgent" -> "agent" [] OTHER -> "app"

Served(q) ==
  /\ orgs' = IF q.pc = "createOrg" THEN orgs \cup {Fresh} ELSE orgs
  /\ actors' = IF q.pc \in {"createActor", "createAgent", "createBoot"}
               THEN With(actors, Fresh, [org |-> q.org, kind |-> Kind(q.pc), name |-> q.name])
               ELSE actors
  /\ grants' = CASE q.pc = "revoke" -> {g \in grants : g[1] # q.actor}
                 [] q.pc = "grant write" -> grants \cup {<<q.actor, "write">>}
                 [] q.pc = "grant manage" -> grants \cup {<<q.actor, "manage">>}
                 [] q.pc = "approve" -> grants \cup {<<requests[q.about].actor, "create">>}
                 [] OTHER -> grants
  /\ requests' = CASE q.pc = "ask" ->
                        Append(requests, [actor |-> q.actor, org |-> q.org, status |-> "open"])
                   [] q.pc = "approve" -> [requests EXCEPT ![q.about].status = "approved"]
                   [] q.pc = "deny" -> [requests EXCEPT ![q.about].status = "denied"]
                   [] OTHER -> requests
  /\ channels' = IF q.pc \in {"createChannel", "newChannel"}
                 THEN channels \cup {[id |-> Fresh, org |-> q.org]} ELSE channels
  /\ minted' = IF q.pc \in {"createOrg", "createActor", "createAgent", "createBoot",
                            "createChannel", "newChannel"}
               THEN Fresh ELSE minted

----------------------------------------------------------------------------
(* The application's database. *)

\* The workspace is open to the first user and to those who used an invite.
HasConsumedInvite(u) == \E t \in DOMAIN invites : invites[t].by = u
MutantMayJoin(u) == settings.org = None \/ settings.firstUser = u \/ HasConsumedInvite(u)
MayJoin(u) == settings.firstUser \in {None, u} \/ HasConsumedInvite(u)

ConsumeInvite(t, u) == invites' = [invites EXCEPT ![t].by = u]

\* The user mapped to an actor, if any.
UserOf(a) == {u \in Users : actorOf[u] # None /\ actorOf[u].actor = a}

MutantResolveAgentJoinRequest(n, verdict, a) ==
  joins' = [joins EXCEPT ![n].status = verdict, ![n].actor = a]
ResolveAgentJoinRequest(n, verdict, a) ==
  joins' = IF joins[n].status = "open"
           THEN [joins EXCEPT ![n].status = verdict, ![n].actor = a] ELSE joins

----------------------------------------------------------------------------
(* Processes. *)

Call(u) == [pc |-> "ensure", resolving |-> FALSE, user |-> u, name |-> u, actor |-> None,
            org |-> None, role |-> None, grantor |-> None, need |-> None, then |-> "end",
            about |-> None]

\* inFlightPrincipalResolutions has an entry for the user.
MutantInFlight(u) == \E c \in DOMAIN proc : c.user = u /\ proc[c].pc = "probe"
InFlight(u) == \E c \in DOMAIN proc : c.user = u /\ proc[c].resolving

Awaiting(u) == {c \in DOMAIN proc : proc[c].pc = "ensure" /\ c.user = u}

\* A thrown error ends the call; that of a resolution ends every call that waits
\* for it.
Throw(p) ==
  proc' = Restrict(proc, DOMAIN proc \ ({p} \cup IF proc[p].resolving THEN Awaiting(p.user)
                                                 ELSE {}))

Put(p, q) == proc' = [proc EXCEPT ![p] = q]

EnsureDefaultChannel(q) ==
  [q EXCEPT !.pc = IF settings.channel # None THEN "end" ELSE "createChannel"]

\* The system actor that grants: made once per organization, and what it is
\* needed for follows.
MutantBootstrapped(q) ==
  IF q.need = "grants" THEN [q EXCEPT !.pc = "grant write"] ELSE EnsureDefaultChannel(q)
Bootstrapped(q) ==
  IF q.need = "grants" THEN [q EXCEPT !.pc = "revoke"] ELSE EnsureDefaultChannel(q)

EnsureBootstrapPrincipal(q) ==
  IF settings.bootActor # None /\ settings.bootOrg = q.org
  THEN Bootstrapped([q EXCEPT !.grantor = settings.bootActor])
  ELSE [q EXCEPT !.pc = "createBoot", !.name = "bootstrap"]

ReconcileUserRole(q, role, then) ==
  EnsureBootstrapPrincipal([q EXCEPT !.role = role, !.need = "grants", !.then = then])

DefaultChannelOf(q) == EnsureBootstrapPrincipal([q EXCEPT !.need = "channel"])

DesiredRole(u) ==
  IF roleOf[u] # None THEN roleOf[u] ELSE IF settings.firstUser = u THEN "owner" ELSE "member"

----------------------------------------------------------------------------
(* Resolving the principal of a user. *)

EnsureOrg(q) ==
  IF settings.org = None THEN [q EXCEPT !.pc = "createOrg"]
  ELSE [q EXCEPT !.pc = "createActor", !.org = settings.org]

\* The first user becomes the owner; another needs an invite.
JoinWorkspace(p) ==
  IF MayJoin(p.user)
  THEN /\ settings' = [settings EXCEPT !.firstUser = IF @ = None THEN p.user ELSE @]
       /\ Put(p, EnsureOrg([Call(p.user) EXCEPT !.resolving = TRUE]))
  ELSE Throw(p) /\ UNCHANGED settings

EnsureUserPrincipal(p) ==
  LET u == p.user IN
  /\ proc[p].pc = "ensure" /\ ~InFlight(u)
  /\ \/ /\ actorOf[u] = None
        /\ JoinWorkspace(p)
     \/ /\ actorOf[u] # None
        /\ LET q == [proc[p] EXCEPT !.resolving = TRUE, !.actor = actorOf[u].actor,
                                    !.org = actorOf[u].org, !.role = DesiredRole(u),
                                    !.pc = "probe"]
           IN Put(p, IF roleOf[u] = None THEN ReconcileUserRole(q, DesiredRole(u), "probe")
                     ELSE q)
        /\ UNCHANGED settings
  /\ UNCHANGED <<server, actorOf, roleOf, invites, joins, waiting, agent, left, lost>>

\* A mapped actor the server knows is the principal.  "actor is not in org"
\* starts over as a new user.
Probe(p) ==
  /\ proc[p].pc = "probe"
  /\ \/ /\ Accepted(proc[p])
        /\ Put(p, [proc[p] EXCEPT !.pc = "end"]) /\ UNCHANGED settings
     \/ /\ ~Accepted(proc[p])
        /\ JoinWorkspace(p)
  /\ UNCHANGED <<server, actorOf, roleOf, invites, joins, waiting, agent, left, lost>>

CreateOrg(p) ==
  /\ proc[p].pc = "createOrg"
  /\ Served(proc[p])
  /\ settings' = [settings EXCEPT !.org = Fresh]
  /\ Put(p, [proc[p] EXCEPT !.pc = "createActor", !.org = Fresh])
  /\ UNCHANGED <<actorOf, roleOf, invites, joins, waiting, agent, left, lost>>

\* The server answers an unknown organization with "org not found", which is
\* not the "FOREIGN KEY constraint failed" that the code would recover from.
CreateActor(p) ==
  /\ proc[p].pc = "createActor"
  /\ \/ /\ Accepted(proc[p]) /\ Served(proc[p])
        /\ actorOf' = [actorOf EXCEPT ![p.user] = [actor |-> Fresh, org |-> proc[p].org]]
        /\ Put(p, ReconcileUserRole([proc[p] EXCEPT !.actor = Fresh], DesiredRole(p.user),
                                    "channel"))
     \/ /\ ~Accepted(proc[p])
        /\ Throw(p) /\ UNCHANGED <<server, actorOf>>
  /\ UNCHANGED <<settings, roleOf, invites, joins, waiting, agent, left, lost>>

\* Everyone who waits for the resolution goes on with its principal.
Settle(p) ==
  /\ proc[p].pc = "end" /\ proc[p].resolving
  /\ proc' = [c \in DOMAIN proc |->
                IF c \in Awaiting(p.user) \cup {p}
                THEN [Call(p.user) EXCEPT !.pc = "principal", !.actor = proc[p].actor,
                                          !.org = proc[p].org, !.role = proc[p].role]
                ELSE proc[c]]
  /\ UNCHANGED <<server, appDb, waiting, agent, left, lost>>

----------------------------------------------------------------------------
(* Requests of resolutions and calls alike.  One the server refuses throws. *)

Refused(p) ==
  /\ proc[p].pc \in {"createBoot", "revoke", "grant write", "grant manage", "createChannel",
                     "createAgent", "list", "check", "ask", "approve", "deny"}
  /\ ~Accepted(proc[p])
  /\ Throw(p)
  /\ UNCHANGED <<server, appDb, waiting, agent, left, lost>>

CreateBootstrapActor(p) ==
  /\ proc[p].pc = "createBoot" /\ Accepted(proc[p]) /\ Served(proc[p])
  /\ settings' = [settings EXCEPT !.bootActor = Fresh, !.bootOrg = proc[p].org]
  /\ Put(p, Bootstrapped([proc[p] EXCEPT !.grantor = Fresh]))
  /\ UNCHANGED <<actorOf, roleOf, invites, joins, waiting, agent, left, lost>>

\* applyRoleGrants revokes everything the actor holds ...
RevokeAllActorGrants(p) ==
  /\ proc[p].pc = "revoke" /\ Accepted(proc[p]) /\ Served(proc[p])
  /\ Put(p, [proc[p] EXCEPT !.pc = "grant write"])
  /\ UNCHANGED <<appDb, waiting, agent, left, lost>>

\* ... and grants the role's template one by one; the role is stored last.
ApplyRoleGrants(p) ==
  LET q == proc[p]
      more == q.pc = "grant write" /\ "manage" \in RoleTemplate(q.role)
  IN /\ q.pc \in {"grant write", "grant manage"} /\ Accepted(q) /\ Served(q)
     /\ roleOf' = IF more THEN roleOf ELSE [roleOf EXCEPT ![q.user] = q.role]
     /\ Put(p, CASE more -> [q EXCEPT !.pc = "grant manage"]
                 [] ~more /\ q.then = "channel" -> DefaultChannelOf(q)
                 [] OTHER -> [q EXCEPT !.pc = q.then])
     /\ UNCHANGED <<settings, actorOf, invites, joins, waiting, agent, left, lost>>

CreateDefaultChannel(p) ==
  /\ proc[p].pc = "createChannel" /\ Accepted(proc[p]) /\ Served(proc[p])
  /\ settings' = [settings EXCEPT !.channel = Fresh]
  /\ Put(p, [proc[p] EXCEPT !.pc = "end"])
  /\ UNCHANGED <<actorOf, roleOf, invites, joins, waiting, agent, left, lost>>

----------------------------------------------------------------------------
(* Calls: [op, user, on, arg, tab]; `tab' tells equal calls apart. *)

\* POST /api/team/invites asks for a session only.
SendInvite(c) ==
  /\ c \in waiting /\ c.op = "invite"
  /\ waiting' = waiting \ {c}
  /\ invites' = With(invites, c.on, [role |-> c.arg, by |-> None])
  /\ UNCHANGED <<server, settings, actorOf, roleOf, joins, proc, agent, left, lost>>

\* The invite is consumed and its role stored before there is an actor.
AcceptInvite(c) ==
  /\ c \in waiting /\ c.op = "accept" /\ c.on \in DOMAIN invites
  /\ waiting' = waiting \ {c}
  /\ IF invites[c.on].by = None
     THEN /\ ConsumeInvite(c.on, c.user)
          /\ roleOf' = [roleOf EXCEPT ![c.user] = invites[c.on].role]
          /\ proc' = With(proc, c, Call(c.user))
     ELSE UNCHANGED <<invites, roleOf, proc>>
  /\ UNCHANGED <<server, settings, actorOf, joins, agent, left, lost>>

\* Every other call asks for the principal first.  An administrator finds a
\* join request or a permission request in the list of open ones.
RequirePrincipal(c) ==
  /\ c \in waiting /\ c.op \in {"bootstrap", "role", "resolve", "propose", "decide"}
  /\ c.op = "resolve" => c.on \in DOMAIN joins
  /\ c.op = "decide" => c.on \in DOMAIN requests
  /\ waiting' = waiting \ {c}
  /\ proc' = With(proc, c, Call(c.user))
  /\ UNCHANGED <<server, appDb, agent, left, lost>>

\* canManageRoles: by the scopes of the principal, by the stored role, or by a
\* grant the server is asked for.
CanManageRoles(q) ==
  q.role \in Managers \/ \E u \in UserOf(q.actor) : roleOf[u] \in Managers

Handle(c) ==
  LET q == proc[c] IN
  /\ q.pc = "principal"
  /\ Put(c, CASE c.op = "bootstrap" -> [q EXCEPT !.pc = "list"]
              [] c.op = "accept" -> ReconcileUserRole(q, invites[c.on].role, "end")
              [] c.op = "propose" -> [q EXCEPT !.pc = "newChannel"]
              [] c.op = "decide" ->
                   [q EXCEPT !.pc = IF c.arg = "approved" THEN "approve" ELSE "deny",
                             !.about = c.on]
              [] OTHER -> [q EXCEPT !.pc = IF CanManageRoles(q) THEN "act" ELSE "check"])
  /\ UNCHANGED <<server, appDb, waiting, agent, left, lost>>

CheckCapability(c) ==
  LET q == proc[c] IN
  /\ q.pc = "check" /\ Accepted(q)
  /\ Put(c, [q EXCEPT !.pc = IF <<q.actor, "manage">> \in grants THEN "act" ELSE "end"])
  /\ UNCHANGED <<server, appDb, waiting, agent, left, lost>>

\* POST /api/team/bootstrap shows the first channel, or makes the default one.
ListChannels(c) ==
  LET q == proc[c] IN
  /\ q.pc = "list" /\ Accepted(q)
  /\ Put(c, IF \E ch \in channels : ch.org = q.org THEN [q EXCEPT !.pc = "end"]
            ELSE DefaultChannelOf([q EXCEPT !.org = settings.org]))
  /\ UNCHANGED <<server, appDb, waiting, agent, left, lost>>

\* POST /api/team/channels: a user who may not create a channel asks to.
NewChannel(c) ==
  LET q == proc[c] IN
  /\ q.pc = "newChannel"
  /\ \/ Accepted(q) /\ Served(q) /\ Put(c, [q EXCEPT !.pc = "end"])
     \/ /\ AssertOrgActor(q.actor, q.org) /\ ~Accepted(q)
        /\ Put(c, [q EXCEPT !.pc = "ask"]) /\ UNCHANGED server
     \/ ~AssertOrgActor(q.actor, q.org) /\ Throw(c) /\ UNCHANGED server
  /\ UNCHANGED <<appDb, waiting, agent, left, lost>>

\* A permission request is stored, or answered; an approval is a grant to the actor
\* that asked.  The application leaves it to the server who may answer.  (The
\* server's own steps in between, and two answers that overlap there, are those of
\* the module Approvals.)
CreatePermissionRequest(c) ==
  /\ proc[c].pc = "ask" /\ Accepted(proc[c]) /\ Served(proc[c])
  /\ Put(c, [proc[c] EXCEPT !.pc = "end"])
  /\ UNCHANGED <<appDb, waiting, agent, left, lost>>

ResolvePermissionRequest(c) ==
  /\ proc[c].pc \in {"approve", "deny"} /\ Accepted(proc[c]) /\ Served(proc[c])
  /\ Put(c, [proc[c] EXCEPT !.pc = "end"])
  /\ UNCHANGED <<appDb, waiting, agent, left, lost>>

SetActorRole(c) ==
  LET q == proc[c] IN
  /\ q.pc = "act" /\ c.op = "role"
  /\ Put(c, IF actorOf[c.on] = None THEN [q EXCEPT !.pc = "end"]
            ELSE ReconcileUserRole([q EXCEPT !.user = c.on, !.actor = actorOf[c.on].actor,
                                             !.org = actorOf[c.on].org], c.arg, "end"))
  /\ UNCHANGED <<server, appDb, waiting, agent, left, lost>>

\* The row is read once, before the actor is made.
ResolveJoin(c) ==
  LET q == proc[c]
      open == joins[c.on].org = q.org /\ joins[c.on].status = "open"
  IN /\ q.pc = "act" /\ c.op = "resolve"
     /\ \/ /\ open /\ c.arg = "approved"
           /\ Put(c, [q EXCEPT !.pc = "createAgent", !.name = joins[c.on].name])
           /\ UNCHANGED joins
        \/ /\ open /\ c.arg = "denied"
           /\ ResolveAgentJoinRequest(c.on, "denied", None)
           /\ Put(c, [q EXCEPT !.pc = "end"])
        \/ /\ ~open
           /\ Put(c, [q EXCEPT !.pc = "end"]) /\ UNCHANGED joins
     /\ UNCHANGED <<server, settings, actorOf, roleOf, invites, waiting, agent, left, lost>>

CreateAgentActor(c) ==
  /\ proc[c].pc = "createAgent" /\ Accepted(proc[c]) /\ Served(proc[c])
  /\ ResolveAgentJoinRequest(c.on, "approved", Fresh)
  /\ Put(c, [proc[c] EXCEPT !.pc = "end"])
  /\ UNCHANGED <<settings, actorOf, roleOf, invites, waiting, agent, left, lost>>

Answer(c) ==
  /\ proc[c].pc = "end" /\ ~proc[c].resolving
  /\ proc' = Restrict(proc, DOMAIN proc \ {c})
  /\ UNCHANGED <<server, appDb, waiting, agent, left, lost>>

----------------------------------------------------------------------------
(* bootstrapAgent.  `state' is the file with the identity of the agent,    *)
(* `ticket' the one with its join request, `boots' how often it may start. *)

\* What follows when the saved identity is of no use: the saved join request
\* is polled, and only an agent without one asks.
MutantJoining(ag, org) == [ag EXCEPT !.pc = "ask", !.org = org]
Joining(ag, org) ==
  [ag EXCEPT !.pc = IF ag.ticket # None /\ ag.ticket.org = org THEN "poll" ELSE "ask",
             !.org = org]

ResolveWorkspace(a) ==
  LET ag == agent[a] IN
  /\ ag.pc = "off" /\ ag.boots > 0
  /\ agent' = [agent EXCEPT ![a] =
       LET up == [ag EXCEPT !.boots = @ - 1] IN
       CASE settings.org = None -> up
         [] ag.state # None /\ ag.state.org = settings.org ->
              [up EXCEPT !.pc = "live?", !.org = settings.org]
         [] OTHER -> Joining(up, settings.org)]
  /\ UNCHANGED <<server, appDb, proc, waiting, left, lost>>

ActorIsLive(a) ==
  LET ag == agent[a] IN
  /\ ag.pc = "live?"
  /\ agent' = [agent EXCEPT ![a] =
       IF AssertOrgActor(ag.state.actor, ag.org) THEN [ag EXCEPT !.pc = "in"]
       ELSE Joining(ag, ag.org)]
  /\ UNCHANGED <<server, appDb, proc, waiting, left, lost>>

Asked(a) ==
  joins' = Append(joins, [name |-> a, org |-> settings.org, status |-> "open", actor |-> None])

AskToJoin(a) ==
  /\ agent[a].pc = "ask"
  /\ Asked(a)
  /\ agent' = [agent EXCEPT ![a].pc = "poll",
                 ![a].ticket = [request |-> Len(joins) + 1, org |-> settings.org]]
  /\ UNCHANGED <<server, settings, actorOf, roleOf, invites, proc, waiting, left, lost>>

\* A denied agent throws; its next start polls the same request again.
WaitForJoinApproval(a) ==
  LET ag == agent[a]
      row == joins[ag.ticket.request]
  IN /\ ag.pc = "poll"
     /\ \/ /\ row.status = "approved"
           /\ agent' = [agent EXCEPT ![a].pc = "in",
                          ![a].state = [actor |-> row.actor, org |-> ag.ticket.org]]
        \/ /\ row.status = "denied"
           /\ agent' = [agent EXCEPT ![a].pc = "off"]
     /\ UNCHANGED <<server, appDb, proc, waiting, left, lost>>

BootstrapAgent(a) ==
  ResolveWorkspace(a) \/ ActorIsLive(a) \/ AskToJoin(a) \/ WaitForJoinApproval(a)

\* The four programs keep a copy of it each.
PoetBootstrap == "poet" \in Programs /\ BootstrapAgent("poet")
WeatherBootstrap == "weather" \in Programs /\ BootstrapAgent("weather")
AssistantBootstrap == "assistant" \in Programs /\ BootstrapAgent("assistant")
CursorBootstrap == "cursor" \in Programs /\ BootstrapAgent("cursor")

----------------------------------------------------------------------------
(* Faults. *)

Fault == left.faults > 0 /\ left' = [left EXCEPT !.faults = @ - 1]

Requests == {"createOrg", "createActor", "createAgent", "createBoot", "revoke", "grant write",
             "grant manage", "createChannel", "probe", "list", "check", "newChannel", "ask",
             "approve", "deny"}

\* A request without an answer; the server may have done what it asks.
AnswerLost(p) ==
  /\ Fault /\ proc[p].pc \in Requests
  /\ lost' = TRUE
  /\ (Accepted(proc[p]) /\ Served(proc[p])) \/ UNCHANGED server
  /\ Throw(p)
  /\ UNCHANGED <<appDb, waiting, agent>>

\* The application's process ends, and with it everything in flight.
AppRestart ==
  /\ Fault /\ DOMAIN proc # {}
  /\ lost' = TRUE /\ proc' = <<>>
  /\ UNCHANGED <<server, appDb, waiting, agent>>

ServerRestart ==
  /\ ~left.wiped /\ left.wipes /\ left' = [left EXCEPT !.wiped = TRUE]
  /\ orgs' = {} /\ actors' = <<>> /\ grants' = {} /\ channels' = {} /\ requests' = <<>>
  /\ UNCHANGED <<minted, appDb, proc, waiting, agent, lost>>

\* An agent's process ends; while it asks, the request may have been stored.
AgentStops(a) ==
  /\ agent[a].pc # "off"
  /\ agent' = [agent EXCEPT ![a].pc = "off"]
  /\ \/ UNCHANGED <<joins, lost, left>>
     \/ agent[a].pc = "ask" /\ Fault /\ Asked(a) /\ lost' = TRUE
  /\ UNCHANGED <<server, settings, actorOf, roleOf, invites, proc, waiting>>

----------------------------------------------------------------------------
(* Two writers of one user's grants, or two answers to one join request:   *)
(* nothing in the code keeps them apart.                                    *)

Reconciling(q) ==
  \/ q.pc \in {"revoke", "grant write", "grant manage"}
  \/ q.pc = "createBoot" /\ q.need = "grants"

Pairs(S) == \E p, q \in S : p # q

Overlaps ==
  {u \in Users : Pairs({p \in DOMAIN proc : Reconciling(proc[p]) /\ proc[p].user = u})}
  \cup {n \in DOMAIN joins : Pairs({c \in DOMAIN proc :
          c.op = "resolve" /\ c.on = n /\ proc[c].pc \in {"act", "createAgent"}})}

----------------------------------------------------------------------------

NewWorkspace == [firstUser |-> None, org |-> None, channel |-> None, bootActor |-> None,
                 bootOrg |-> None]

\* A run begins with a new installation (owner None), or with the workspace the
\* first user has opened: organization 1, the owner's actor 2, the system actor 3,
\* the default channel 4.
Init ==
  \E s \in Starts :
    LET o == s.owner
        open == o # None
    IN /\ orgs = IF open THEN {1} ELSE {}
       /\ actors = [a \in IF open THEN {2, 3} ELSE {} |->
                     [org |-> 1, kind |-> IF a = 2 THEN "human" ELSE "app",
                      name |-> IF a = 2 THEN o ELSE "bootstrap"]]
       /\ grants = IF open THEN {2} \X {"write", "manage"} ELSE {}
       /\ channels = IF open THEN {[id |-> 4, org |-> 1]} ELSE {}
       /\ minted = IF open THEN 4 ELSE 0
       /\ settings = IF open THEN [firstUser |-> o, org |-> 1, channel |-> 4, bootActor |-> 3,
                                   bootOrg |-> 1]
                     ELSE NewWorkspace
       /\ actorOf = [u \in Users |-> IF u = o THEN [actor |-> 2, org |-> 1] ELSE None]
       /\ roleOf = [u \in Users |-> IF u = o THEN "owner" ELSE None]
       /\ agent = [a \in Programs |-> [pc |-> "off", state |-> None, ticket |-> None,
                                       org |-> None, boots |-> IF a = s.agent THEN s.boots ELSE 0]]
       /\ waiting = s.calls
       /\ left = [faults |-> s.faults, wipes |-> s.wipes, wiped |-> FALSE]
  /\ requests = <<>> /\ invites = <<>> /\ joins = <<>> /\ proc = <<>>
  /\ lost = FALSE /\ overlapped = {}

Resolution(p) ==
  EnsureUserPrincipal(p) \/ Probe(p) \/ CreateOrg(p) \/ CreateActor(p) \/ Settle(p)

Request(p) ==
  \/ Refused(p) \/ CreateBootstrapActor(p) \/ RevokeAllActorGrants(p) \/ ApplyRoleGrants(p)
  \/ CreateDefaultChannel(p) \/ AnswerLost(p)

CallStep(c) ==
  \/ Handle(c) \/ CheckCapability(c) \/ ListChannels(c) \/ SetActorRole(c) \/ ResolveJoin(c)
  \/ CreateAgentActor(c) \/ Answer(c)
  \/ NewChannel(c) \/ CreatePermissionRequest(c) \/ ResolvePermissionRequest(c)

Step ==
  \/ \E c \in DOMAIN proc : Resolution(c) \/ Request(c) \/ CallStep(c)
  \/ \E c \in waiting : SendInvite(c) \/ AcceptInvite(c) \/ RequirePrincipal(c)
  \/ PoetBootstrap \/ WeatherBootstrap \/ AssistantBootstrap \/ CursorBootstrap
  \/ AppRestart \/ ServerRestart
  \/ \E a \in Programs : AgentStops(a)

Next == Step /\ overlapped' = overlapped \cup Overlaps'

Spec == Init /\ [][Next]_vars

----------------------------------------------------------------------------
(* Properties. *)

Calm == ~lost /\ ~left.wiped

\* However many requests of a user arrive at once, while no answer is lost the
\* server has one actor for the user, the one user_actor_map names (the
\* in-flight map of ensureUserPrincipal).
OneActorPerUser ==
  Calm => \A a \in DOMAIN actors, u \in Users :
            actors[a].name = u => actorOf[u] = [actor |-> a, org |-> actors[a].org]

\* Whoever comes first, and whatever fails: only the first user is ever owner,
\* and everyone else with an actor has used an invite of their own.
OneOwner ==
  \A u \in Users : u # settings.firstUser =>
    /\ roleOf[u] # "owner"
    /\ actorOf[u] # None => HasConsumedInvite(u)

\* What the actor may hold beside the grants of its role.
AskedFor(a) ==
  {"create" : n \in {m \in DOMAIN requests : requests[m].actor = a}}

\* When nobody works on a user any more, the actor holds every grant of the stored
\* role (applyRoleGrants, however changes of role and approvals interleave), and
\* beside them only what its user asked for in a permission request: never a grant of
\* an earlier role, nor one that somebody else asked for.  A change of role takes
\* the approved ones away too (revokeAllActorGrants).  An answer that was lost and
\* two changes of the role that overlapped are excepted: those may leave a part of
\* either role.
CalmlyGranted ==
  Calm => \A u \in Users :
    /\ actorOf[u] # None
    /\ u \notin overlapped
    /\ \A p \in DOMAIN proc : proc[p].user # u
    => LET a == actorOf[u].actor
           held == {g[2] : g \in {x \in grants : x[1] = a}}
       IN held \ AskedFor(a) = RoleTemplate(roleOf[u])

\* ensureOrg: two users who are the first at once make an organization each, and
\* the later one becomes the workspace's.
OneOrg == \A o1, o2 \in orgs : o1 = o2

\* In a workspace with one organization an agent's program asks once, however often
\* it starts, and is given one actor, the one its approved request names and it runs
\* as, unless two answers to the request overlapped.  (An agent that asked in the
\* first of two organizations asks in the second again.)
CalmlyOneIdentity ==
  Calm /\ OneOrg => \A a \in Programs :
    LET asked == {n \in DOMAIN joins : joins[n].name = a}
    IN /\ Cardinality(asked) <= 1
       /\ asked \cap overlapped = {} =>
            {x \in DOMAIN actors : actors[x].name = a}
              = {joins[n].actor : n \in {m \in asked : joins[m].status = "approved"}}
       /\ agent[a].pc = "in" => \E n \in asked : joins[n].actor = agent[a].state.actor

\* The first answer to a join request stands: neither a second administrator
\* nor an approval that comes back late changes it.
AnsweredForGood ==
  [][\A n \in DOMAIN joins : joins[n].status # "open" => joins'[n] = joins[n]]_joins

\* The first minute of an installation: one actor for each user, one owner, and
\* nobody else in without an invite.
OneActorOneOwner == OneActorPerUser /\ OneOwner
=============================================================================
