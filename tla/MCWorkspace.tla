---------------------------- MODULE MCWorkspace ----------------------------
(* A bounded instance of Workspace: two users, the four agents' programs.   *)
EXTENDS Workspace

CONSTANTS u1, u2, t1

Asks(op, u, on, arg, tab) == [op |-> op, user |-> u, on |-> on, arg |-> arg, tab |-> tab]
Opens(u, tab) == Asks("bootstrap", u, None, None, tab)
Invites(u, role) == Asks("invite", u, t1, role, 1)
Accepts(u, tab) == Asks("accept", u, t1, None, tab)
Changes(u, target, role, tab) == Asks("role", u, target, role, tab)
Proposes(u, tab) == Asks("propose", u, None, None, tab)
Decides(u, verdict, tab) == Asks("decide", u, 1, verdict, tab)
Resolves(u, verdict, tab) == Asks("resolve", u, 1, verdict, tab)

Start(owner, calls, a, boots, faults, wipes) ==
  [owner |-> owner, calls |-> calls, agent |-> a, boots |-> boots, faults |-> faults,
   wipes |-> wipes]

\* The first minute: two users at once, one of them in two tabs; then an invite.
F1 == Start(None, {Opens(u1, 1), Opens(u1, 2), Opens(u2, 1)}, None, 0, 1, FALSE)
F2 == Start(None, {Opens(u1, 1), Invites(u1, "member"), Accepts(u2, 1), Opens(u2, 1)}, None, 0, 0,
            FALSE)
\* Roles: an invited administrator is demoted, demotes itself, changes the owner.
R1 == Start(u1, {Invites(u1, "admin"), Accepts(u2, 1), Changes(u1, u2, "member", 1),
                 Changes(u2, u1, "member", 1)}, None, 0, 0, FALSE)
R2 == Start(u1, {Invites(u1, "admin"), Accepts(u2, 1), Changes(u2, u2, "member", 1),
                 Opens(u2, 1)}, None, 0, 1, FALSE)
\* An agent joins: two answers, restarts.
J1 == Start(u1, {Resolves(u1, "approved", 1), Resolves(u1, "approved", 2),
                 Resolves(u1, "denied", 1)}, "poet", 2, 1, FALSE)
J2 == Start(u1, {Resolves(u1, "approved", 1), Resolves(u1, "denied", 1)}, "weather", 2, 1, FALSE)
J3 == Start(u1, {Resolves(u1, "approved", 1), Resolves(u1, "denied", 1)}, "assistant", 3, 1, TRUE)
J4 == Start(None, {Opens(u1, 1), Resolves(u1, "approved", 1), Resolves(u1, "denied", 1)},
            "cursor", 2, 0, FALSE)
\* It asks in the first of two organizations, and again in the second.
J5 == Start(None, {Opens(u1, 1), Invites(u1, "member"), Accepts(u2, 1)}, "poet", 2, 0, FALSE)
\* The server forgets everything.
S1 == Start(u1, {Opens(u1, 1), Opens(u1, 2), Invites(u1, "member"), Accepts(u2, 1),
                 Accepts(u2, 2)}, None, 0, 0, TRUE)
S2 == Start(None, {Opens(u1, 1), Opens(u1, 2)}, None, 0, 0, TRUE)
\* A member asks to create a channel; two answers, and changes of role meanwhile.
P1 == Start(u1, {Invites(u1, "member"), Accepts(u2, 1), Proposes(u2, 1),
                 Decides(u1, "approved", 1), Decides(u1, "denied", 1)}, None, 0, 0, FALSE)
P2 == Start(u1, {Invites(u1, "member"), Accepts(u2, 1), Proposes(u2, 1),
                 Decides(u1, "approved", 1), Changes(u1, u2, "admin", 1)}, None, 0, 0, FALSE)
P3 == Start(u1, {Invites(u1, "member"), Accepts(u2, 1), Proposes(u2, 1), Proposes(u2, 2),
                 Decides(u1, "approved", 1), Decides(u2, "approved", 1)}, None, 0, 1, FALSE)
\* An owner creates one at once, or is forgotten meanwhile.
P4 == Start(u1, {Proposes(u1, 1)}, None, 0, 0, TRUE)

MCUsers == {u1, u2}
MCPrograms == {"poet", "weather", "assistant", "cursor"}
MCStarts == {F1, F2, R1, R2, J1, J2, J3, J4, J5, S1, S2, P1, P2, P3, P4}
=============================================================================
