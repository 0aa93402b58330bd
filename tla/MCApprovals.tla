------------------------------ MODULE MCApprovals ------------------------------
(* Small instances of Approvals: bob asks, registers and acts; dan holds an *)
(* older grant:create grant and resolves with it; the admin has the scope;  *)
(* eve administers the channel general.                                     *)
EXTENDS Approvals, TLC

CONSTANTS c1, c2, c3, c4, c5, old1, old2, old3, bob, dan, eve, general

Deploy == "deploy"
Ask == [op |-> "ask", actor |-> bob, cap |-> Deploy]
Register(scope) == [op |-> "register", actor |-> bob, scope |-> scope]
Resolve(who, approve, max) ==
    [op |-> "resolve", actor |-> who, target |-> c1, approve |-> approve, max |-> max]
Issue == [op |-> "issue", actor |-> dan, to |-> bob, cap |-> Deploy, max |-> 1]
Delete(who) == [op |-> "delete", actor |-> who, target |-> c1]
Take(g) == [op |-> "revoke", actor |-> Admin, target |-> g]
Kick(who) == [op |-> "kick", actor |-> Admin, target |-> who]
Act == [op |-> "act", actor |-> bob, cap |-> Deploy]

Old(actor, cap, max) == [status |-> "active", actor |-> actor, cap |-> cap, max |-> max, uses |-> 0]
MCOldGrants == (old1 :> Old(dan, GrantCreate, Unlimited)) @@ (old2 :> Old(bob, Deploy, 2))
               @@ (old3 :> Old(eve, "channel:admin", Unlimited))
MCChannelAdmin == general :> "channel:admin"

MCInputsOf == (c1 :> {Ask, Register(OrgWide), Register(general)})
              @@ (c2 :> {Resolve(dan, TRUE, 1), Register(general), Act})
              @@ (c3 :> {Resolve(Admin, FALSE, Unlimited), Delete(bob), Delete(dan), Delete(eve), Issue})
              @@ (c4 :> {Resolve(Admin, TRUE, Unlimited), Resolve(dan, FALSE, 1), Kick(dan), Kick(bob), Take(old1), Take(old2)})
              @@ (c5 :> {Act})
=============================================================================
