---------------------------- MODULE MCAppendMessage ----------------------------
(* Small instances of AppendMessage. *)
EXTENDS AppendMessage, TLC

CONSTANTS c1, c2, c3, s1, s2, alice, root, k1, k2, any

Msg(actor, stream, key, command, auto) ==
    [actor |-> actor, stream |-> stream, key |-> key, command |-> command, auto |-> auto]
Grant(actor, capability, stream, max) ==
    [actor |-> actor, capability |-> capability, stream |-> stream, max |-> max]

(* alice retries k1, invokes a command under the same capped grant and asks *)
(* for s2, where she has no grant but the one for any stream; root writes by *)
(* scope.                                                                    *)
MCRequestsOf ==
    (c1 :> {Msg(alice, s1, k1, FALSE, FALSE)})
    @@ (c2 :> {Msg(alice, s1, k1, FALSE, FALSE), Msg(alice, s1, k2, TRUE, FALSE)})
    @@ (c3 :> {Msg(root, s1, k1, FALSE, FALSE), Msg(alice, s2, k1, FALSE, TRUE)})
(* Grant 1 is the older one and covers s1 only; grant 2 any stream. *)
MCGrantOf == (1 :> Grant(alice, Append0, s1, 1)) @@ (2 :> Grant(alice, Append0, any, 1))
             @@ (3 :> Grant(alice, Invoke, s1, 2))

(* Two streams and two keys, without grants to wait for. *)
RootRequestsOf == [c \in Calls |-> {Msg(root, s1, k1, FALSE, FALSE), Msg(root, s2, k1, FALSE, FALSE)}]
=============================================================================
