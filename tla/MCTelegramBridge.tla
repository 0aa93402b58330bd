---------------------------- MODULE MCTelegramBridge ----------------------------
(* Two setups of one human with one bot, and two updates from two chats.     *)
(* Setups, requests, and updates together with their chats, can be exchanged *)
(* for one another.                                                          *)
EXTENDS TelegramBridge, TLC

CONSTANTS s1, s2, u1, u2, c1, c2, h1, h2, a1
MCSetups == {s1, s2}
MCUpdates == {u1, u2}
MCRequests == {h1, h2}
MCAdmins == {a1}
MCHuman == [s \in MCSetups |-> "ann"]
MCBot == [x \in MCSetups \union MCUpdates |-> "bot"]
MCChat == (u1 :> c1) @@ (u2 :> c2)

Alike == {p @@ q @@ r : p \in Permutations(MCSetups), q \in Permutations(MCRequests),
                        r \in {(u1 :> u1) @@ (u2 :> u2) @@ (c1 :> c1) @@ (c2 :> c2),
                               (u1 :> u2) @@ (u2 :> u1) @@ (c1 :> c2) @@ (c2 :> c1)}}
=============================================================================
