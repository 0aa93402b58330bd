---- MODULE MCAgents ----
(* Each behaviour runs one of the four programs, from one of a few starts:  *)
(* everything granted but faults and restarts, or nothing granted and an    *)
(* admin who decides.                                                      *)
EXTENDS ChatAgents
CONSTANTS pub, priv
MCListed == <<pub, priv>>
Shape(asks, text) == [asks |-> asks, text |-> text]
MCShapes == {Shape({"command", "mention"}, TRUE), Shape({"command"}, TRUE), Shape({"mention"}, TRUE),
             Shape({}, TRUE), Shape({}, FALSE)}
All == {<<cap, None>> : cap \in {"message:append", "thread:create", "channel:create"}}
S(p, given, cmd, rooms, posts, asks, lives, faults) ==
  [program |-> p, given |-> given, command |-> cmd, rooms |-> rooms,
   posts |-> posts, asks |-> asks, lives |-> lives, faults |-> faults]
P1 == S("poet", All, "active", {pub, priv, 1}, 2, 2, 1, 0)
P3 == S("poet", All, "active", {priv}, 1, 2, 2, 1)
P2 == S("poet", {}, "none", {pub, priv}, 1, 1, 1, 0)
W1 == S("weather", All, "active", {pub, priv}, 1, 2, 2, 1)
W2 == S("weather", {<<"thread:create", None>>}, "none", {pub, priv}, 1, 2, 1, 0)
A1 == S("assistant", All, "none", {Own}, 1, 0, 1, 1)
A2 == S("assistant", {}, "none", {Own, priv}, 1, 1, 1, 0)
A3 == S("assistant", All, "none", {pub, priv}, 2, 2, 1, 0)
A4 == S("assistant", All, "none", {pub, priv}, 1, 2, 1, 1)
A5 == S("assistant", All, "none", {pub}, 1, 1, 2, 0)
C1 == S("cursor", All, "active", {pub, 1}, 2, 1, 1, 0)
C2 == S("cursor", {<<"message:append", None>>}, "active", {priv}, 1, 1, 1, 0)
C3 == S("cursor", All, "active", {priv}, 1, 2, 1, 1)
C4 == S("cursor", {<<"thread:create", None>>}, "none", {pub}, 1, 1, 1, 0)
C5 == S("cursor", All, "active", {priv}, 1, 1, 2, 0)
P4 == S("poet", {<<"message:append", None>>}, "none", {pub}, 1, 1, 1, 1)
W3 == S("weather", {}, "active", {pub}, 1, 1, 1, 1)
A6 == S("assistant", All, "none", {pub}, 1, 1, 1, 2)
A7 == S("assistant", {}, "none", {pub}, 1, 1, 1, 1)
C6 == S("cursor", All, "active", {pub}, 1, 1, 1, 2)
C7 == S("cursor", {<<"message:append", None>>}, "active", {pub}, 1, 1, 1, 1)
C8 == S("cursor", All, "active", {pub}, 1, 2, 1, 0)
MCStarts == {P1, P2, P3, P4, W1, W2, W3, A1, A2, A3, A4, A5, A6, A7, C1, C2, C3, C4, C5, C6, C7, C8}
====
