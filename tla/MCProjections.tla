---- MODULE MCProjections ----
(* A channel, a thread, two messages that say the same in part, in either     *)
(* stream, and two actors.                                                    *)
EXTENDS Projections, TLC
CONSTANTS ch, th, m1, m2, alice, bob, a, b, hm
MCChannelOf == [t \in {th} |-> ch]
MCParentOf == [t \in {th} |-> m1]
MCSays == (m1 :> <<a>>) @@ (m2 :> <<hm, a>>)
MCFiller == {hm}
MCStart == {ch, alice, bob}
MCJoined == {<<ch, alice>>}
====
