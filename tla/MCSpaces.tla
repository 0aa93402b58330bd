-------------------------------- MODULE MCSpaces --------------------------------
(* One channel, one thread, two messages, an artifact and two actors; calls  *)
(* and ids of one kind can be exchanged for one another.                     *)
EXTENDS Spaces, TLC

CONSTANTS ann, bob, c1, t1, m1, m2, f1, p1, p2
MCActors == {ann, bob}
MCChannels == {c1}
MCThreads == {t1}
MCMessages == {m1, m2}
MCArtifacts == {f1}
MCCalls == {p1, p2}

Alike == {p @@ q : p \in Permutations(MCMessages), q \in Permutations(MCCalls)}
=============================================================================
