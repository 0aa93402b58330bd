---------------------------- MODULE MCDurableStream ----------------------------
(* Two appends, of two chunks and of one, a close, a commit and its retry,   *)
(* and one tail.                                                             *)
EXTENDS DurableStream, TLC

CONSTANTS a1, a2, close, c1, c2, t1
MCAppends == {a1, a2}
MCCloses == {close}
MCCommits == {c1, c2}
MCTails == {t1}
MCChunksOf == a1 :> 2 @@ a2 :> 1
MCKeyOf == [c \in MCCommits |-> "owner"]
=============================================================================
