--------------------------- MODULE MCTeamClient ---------------------------
(* A bounded instance of TeamClient: four channels, the third one created    *)
(* by a member and the fourth by the application, and for each start a few   *)
(* things the members may do, in any order or never.                         *)
EXTENDS TeamClient

CONSTANTS w1, w2, f1, t1, q1

May(what, on) == [what |-> what, on |-> on]
Start(at, acts, fails) == [at |-> at, todo |-> acts, faults |-> fails]

\* Sending: twice, with an attachment, while typing on.
S1 == Start(1, {May("type", w1), May("type", w2), May("send", 1), May("send", 2)}, 0)
S2 == Start(1, {May("type", w1), May("upload", f1), May("send", 1), May("send", 2)}, 0)
S3 == Start(1, {May("type", w1), May("send", 1), May("send", 2)}, 1)
\* Threads and channels that are left, or deleted, while answers are under way.
C1 == Start(1, {May("other posts", 1), May("thread", t1), May("open", t1),
                May("select", 2)}, 0)
C2 == Start(1, {May("select", 2), May("delete", 1)}, 0)
C3 == Start(1, {May("create", 3), May("other deletes", 1)}, 0)
\* All channels are deleted; the default one is, perhaps without a successor.
C4 == Start(1, {May("delete", 1), May("other deletes", 2)}, 0)
C5 == Start(1, {May("delete", 1)}, 1)
\* The inbox of two administrators; a session that begins.
A1 == Start(1, {May("other asks", q1), May("resolve", q1), May("other resolves", q1)}, 1)
B1 == Start(Nothing, {May("other posts", 1), May("other deletes", 1)}, 1)

MCChannels == {1, 2, 3, 4}
MCThreads == {t1}
MCApprovals == {q1}
MCWords == {w1, w2}
MCFiles == {f1}
MCOpenings == {S1, S2, S3, C1, C2, C3, C4, C5, A1, B1}
=============================================================================
