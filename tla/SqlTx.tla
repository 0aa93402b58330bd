--------------------------------- MODULE SqlTx ---------------------------------
(***************************************************************************)
(* The two adapters of db.ts.  PostgresClient.tx takes a connection of the *)
(* pool for the transaction and gives it back; PgliteClient.tx sends BEGIN *)
(* and COMMIT on the one connection that every caller uses, and the calls  *)
(* of one process interleave at every await.                               *)
(*                                                                         *)
(* The session of a connection is Postgres's: BEGIN inside a transaction   *)
(* and COMMIT outside one only warn; a failed statement leaves the         *)
(* transaction aborted, every statement fails then, and COMMIT rolls back. *)
(***************************************************************************)
EXTENDS Integers, FiniteSets

CONSTANTS Txs, Conns,
          OnlyConn,     \* the one PGlite uses
          Statements,   \* how many writes a transaction executes
          NoConn

ASSUME ConnsAssumption == NoConn \notin Conns /\ OnlyConn \in Conns
ASSUME StatementsAssumption == Statements \in Nat \ {0}

VARIABLES adapter, overlap,    \* chosen at the start: the adapter, and whether callers overlap
          at, conn, next, result, session, table
txVars == <<adapter, overlap, at, conn, next, result, session, table>>
config == <<adapter, overlap>>

Idle == [open |-> FALSE, aborted |-> FALSE, writes |-> {}]
InSession(aborted, writes) == [open |-> TRUE, aborted |-> aborted, writes |-> writes]
Writes == 1 .. Statements
AllOf(t) == {t} \X Writes

(* Overlapping callers of PGlite are promised nothing. *)
Isolated == adapter = "postgres" \/ ~overlap
Store == INSTANCE AtomicStore WITH table <- IF Isolated THEN table ELSE {},
                                   answer <- IF Isolated THEN result ELSE [t \in Txs |-> "none"]

GoOn(t, label) == at' = [at EXCEPT ![t] = label]
Session(t) == session[conn[t]]
SetSession(t, s) == session' = [session EXCEPT ![conn[t]] = s]
Finish(t, a) == GoOn(t, "done") /\ result' = [result EXCEPT ![t] = a]

TxInit == /\ adapter \in {"postgres", "pglite"} /\ overlap \in BOOLEAN
          /\ at = [t \in Txs |-> "idle"]
          /\ conn = [t \in Txs |-> NoConn]
          /\ next = [t \in Txs |-> 1]
          /\ result = [t \in Txs |-> "none"]
          /\ session = [c \in Conns |-> Idle]
          /\ table = {}

Busy == {t \in Txs : at[t] \notin {"idle", "done"}}
StartTx(t) == /\ at[t] = "idle" /\ (overlap \/ Busy = {})
              /\ GoOn(t, "connect")
              /\ UNCHANGED <<config, conn, next, result, session, table>>

(* pool.connect() waits for a connection; PGlite has one and never waits. *)
Connect(t) == /\ at[t] = "connect"
              /\ \E c \in Conns : /\ IF adapter = "pglite" THEN c = OnlyConn
                                     ELSE \A u \in Txs : conn[u] # c
                                  /\ conn' = [conn EXCEPT ![t] = c]
              /\ GoOn(t, "begin")
              /\ UNCHANGED <<config, next, result, session, table>>

Begin(t) == /\ at[t] = "begin" /\ ~Session(t).aborted
            /\ SetSession(t, InSession(FALSE, Session(t).writes))
            /\ GoOn(t, "run")
            /\ UNCHANGED <<config, conn, next, result, table>>

(* Only another caller's failure can abort the session before BEGIN.  The  *)
(* BEGIN of PGlite is outside the try, that of Postgres inside it.         *)
BeginFails(t) == /\ at[t] = "begin" /\ Session(t).aborted
                 /\ IF adapter = "pglite" THEN Finish(t, "error")
                    ELSE GoOn(t, "rollback") /\ UNCHANGED result
                 /\ UNCHANGED <<config, conn, next, session, table>>

LastWrite(t) == next[t] = Statements

(* A write goes to whatever transaction the connection is in, or commits.  *)
Write(t) == /\ at[t] = "run" /\ ~Session(t).aborted
            /\ IF Session(t).open
               THEN /\ SetSession(t, InSession(FALSE, Session(t).writes \cup {<<t, next[t]>>}))
                    /\ UNCHANGED table
               ELSE /\ table' = table \cup {<<t, next[t]>>}
                    /\ UNCHANGED session
            /\ next' = [next EXCEPT ![t] = @ + 1]
            /\ GoOn(t, IF LastWrite(t) THEN "commit" ELSE "run")
            /\ UNCHANGED <<config, conn, result>>

MutantHandler == "release"
Handler == "rollback"         \* the catch block

(* The statement fails, or already failed with the session ... *)
StatementFails(t) == /\ at[t] = "run"
                     /\ SetSession(t, IF Session(t).open THEN InSession(TRUE, Session(t).writes)
                                      ELSE Session(t))
                     /\ GoOn(t, Handler)
                     /\ UNCHANGED <<config, conn, next, result, table>>

(* ... or the callback throws without touching the database. *)
CallbackThrows(t) == /\ at[t] = "run"
                     /\ GoOn(t, Handler)
                     /\ UNCHANGED <<config, conn, next, result, session, table>>

CommitTx(t) == /\ at[t] = "commit"
               /\ table' = table \cup (IF Session(t).aborted THEN {} ELSE Session(t).writes)
               /\ SetSession(t, Idle)
               /\ result' = [result EXCEPT ![t] = "ok"]
               /\ GoOn(t, "release")
               /\ UNCHANGED <<config, conn, next>>

RollbackTx(t) == /\ at[t] = "rollback"
                 /\ SetSession(t, Idle)
                 /\ result' = [result EXCEPT ![t] = "error"]
                 /\ GoOn(t, "release")
                 /\ UNCHANGED <<config, conn, next, table>>

MutantReleased(t) == IF result[t] = "ok" THEN NoConn ELSE conn[t]
Released(t) == NoConn

(* finally: the connection goes back to the pool, however the call ended. *)
Release(t) == /\ at[t] = "release"
              /\ conn' = [conn EXCEPT ![t] = Released(t)]
              /\ GoOn(t, "done")
              /\ UNCHANGED <<config, next, result, session, table>>

(* Postgres: the connection breaks; the server rolls back, unless the      *)
(* COMMIT it was sent has been executed.                                   *)
Break(t) == /\ adapter = "postgres" /\ at[t] \in {"begin", "run", "commit", "rollback"}
            /\ SetSession(t, Idle)
            /\ table' \in {table} \cup
                 (IF at[t] = "commit" THEN {table \cup Session(t).writes} ELSE {})
            /\ result' = [result EXCEPT ![t] = "lost"]
            /\ GoOn(t, "release")
            /\ UNCHANGED <<config, conn, next>>

Stopped == (\A t \in Txs : at[t] = "done") /\ UNCHANGED txVars

TxStep(t) == \/ Connect(t) \/ Begin(t) \/ BeginFails(t) \/ Write(t) \/ StatementFails(t)
             \/ CallbackThrows(t) \/ CommitTx(t) \/ RollbackTx(t) \/ Release(t)

TxNext == (\E t \in Txs : StartTx(t) \/ TxStep(t) \/ Break(t)) \/ Stopped
TxSpec == TxInit /\ [][TxNext]_txVars

(* Statements that were sent are executed, and the pool serves its queue.  *)
FairTxSpec == TxSpec /\ \A t \in Txs : WF_txVars(TxStep(t)) /\ SF_txVars(Connect(t))

(***************************************************************************)
(* Properties.                                                             *)
(***************************************************************************)
TxPCs == {"idle", "connect", "begin", "run", "commit", "rollback", "release", "done"}

(* Every variable has the type of the local or session state it stands for. *)
TxTypeOK ==
    /\ adapter \in {"postgres", "pglite"} /\ overlap \in BOOLEAN
    /\ at \in [Txs -> TxPCs]
    /\ conn \in [Txs -> Conns \cup {NoConn}]
    /\ next \in [Txs -> 1 .. Statements + 1]
    /\ result \in [Txs -> {"none", "ok", "error", "lost"}]
    /\ session \in [Conns -> [open : BOOLEAN, aborted : BOOLEAN, writes : SUBSET (Txs \X Writes)]]
    /\ table \subseteq Txs \X Writes

AtomicFor(t) ==
    /\ AllOf(t) \subseteq table \/ AllOf(t) \cap table = {}
    /\ result[t] = "ok" => AllOf(t) \subseteq table
    /\ result[t] = "error" => AllOf(t) \cap table = {}

(* db.ts says at its head that both adapters have the same transaction semantics.  *)
Atomic == \A t \in Txs : AtomicFor(t)

(* The tables never hold a part of a transaction, and a caller that is told  *)
(* "ok" or "error" is told the truth, whatever fails: on Postgres whether or *)
(* not transactions overlap, on PGlite if they do not.                       *)
AllOrNothing == Isolated => Atomic

(* With no caller in flight no connection is left inside a transaction, where *)
(* the next caller's BEGIN would only warn.                                  *)
SessionsRest == Busy = {} => \A c \in Conns : session[c] = Idle

(* What service.ts relies on in tx: everything or nothing, a true answer, and *)
(* a connection that the next caller can begin on.                           *)
Transactional == TxTypeOK /\ AllOrNothing /\ SessionsRest

(* An adapter implements the store that service.ts is written against.       *)
ImplementsStore == Store!StoreSpec

(* A transaction that was begun is answered, though there are more callers   *)
(* than connections: each one gives its connection back.                     *)
EveryTxAnswered == \A t \in Txs : at[t] = "connect" ~> at[t] = "done"

(***************************************************************************)
(* Why they hold: the inductive invariants.                                *)
(***************************************************************************)
Holds(t) == at[t] \in {"begin", "run", "commit", "rollback", "release"}
Written(t) == {<<t, i>> : i \in 1 .. next[t] - 1}

(* What each caller knows of itself. *)
Local ==
    /\ TxTypeOK
    /\ \A t \in Txs :
          /\ Holds(t) => conn[t] \in Conns
          /\ at[t] \in {"idle", "connect", "begin"} => next[t] = 1
          /\ at[t] = "run" => next[t] \in Writes
          /\ at[t] = "commit" => next[t] = Statements + 1

(* A session that does not rest belongs to a caller who will end it. *)
SessionsOwned ==
    \A c \in Conns : session[c] # Idle =>
        \E t \in Txs : conn[t] = c /\ at[t] \in {"run", "commit", "rollback"}

(* Isolated callers do not share a connection ... *)
Alone ==
    /\ \A t, u \in Txs : Holds(t) /\ Holds(u) /\ conn[t] = conn[u] => t = u
    /\ adapter = "pglite" => \A t, u \in Busy : t = u

(* ... and find in its session what they have put there. *)
FindsOwn(t) ==
    /\ at[t] \in {"begin", "release"} => Session(t) = Idle
    /\ at[t] \in {"run", "commit"} => Session(t) = InSession(FALSE, Written(t))
    /\ at[t] \notin {"release", "done"} => result[t] = "none" /\ AllOf(t) \cap table = {}
SessionByPc == \A t \in Txs : FindsOwn(t)

IsolatedInv == Isolated => Alone /\ SessionByPc /\ Atomic
TxInv == Local /\ SessionsOwned /\ IsolatedInv
=============================================================================
