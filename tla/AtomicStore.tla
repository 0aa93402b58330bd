------------------------------ MODULE AtomicStore ------------------------------
(***************************************************************************)
(* What service.ts expects of SqlDatabase.tx: the writes of a transaction  *)
(* reach the tables together or not at all, its caller is told "ok" only   *)
(* if they did and "error" only if they did not.  A caller whose           *)
(* connection is lost learns neither.                                      *)
(***************************************************************************)
CONSTANTS Txs, Writes    \* Writes: the statements each transaction executes

VARIABLES table,         \* <<transaction, statement>>
          answer
storeVars == <<table, answer>>

AllOf(t) == {t} \X Writes
StoreInit == table = {} /\ answer = [t \in Txs |-> "none"]

Apply(t) == /\ answer[t] = "none" /\ AllOf(t) \cap table = {}
            /\ table' = table \cup AllOf(t)
            /\ answer' \in {answer, [answer EXCEPT ![t] = "ok"], [answer EXCEPT ![t] = "lost"]}
Tell(t, a) == /\ answer[t] = "none"
              /\ a = "ok" => AllOf(t) \subseteq table
              /\ a = "error" => AllOf(t) \cap table = {}
              /\ answer' = [answer EXCEPT ![t] = a]
              /\ UNCHANGED table

StoreNext == \E t \in Txs : Apply(t) \/ \E a \in {"ok", "error", "lost"} : Tell(t, a)
StoreSpec == StoreInit /\ [][StoreNext]_storeVars
=============================================================================
