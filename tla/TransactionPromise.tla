------------------------- MODULE TransactionPromise -------------------------
(***************************************************************************)
(* What one connection promises about units of work: outside a transaction *)
(* work is committed as it is executed; inside one it is pending until the *)
(* transaction's commit or rollback, and a transaction is left only when   *)
(* nothing is pending.  OdbcTransaction implements this module.            *)
(***************************************************************************)
CONSTANT Stmt

VARIABLES inTxn, pending, committed

vars == <<inTxn, pending, committed>>

Init == inTxn = FALSE /\ pending = {} /\ committed = {}

Execute(s) ==
  /\ s \notin pending \cup committed
  /\ IF inTxn
       THEN pending' = pending \cup {s} /\ UNCHANGED committed
       ELSE committed' = committed \cup {s} /\ UNCHANGED pending
  /\ UNCHANGED inTxn

Begin == ~inTxn /\ inTxn' = TRUE /\ UNCHANGED <<pending, committed>>

Commit ==
  /\ inTxn
  /\ committed' = committed \cup pending
  /\ pending' = {}
  /\ UNCHANGED inTxn

Rollback == inTxn /\ pending' = {} /\ UNCHANGED <<inTxn, committed>>

Leave ==
  /\ inTxn
  /\ pending = {}
  /\ inTxn' = FALSE
  /\ UNCHANGED <<pending, committed>>

Next == Begin \/ Commit \/ Rollback \/ Leave \/ \E s \in Stmt : Execute(s)

Spec == Init /\ [][Next]_vars
=============================================================================
