---------------------------- MODULE StatementUse ----------------------------
(***************************************************************************)
(* What a connection promises about its prepared statements: each of them  *)
(* is prepared once, is used by one execution at a time, and is never used *)
(* if its preparation was rejected or after an execution was torn away     *)
(* from it.  An execution uses at most one prepared statement, once.       *)
(* OdbcConnection implements this module.                                  *)
(***************************************************************************)
CONSTANTS Stmt, Worker, NoStmt

VARIABLES
  state,      \* [Stmt -> "none", "ready", "rejected" or "spoiled"]
  uses,       \* [Worker -> the statement it executes, or NoStmt]
  over        \* the workers that ended

vars == <<state, uses, over>>

Init ==
  /\ state = [h \in Stmt |-> "none"]
  /\ uses = [w \in Worker |-> NoStmt]
  /\ over = {}

Prepare(h) ==
  /\ state[h] = "none"
  /\ \E answer \in {"ready", "rejected"} : state' = [state EXCEPT ![h] = answer]
  /\ UNCHANGED <<uses, over>>

Use(w, h) ==
  /\ w \notin over /\ uses[w] = NoStmt
  /\ state[h] = "ready" /\ \A v \in Worker : uses[v] # h
  /\ uses' = [uses EXCEPT ![w] = h]
  /\ UNCHANGED <<state, over>>

\* Also without ever having used a prepared statement.
Leave(w) ==
  /\ w \notin over
  /\ uses' = [uses EXCEPT ![w] = NoStmt]
  /\ over' = over \cup {w}
  /\ UNCHANGED state

Break(w) ==
  /\ uses[w] # NoStmt
  /\ state' = [state EXCEPT ![uses[w]] = "spoiled"]
  /\ uses' = [uses EXCEPT ![w] = NoStmt]
  /\ over' = over \cup {w}

Next ==
  \/ \E h \in Stmt : Prepare(h)
  \/ \E w \in Worker : Leave(w) \/ Break(w) \/ \E h \in Stmt : Use(w, h)

Spec == Init /\ [][Next]_vars
=============================================================================
