-------------------------- MODULE OdbcTransaction --------------------------
(***************************************************************************)
(* The transaction operations of OdbcConnection (begin_blocking,           *)
(* commit_blocking, rollback_blocking, start_rollback), the driver state   *)
(* they manipulate, and the statements that detached worker threads run on *)
(* the same driver connection.                                             *)
(*                                                                         *)
(* Ending a transaction takes two driver calls (commit or rollback, then   *)
(* set_autocommit(true)) inside one with_conn closure.  The closure holds  *)
(* the connection mutex; executing an already allocated statement does     *)
(* not take that mutex, so a worker may run between the two calls.         *)
(***************************************************************************)
EXTENDS Naturals

CONSTANTS
  Stmt,         \* statements the client may issue; each writes one unit of work
  NoStmt,       \* "the client awaits no statement"
  MaxTxn,       \* bound: successful begins
  MayAbandon    \* may a client drop the future of a running statement?

ASSUME NoStmtAssumption == NoStmt \notin Stmt
ASSUME MaxTxnAssumption == MaxTxn \in Nat
ASSUME MayAbandonAssumption == MayAbandon \in BOOLEAN

VARIABLES
  depth,        \* OdbcConnection::transaction_depth
  call,         \* the with_conn closure now between its two driver calls
  reply,        \* what the last transaction operation returned
  autocommit,   \* driver: the autocommit attribute of the connection
  open,         \* database: work executed in manual-commit mode, not ended
  durable,      \* database: committed work
  st,           \* progress of each statement's worker thread
  awaited,      \* the statement whose stream the client is polling
  \* History, read by the properties only:
  txn,          \* number of transactions begun
  scope,        \* transaction each statement was issued in, 0 for none
  early,        \* statements issued before any attempt to end their transaction
  asked,        \* the ends requested for each transaction
  closed,       \* transactions whose end was reported as done
  acked         \* statements whose result the client received

driverVars  == <<autocommit, open, durable>>
workerVars  == <<st, awaited, acked>>
historyVars == <<txn, scope, early, asked, closed>>
vars == <<depth, call, reply, driverVars, workerVars, historyVars>>

Txn == 1..MaxTxn

Init ==
  /\ depth = 0
  /\ call = "none"
  /\ reply = "none"
  /\ autocommit = "on" /\ open = {} /\ durable = {}
  /\ st = [s \in Stmt |-> "new"]
  /\ awaited = NoStmt
  /\ txn = 0
  /\ scope = [s \in Stmt |-> 0]
  /\ early = {}
  /\ asked = [t \in Txn |-> {}]
  /\ closed = {}
  /\ acked = {}

-----------------------------------------------------------------------------
(* The driver calls, each of which may also fail and change nothing.       *)

SetAutocommitOff == autocommit' = "off" /\ UNCHANGED <<open, durable>>

\* Switching back to autocommit commits whatever is still open (ODBC).
SetAutocommitOn ==
  /\ autocommit' = "on"
  /\ durable' = durable \cup open
  /\ open' = {}

DriverCommit ==
  /\ durable' = durable \cup open
  /\ open' = {}
  /\ UNCHANGED autocommit

DriverRollback == open' = {} /\ UNCHANGED <<autocommit, durable>>

DriverExecute(s) ==
  /\ IF autocommit = "on"
       THEN durable' = durable \cup {s} /\ UNCHANGED open
       ELSE open' = open \cup {s} /\ UNCHANGED durable
  /\ UNCHANGED autocommit

-----------------------------------------------------------------------------
(* The transaction operations.  They borrow the connection mutably: the    *)
(* client calls them only when it holds no stream.                         *)

ClientIdle == call = "none" /\ awaited = NoStmt

Begin ==
  /\ ClientIdle /\ depth = 0 /\ txn < MaxTxn
  /\ \/ /\ SetAutocommitOff
        /\ depth' = 1
        /\ txn' = txn + 1
        /\ reply' = "ok"
     \/ /\ reply' = "err"
        /\ UNCHANGED <<depth, txn, driverVars>>
  /\ UNCHANGED <<call, workerVars, scope, early, asked, closed>>

\* Mutant: a nested begin counts savepoints the driver does not have.
BeginNestedCounts ==
  /\ ClientIdle /\ depth > 0
  /\ depth' = depth + 1
  /\ reply' = "ok"
  /\ UNCHANGED <<call, driverVars, workerVars, historyVars>>

\* Mutant: begin clears left-over work before it looks at the depth.
BeginNestedClears ==
  /\ ClientIdle /\ depth > 0
  /\ DriverRollback
  /\ reply' = "savepoint"
  /\ UNCHANGED <<depth, call, workerVars, historyVars>>

BeginNested ==
  /\ ClientIdle /\ depth > 0
  /\ reply' = "savepoint"
  /\ UNCHANGED <<depth, call, driverVars, workerVars, historyVars>>

EndWithoutTransaction ==
  /\ ClientIdle /\ depth = 0
  /\ reply' = "ok"
  /\ UNCHANGED <<depth, call, driverVars, workerVars, historyVars>>

Ask(end) == asked' = [asked EXCEPT ![txn] = @ \cup {end}]

\* Mutant: commit_blocking copied from rollback_blocking.
CommitRollsBack ==
  /\ ClientIdle /\ depth > 0
  /\ Ask("commit")
  /\ \/ DriverRollback /\ call' = "commit" /\ UNCHANGED reply
     \/ reply' = "err" /\ UNCHANGED <<call, driverVars>>
  /\ UNCHANGED <<depth, workerVars, txn, scope, early, closed>>

Commit ==
  /\ ClientIdle /\ depth > 0
  /\ Ask("commit")
  /\ \/ DriverCommit /\ call' = "commit" /\ UNCHANGED reply
     \/ reply' = "err" /\ UNCHANGED <<call, driverVars>>
  /\ UNCHANGED <<depth, workerVars, txn, scope, early, closed>>

\* Mutant: a failed driver rollback is ignored and autocommit restored.
RollbackIgnoresFailure(op) ==
  /\ ClientIdle /\ depth > 0
  /\ Ask("rollback")
  /\ DriverRollback \/ UNCHANGED driverVars
  /\ call' = op
  /\ UNCHANGED <<depth, reply, workerVars, txn, scope, early, closed>>

\* rollback_blocking and start_rollback make the same driver calls; only the
\* first one reports their result.
Rollback(op) ==
  /\ ClientIdle /\ depth > 0
  /\ Ask("rollback")
  /\ \/ DriverRollback /\ call' = op /\ UNCHANGED reply
     \/ /\ reply' = IF op = "rollback" THEN "err" ELSE "none"
        /\ UNCHANGED <<call, driverVars>>
  /\ UNCHANGED <<depth, workerVars, txn, scope, early, closed>>

\* Mutant: the depth is reset before the driver call instead of after it.
RestoreForgetsFailure ==
  /\ call # "none"
  /\ depth' = 0
  /\ closed' = closed \cup {txn}
  /\ \/ SetAutocommitOn /\ reply' = "ok"
     \/ reply' = "err" /\ UNCHANGED driverVars
  /\ call' = "none"
  /\ UNCHANGED <<workerVars, txn, scope, early, asked>>

\* The second driver call of the closure: only its success resets the depth.
RestoreAutocommit ==
  /\ call # "none"
  /\ \/ /\ SetAutocommitOn
        /\ depth' = 0
        /\ closed' = closed \cup {txn}
        /\ reply' = IF call = "start_rollback" THEN "none" ELSE "ok"
     \/ /\ reply' = IF call = "start_rollback" THEN "none" ELSE "err"
        /\ UNCHANGED <<depth, closed, driverVars>>
  /\ call' = "none"
  /\ UNCHANGED <<workerVars, txn, scope, early, asked>>

-----------------------------------------------------------------------------
(* Statements.  Issuing one spawns a worker; a prepared one needs no       *)
(* further allocation, the other must first take the connection mutex.     *)

Issue(s) ==
  /\ ClientIdle /\ st[s] = "new"
  /\ \E prepared \in BOOLEAN :
       st' = [st EXCEPT ![s] = IF prepared THEN "ready" ELSE "spawned"]
  /\ awaited' = s
  /\ scope' = [scope EXCEPT ![s] = IF depth > 0 THEN txn ELSE 0]
  /\ early' = IF depth > 0 /\ asked[txn] = {} THEN early \cup {s} ELSE early
  /\ UNCHANGED <<depth, call, reply, driverVars, txn, asked, closed, acked>>

Allocate(s) ==
  /\ st[s] = "spawned" /\ call = "none"
  /\ st' = [st EXCEPT ![s] = "ready"]
  /\ UNCHANGED <<depth, call, reply, driverVars, awaited, acked, historyVars>>

Execute(s) ==
  /\ st[s] = "ready"
  /\ DriverExecute(s)
  /\ st' = [st EXCEPT ![s] = "done"]
  /\ IF awaited = s
       THEN acked' = acked \cup {s} /\ awaited' = NoStmt
       ELSE UNCHANGED <<acked, awaited>>
  /\ UNCHANGED <<depth, call, reply, historyVars>>

\* The driver refuses the allocation or the execution.
ExecuteFails(s) ==
  /\ st[s] = "ready" \/ (st[s] = "spawned" /\ call = "none")
  /\ st' = [st EXCEPT ![s] = "failed"]
  /\ awaited' = IF awaited = s THEN NoStmt ELSE awaited
  /\ UNCHANGED <<depth, call, reply, driverVars, acked, historyVars>>

\* The client drops the stream or the future; the worker is detached.
Drop ==
  /\ MayAbandon /\ awaited # NoStmt
  /\ awaited' = NoStmt
  /\ UNCHANGED <<depth, call, reply, driverVars, st, acked, historyVars>>

-----------------------------------------------------------------------------

Client ==
  \/ Begin
  \/ BeginNested
  \/ EndWithoutTransaction
  \/ Commit
  \/ \E op \in {"rollback", "start_rollback"} : Rollback(op)
  \/ RestoreAutocommit
  \/ \E s \in Stmt : Issue(s)
  \/ Drop

Worker == \E s \in Stmt : Allocate(s) \/ Execute(s) \/ ExecuteFails(s)

Next == Client \/ Worker

Spec == Init /\ [][Next]_vars

-----------------------------------------------------------------------------
(* Properties.                                                             *)

\* Every variable has its type; transaction_depth never exceeds one.
TypeOK ==
  /\ depth \in 0..1
  /\ call \in {"none", "commit", "rollback", "start_rollback"}
  /\ reply \in {"none", "ok", "err", "savepoint"}
  /\ autocommit \in {"on", "off"} /\ open \subseteq Stmt /\ durable \subseteq Stmt
  /\ st \in [Stmt -> {"new", "spawned", "ready", "done", "failed"}]
  /\ awaited \in Stmt \cup {NoStmt}
  /\ txn \in 0..MaxTxn
  /\ scope \in [Stmt -> 0..MaxTxn]
  /\ early \subseteq Stmt /\ acked \subseteq Stmt
  /\ asked \in [Txn -> SUBSET {"commit", "rollback"}]
  /\ closed \subseteq Txn

\* Whatever driver calls failed, the depth says which mode the driver is in:
\* a failed commit, rollback or restore leaves depth 1, so the next end call
\* retries it, and depth 0 leaves no work open that nothing would commit.
ManualModeIsRemembered ==
  /\ depth = 1 <=> autocommit = "off"
  /\ autocommit = "on" => open = {}

\* A statement the client saw succeed outside a transaction is durable, also
\* after earlier transactions whose ends failed in any way.
AckedAutocommitIsDurable ==
  \A s \in acked : scope[s] = 0 => s \in durable

\* Once an end of a transaction is reported as done and only commits were
\* asked for it, every statement it acknowledged is durable, however many
\* of those commits failed before.
AckedCommitIsDurable ==
  \A s \in acked :
    (scope[s] \in closed /\ "rollback" \notin asked[scope[s]]) => s \in durable

\* A statement acknowledged in a transaction that was never asked to commit
\* leaves no trace, although set_autocommit(true) commits what is open.
NoCommitNoTrace ==
  \A s \in acked :
    (scope[s] # 0 /\ s \in durable) => "commit" \in asked[scope[s]]

\* The acknowledged statements issued before the first attempt to end a
\* closed transaction share one fate, also when a commit failed half way and
\* a rollback followed.
AllOrNothing ==
  \A t \in closed :
    LET E == {s \in acked \cap early : scope[s] = t}
    IN  E \subseteq durable \/ E \cap durable = {}

\* What the test dropped_transaction_rolls_back_when_configured says of a
\* dropped transaction, for every statement issued in it, awaited or not: a
\* transaction never asked to commit leaves nothing in the database.
DroppedTransactionRollsBack ==
  \A s \in Stmt :
    (scope[s] # 0 /\ s \in durable) => "commit" \in asked[scope[s]]

\* Without abandoned statements the two-step protocol implements the promise.
Promise == INSTANCE TransactionPromise
             WITH inTxn <- depth = 1, pending <- open, committed <- durable

\* Every run of the operations is a run of TransactionPromise: in particular
\* restoring autocommit never commits anything by itself.
ImplementsPromise == Promise!Spec

=============================================================================
