----------------------- MODULE OdbcTransactionProofs -----------------------
(***************************************************************************)
(* The safety invariants of OdbcTransaction, for every set of statements   *)
(* and every number of transactions.                                       *)
(***************************************************************************)
EXTENDS OdbcTransaction, TLAPS

USE NoStmtAssumption, MaxTxnAssumption, MayAbandonAssumption

\* A closure is between its driver calls only in an active transaction whose
\* end was asked, while the client holds no stream.
CallInv ==
  call # "none" => depth = 1 /\ awaited = NoStmt /\ asked[txn] # {}

\* The active transaction is the last one begun and is not closed.
TxnInv ==
  /\ depth = 1 => txn \in Txn /\ txn \notin closed
  /\ call = "commit" => "commit" \in asked[txn]
  /\ call \in {"rollback", "start_rollback"} => "rollback" \in asked[txn]
  /\ \A t \in closed : t <= txn

\* The awaited statement has not executed and belongs to the current scope.
AwaitInv ==
  awaited # NoStmt =>
    /\ st[awaited] \in {"spawned", "ready"}
    /\ scope[awaited] = IF depth = 1 THEN txn ELSE 0
    /\ awaited \in early => depth = 1 /\ asked[txn] = {}

\* A statement has an effect only after it executed, once.
ProgressInv ==
  \A s \in Stmt :
    /\ scope[s] <= txn
    /\ st[s] = "new" => s \notin early
    /\ s \in acked => st[s] = "done"
    /\ s \in open \cup durable => st[s] = "done"

\* Where the work of an acknowledged statement is, by what was asked.
AckedInv ==
  \A s \in acked :
    /\ s \in open => scope[s] = txn /\ depth = 1 /\ call = "none"
    /\ scope[s] = 0 => s \in durable
    /\ scope[s] # 0 /\ s \in durable => "commit" \in asked[scope[s]]
    /\ scope[s] # 0 =>
         s \in open \cup durable \/ "rollback" \in asked[scope[s]]

EarlyAcked(t) == {s \in acked \cap early : scope[s] = t}

\* The early acknowledged statements of a transaction are together: pending
\* until an end is asked, then still pending, committed or rolled back.
Pending(E)    == E \subseteq open /\ E \cap durable = {}
Committed(E)  == E \subseteq durable
RolledBack(E) == E \cap (open \cup durable) = {}

Fate(t) ==
  /\ asked[t] = {} => Pending(EarlyAcked(t))
  /\ Pending(EarlyAcked(t)) \/ Committed(EarlyAcked(t)) \/ RolledBack(EarlyAcked(t))

FateInv == \A t \in Txn : Fate(t)

IInv ==
  /\ TypeOK
  /\ ManualModeIsRemembered
  /\ CallInv
  /\ TxnInv
  /\ AwaitInv
  /\ ProgressInv
  /\ AckedInv
  /\ FateInv

-----------------------------------------------------------------------------

\* Types alone are not inductive: closed gains txn, which is a transaction
\* because a closure only runs in an active one.
TypeInv ==
  /\ TypeOK
  /\ call # "none" => depth = 1
  /\ depth = 1 => txn # 0

\* Every reachable state has the types of the code's fields; in particular
\* transaction_depth never exceeds one, whatever the calls and failures.
THEOREM Typing == Spec => []TypeOK
<1>1. Init => TypeInv
  BY DEF Init, TypeInv, TypeOK, Txn
<1>2. TypeInv /\ [Next]_vars => TypeInv'
  <2> SUFFICES ASSUME TypeInv, [Next]_vars PROVE TypeInv'
    OBVIOUS
  <2> USE DEF TypeInv, TypeOK, Txn, driverVars, workerVars, historyVars, ClientIdle
  <2>1. CASE Begin
    BY <2>1 DEF Begin, SetAutocommitOff
  <2>2. CASE BeginNested
    BY <2>2 DEF BeginNested
  <2>3. CASE EndWithoutTransaction
    BY <2>3 DEF EndWithoutTransaction
  <2>4. CASE Commit
    BY <2>4 DEF Commit, DriverCommit, Ask
  <2>5. CASE \E op \in {"rollback", "start_rollback"} : Rollback(op)
    BY <2>5 DEF Rollback, DriverRollback, Ask
  <2>6. CASE RestoreAutocommit
    <3>1. txn \in Txn
      BY <2>6 DEF RestoreAutocommit
    <3>2. closed' \subseteq Txn
      BY <2>6, <3>1 DEF RestoreAutocommit
    <3>3. autocommit' \in {"on", "off"} /\ open' \subseteq Stmt /\ durable' \subseteq Stmt
      BY <2>6 DEF RestoreAutocommit, SetAutocommitOn
    <3>4. QED
      BY <2>6, <3>2, <3>3 DEF RestoreAutocommit
  <2>7. CASE \E s \in Stmt : Issue(s)
    <3>1. PICK s \in Stmt : Issue(s)
      BY <2>7
    <3>2. st' \in [Stmt -> {"new", "spawned", "ready", "done", "failed"}]
      BY <3>1 DEF Issue
    <3>3. scope' \in [Stmt -> 0..MaxTxn]
      BY <3>1 DEF Issue
    <3>4. QED
      BY <3>1, <3>2, <3>3 DEF Issue
  <2>8. CASE Drop
    BY <2>8 DEF Drop
  <2>9. CASE \E s \in Stmt : Allocate(s)
    BY <2>9 DEF Allocate
  <2>10. CASE \E s \in Stmt : Execute(s)
    BY <2>10 DEF Execute, DriverExecute
  <2>11. CASE \E s \in Stmt : ExecuteFails(s)
    BY <2>11 DEF ExecuteFails
  <2>12. CASE UNCHANGED vars
    BY <2>12 DEF vars
  <2> QED
    BY <2>1, <2>2, <2>3, <2>4, <2>5, <2>6, <2>7, <2>8, <2>9, <2>10, <2>11, <2>12 DEF Next, Client, Worker
<1>3. TypeInv => TypeOK
  BY DEF TypeInv
<1> QED
  BY <1>1, <1>2, <1>3, PTL DEF Spec

\* A step that moves no work and asks for no end keeps every fate.
LEMMA FateUnchanged ==
  ASSUME FateInv, UNCHANGED <<open, durable, asked>>,
         \A t \in Txn : EarlyAcked(t)' = EarlyAcked(t)
  PROVE  FateInv'
BY DEF FateInv, Fate, Pending, Committed, RolledBack

LEMMA InductiveStep ==
  ASSUME IInv, TypeOK', [Next]_vars PROVE IInv'
<1> USE DEF TypeOK, Txn, driverVars, workerVars, historyVars, ClientIdle
<1>1. CASE Begin
  <2>1. ManualModeIsRemembered'
    BY <1>1 DEF IInv, ManualModeIsRemembered, CallInv, Begin, SetAutocommitOff
  <2>2. CallInv'
    BY <1>1 DEF IInv, CallInv, TxnInv, Begin, SetAutocommitOff
  <2>3. TxnInv'
    BY <1>1 DEF IInv, TxnInv, CallInv, ManualModeIsRemembered, Begin, SetAutocommitOff
  <2>4. AwaitInv'
    BY <1>1 DEF IInv, AwaitInv, CallInv, ProgressInv, TxnInv, Begin, SetAutocommitOff
  <2>5. ProgressInv'
    BY <1>1 DEF IInv, ProgressInv, TxnInv, AwaitInv, Begin, SetAutocommitOff
  <2>6. AckedInv'
    BY <1>1 DEF IInv, AckedInv, ProgressInv, TxnInv, AwaitInv, CallInv, ManualModeIsRemembered, Begin, SetAutocommitOff
  <2>7. FateInv'
    <3>1. \A t \in Txn : EarlyAcked(t)' = EarlyAcked(t)
      BY <1>1 DEF IInv, EarlyAcked, Begin
    <3>2. UNCHANGED <<open, durable, asked>>
      BY <1>1 DEF Begin, SetAutocommitOff
    <3>3. QED
      BY <3>1, <3>2, FateUnchanged DEF IInv
  <2> QED
    BY <2>1, <2>2, <2>3, <2>4, <2>5, <2>6, <2>7 DEF IInv
<1>2. CASE BeginNested
  <2>1. ManualModeIsRemembered'
    BY <1>2 DEF IInv, ManualModeIsRemembered, CallInv, BeginNested
  <2>2. CallInv'
    BY <1>2 DEF IInv, CallInv, TxnInv, BeginNested
  <2>3. TxnInv'
    BY <1>2 DEF IInv, TxnInv, CallInv, ManualModeIsRemembered, BeginNested
  <2>4. AwaitInv'
    BY <1>2 DEF IInv, AwaitInv, CallInv, ProgressInv, TxnInv, BeginNested
  <2>5. ProgressInv'
    BY <1>2 DEF IInv, ProgressInv, TxnInv, AwaitInv, BeginNested
  <2>6. AckedInv'
    BY <1>2 DEF IInv, AckedInv, ProgressInv, TxnInv, AwaitInv, CallInv, ManualModeIsRemembered, BeginNested
  <2>7. FateInv'
    <3>1. \A t \in Txn : EarlyAcked(t)' = EarlyAcked(t)
      BY <1>2 DEF IInv, EarlyAcked, BeginNested
    <3>2. UNCHANGED <<open, durable, asked>>
      BY <1>2 DEF BeginNested
    <3>3. QED
      BY <3>1, <3>2, FateUnchanged DEF IInv
  <2> QED
    BY <2>1, <2>2, <2>3, <2>4, <2>5, <2>6, <2>7 DEF IInv
<1>3. CASE EndWithoutTransaction
  <2>1. ManualModeIsRemembered'
    BY <1>3 DEF IInv, ManualModeIsRemembered, CallInv, EndWithoutTransaction
  <2>2. CallInv'
    BY <1>3 DEF IInv, CallInv, TxnInv, EndWithoutTransaction
  <2>3. TxnInv'
    BY <1>3 DEF IInv, TxnInv, CallInv, ManualModeIsRemembered, EndWithoutTransaction
  <2>4. AwaitInv'
    BY <1>3 DEF IInv, AwaitInv, CallInv, ProgressInv, TxnInv, EndWithoutTransaction
  <2>5. ProgressInv'
    BY <1>3 DEF IInv, ProgressInv, TxnInv, AwaitInv, EndWithoutTransaction
  <2>6. AckedInv'
    BY <1>3 DEF IInv, AckedInv, ProgressInv, TxnInv, AwaitInv, CallInv, ManualModeIsRemembered, EndWithoutTransaction
  <2>7. FateInv'
    <3>1. \A t \in Txn : EarlyAcked(t)' = EarlyAcked(t)
      BY <1>3 DEF IInv, EarlyAcked, EndWithoutTransaction
    <3>2. UNCHANGED <<open, durable, asked>>
      BY <1>3 DEF EndWithoutTransaction
    <3>3. QED
      BY <3>1, <3>2, FateUnchanged DEF IInv
  <2> QED
    BY <2>1, <2>2, <2>3, <2>4, <2>5, <2>6, <2>7 DEF IInv
<1>4. CASE Commit
  <2>1. ManualModeIsRemembered'
    BY <1>4 DEF IInv, ManualModeIsRemembered, CallInv, Commit, DriverCommit, Ask
  <2>2. CallInv'
    BY <1>4 DEF IInv, CallInv, TxnInv, Commit, DriverCommit, Ask
  <2>3. TxnInv'
    BY <1>4 DEF IInv, TxnInv, CallInv, ManualModeIsRemembered, Commit, DriverCommit, Ask
  <2>4. AwaitInv'
    BY <1>4 DEF IInv, AwaitInv, CallInv, ProgressInv, TxnInv, Commit, DriverCommit, Ask
  <2>5. ProgressInv'
    BY <1>4 DEF IInv, ProgressInv, TxnInv, AwaitInv, Commit, DriverCommit, Ask
  <2>6. AckedInv'
    BY <1>4 DEF IInv, AckedInv, ProgressInv, TxnInv, AwaitInv, CallInv, ManualModeIsRemembered, Commit, DriverCommit, Ask
  <2>7. FateInv'
    <3>1. \A t \in Txn : EarlyAcked(t)' = EarlyAcked(t)
      BY <1>4 DEF Commit, EarlyAcked
    <3>2. \A t \in Txn : asked'[t] = {} => asked[t] = {} /\ t # txn
      BY <1>4 DEF Commit, Ask, IInv, TxnInv
    <3>3. \A t \in Txn : t # txn => EarlyAcked(t) \cap open = {}
      BY DEF IInv, AckedInv, EarlyAcked
    <3>4. \/ UNCHANGED <<open, durable>>
          \/ durable' = durable \cup open /\ open' = {}
      BY <1>4 DEF Commit, DriverCommit
    <3>5. QED
      <4> SUFFICES ASSUME NEW t \in Txn PROVE Fate(t)'
        BY DEF FateInv
      <4>1. Fate(t)
        BY DEF IInv, FateInv
      <4>2. QED
        BY <3>1, <3>2, <3>3, <3>4, <4>1 DEF Fate, Pending, Committed, RolledBack
  <2> QED
    BY <2>1, <2>2, <2>3, <2>4, <2>5, <2>6, <2>7 DEF IInv
<1>5. CASE \E op \in {"rollback", "start_rollback"} : Rollback(op)
  <2> PICK op \in {"rollback", "start_rollback"} : Rollback(op)
    BY <1>5
  <2>1. ManualModeIsRemembered'
    BY DEF IInv, ManualModeIsRemembered, CallInv, Rollback, DriverRollback, Ask
  <2>2. CallInv'
    BY DEF IInv, CallInv, TxnInv, Rollback, DriverRollback, Ask
  <2>3. TxnInv'
    BY DEF IInv, TxnInv, CallInv, ManualModeIsRemembered, Rollback, DriverRollback, Ask
  <2>4. AwaitInv'
    BY DEF IInv, AwaitInv, CallInv, ProgressInv, TxnInv, Rollback, DriverRollback, Ask
  <2>5. ProgressInv'
    BY DEF IInv, ProgressInv, TxnInv, AwaitInv, Rollback, DriverRollback, Ask
  <2>6. AckedInv'
    BY DEF IInv, AckedInv, ProgressInv, TxnInv, AwaitInv, CallInv, ManualModeIsRemembered, Rollback, DriverRollback, Ask
  <2>7. FateInv'
    <3>1. \A t \in Txn : EarlyAcked(t)' = EarlyAcked(t)
      BY DEF Rollback, EarlyAcked
    <3>2. \A t \in Txn : asked'[t] = {} => asked[t] = {} /\ t # txn
      BY DEF Rollback, Ask, IInv, TxnInv
    <3>3. \A t \in Txn : t # txn => EarlyAcked(t) \cap open = {}
      BY DEF IInv, AckedInv, EarlyAcked
    <3>4. durable' = durable /\ (open' = open \/ open' = {})
      BY DEF Rollback, DriverRollback
    <3>5. QED
      <4> SUFFICES ASSUME NEW t \in Txn PROVE Fate(t)'
        BY DEF FateInv
      <4>1. Fate(t)
        BY DEF IInv, FateInv
      <4>2. QED
        BY <3>1, <3>2, <3>3, <3>4, <4>1 DEF Fate, Pending, Committed, RolledBack
  <2> QED
    BY <2>1, <2>2, <2>3, <2>4, <2>5, <2>6, <2>7 DEF IInv
<1>6. CASE RestoreAutocommit
  <2>1. ManualModeIsRemembered'
    BY <1>6 DEF IInv, ManualModeIsRemembered, CallInv, RestoreAutocommit, SetAutocommitOn
  <2>2. CallInv'
    BY <1>6 DEF IInv, CallInv, TxnInv, RestoreAutocommit, SetAutocommitOn
  <2>3. TxnInv'
    BY <1>6 DEF IInv, TxnInv, CallInv, ManualModeIsRemembered, RestoreAutocommit, SetAutocommitOn
  <2>4. AwaitInv'
    BY <1>6 DEF IInv, AwaitInv, CallInv, ProgressInv, TxnInv, RestoreAutocommit, SetAutocommitOn
  <2>5. ProgressInv'
    BY <1>6 DEF IInv, ProgressInv, TxnInv, AwaitInv, RestoreAutocommit, SetAutocommitOn
  <2>6. AckedInv'
    BY <1>6 DEF IInv, AckedInv, ProgressInv, TxnInv, AwaitInv, CallInv, ManualModeIsRemembered, RestoreAutocommit, SetAutocommitOn
  <2>7. FateInv'
    <3>1. \A t \in Txn : EarlyAcked(t)' = EarlyAcked(t)
      BY <1>6 DEF RestoreAutocommit, EarlyAcked
    <3>2. \A t \in Txn : EarlyAcked(t) \cap open = {}
      BY <1>6 DEF RestoreAutocommit, IInv, AckedInv, EarlyAcked
    <3>3. \/ UNCHANGED <<open, durable, asked>>
          \/ durable' = durable \cup open /\ open' = {} /\ asked' = asked
      BY <1>6 DEF RestoreAutocommit, SetAutocommitOn
    <3>4. QED
      <4> SUFFICES ASSUME NEW t \in Txn PROVE Fate(t)'
        BY DEF FateInv
      <4>1. Fate(t)
        BY DEF IInv, FateInv
      <4>2. QED
        BY <3>1, <3>2, <3>3, <4>1 DEF Fate, Pending, Committed, RolledBack
  <2> QED
    BY <2>1, <2>2, <2>3, <2>4, <2>5, <2>6, <2>7 DEF IInv
<1>7. CASE \E s \in Stmt : Issue(s)
  <2> PICK s \in Stmt : Issue(s)
    BY <1>7
  <2>1. ManualModeIsRemembered'
    BY DEF IInv, ManualModeIsRemembered, CallInv, Issue
  <2>2. CallInv'
    BY DEF IInv, CallInv, TxnInv, Issue
  <2>3. TxnInv'
    BY DEF IInv, TxnInv, CallInv, ManualModeIsRemembered, Issue
  <2>4. AwaitInv'
    BY DEF IInv, AwaitInv, CallInv, ProgressInv, TxnInv, Issue
  <2>5. ProgressInv'
    BY DEF IInv, ProgressInv, TxnInv, AwaitInv, Issue
  <2>6. AckedInv'
    BY DEF IInv, AckedInv, ProgressInv, TxnInv, AwaitInv, CallInv, ManualModeIsRemembered, Issue
  <2>7. FateInv'
    <3>1. \A t \in Txn : EarlyAcked(t)' = EarlyAcked(t)
      BY DEF IInv, EarlyAcked, ProgressInv, Issue
    <3>2. UNCHANGED <<open, durable, asked>>
      BY DEF Issue
    <3>3. QED
      BY <3>1, <3>2, FateUnchanged DEF IInv
  <2> QED
    BY <2>1, <2>2, <2>3, <2>4, <2>5, <2>6, <2>7 DEF IInv
<1>8. CASE Drop
  <2>1. ManualModeIsRemembered'
    BY <1>8 DEF IInv, ManualModeIsRemembered, CallInv, Drop
  <2>2. CallInv'
    BY <1>8 DEF IInv, CallInv, TxnInv, Drop
  <2>3. TxnInv'
    BY <1>8 DEF IInv, TxnInv, CallInv, ManualModeIsRemembered, Drop
  <2>4. AwaitInv'
    BY <1>8 DEF IInv, AwaitInv, CallInv, ProgressInv, TxnInv, Drop
  <2>5. ProgressInv'
    BY <1>8 DEF IInv, ProgressInv, TxnInv, AwaitInv, Drop
  <2>6. AckedInv'
    BY <1>8 DEF IInv, AckedInv, ProgressInv, TxnInv, AwaitInv, CallInv, ManualModeIsRemembered, Drop
  <2>7. FateInv'
    <3>1. \A t \in Txn : EarlyAcked(t)' = EarlyAcked(t)
      BY <1>8 DEF IInv, EarlyAcked, Drop
    <3>2. UNCHANGED <<open, durable, asked>>
      BY <1>8 DEF Drop
    <3>3. QED
      BY <3>1, <3>2, FateUnchanged DEF IInv
  <2> QED
    BY <2>1, <2>2, <2>3, <2>4, <2>5, <2>6, <2>7 DEF IInv
<1>9. CASE \E s \in Stmt : Allocate(s)
  <2> PICK s \in Stmt : Allocate(s)
    BY <1>9
  <2>1. ManualModeIsRemembered'
    BY DEF IInv, ManualModeIsRemembered, CallInv, Allocate
  <2>2. CallInv'
    BY DEF IInv, CallInv, TxnInv, Allocate
  <2>3. TxnInv'
    BY DEF IInv, TxnInv, CallInv, ManualModeIsRemembered, Allocate
  <2>4. AwaitInv'
    BY DEF IInv, AwaitInv, CallInv, ProgressInv, TxnInv, Allocate
  <2>5. ProgressInv'
    BY DEF IInv, ProgressInv, TxnInv, AwaitInv, Allocate
  <2>6. AckedInv'
    BY DEF IInv, AckedInv, ProgressInv, TxnInv, AwaitInv, CallInv, ManualModeIsRemembered, Allocate
  <2>7. FateInv'
    <3>1. \A t \in Txn : EarlyAcked(t)' = EarlyAcked(t)
      BY DEF IInv, EarlyAcked, Allocate
    <3>2. UNCHANGED <<open, durable, asked>>
      BY DEF Allocate
    <3>3. QED
      BY <3>1, <3>2, FateUnchanged DEF IInv
  <2> QED
    BY <2>1, <2>2, <2>3, <2>4, <2>5, <2>6, <2>7 DEF IInv
<1>10. CASE \E s \in Stmt : Execute(s)
  <2> PICK s \in Stmt : Execute(s)
    BY <1>10
  <2>1. ManualModeIsRemembered'
    BY DEF IInv, ManualModeIsRemembered, CallInv, Execute, DriverExecute
  <2>2. CallInv'
    BY DEF IInv, CallInv, TxnInv, Execute, DriverExecute
  <2>3. TxnInv'
    BY DEF IInv, TxnInv, CallInv, ManualModeIsRemembered, Execute, DriverExecute
  <2>4. AwaitInv'
    BY DEF IInv, AwaitInv, CallInv, ProgressInv, TxnInv, Execute, DriverExecute
  <2>5. ProgressInv'
    BY DEF IInv, ProgressInv, TxnInv, AwaitInv, Execute, DriverExecute
  <2>6. AckedInv'
    BY DEF IInv, AckedInv, ProgressInv, TxnInv, AwaitInv, CallInv, ManualModeIsRemembered, Execute, DriverExecute
  <2>7. FateInv'
    <3>1. s \notin open \cup durable
      BY DEF Execute, IInv, ProgressInv
    <3>2. CASE awaited = s /\ s \in early
      <4>1. autocommit = "off" /\ asked[txn] = {} /\ scope[s] = txn
        BY <3>2 DEF IInv, AwaitInv, ManualModeIsRemembered
      <4>2. open' = open \cup {s} /\ UNCHANGED <<durable, asked>>
        BY <4>1 DEF Execute, DriverExecute
      <4>3. \A t \in Txn : EarlyAcked(t)' =
              IF t = txn THEN EarlyAcked(t) \cup {s} ELSE EarlyAcked(t)
        BY <3>2, <4>1 DEF Execute, EarlyAcked, IInv
      <4>4. \A t \in Txn : s \notin EarlyAcked(t)
        BY DEF Execute, IInv, ProgressInv, EarlyAcked
      <4>5. QED
        <5> SUFFICES ASSUME NEW t \in Txn PROVE Fate(t)'
          BY DEF FateInv
        <5>1. Fate(t)
          BY DEF IInv, FateInv
        <5>2. QED
          BY <3>1, <4>1, <4>2, <4>3, <4>4, <5>1 DEF Fate, Pending, Committed, RolledBack
    <3>3. CASE ~(awaited = s /\ s \in early)
      <4>1. \A t \in Txn : EarlyAcked(t)' = EarlyAcked(t)
        BY <3>3 DEF Execute, EarlyAcked
      <4>2. \A t \in Txn : s \notin EarlyAcked(t)
        BY DEF Execute, IInv, ProgressInv, EarlyAcked
      <4>3. /\ asked' = asked
            /\ \/ open' = open \cup {s} /\ durable' = durable
               \/ open' = open /\ durable' = durable \cup {s}
        BY DEF Execute, DriverExecute
      <4>4. QED
        <5> SUFFICES ASSUME NEW t \in Txn PROVE Fate(t)'
          BY DEF FateInv
        <5>1. Fate(t)
          BY DEF IInv, FateInv
        <5>2. QED
          BY <4>1, <4>2, <4>3, <5>1 DEF Fate, Pending, Committed, RolledBack
    <3>4. QED
      BY <3>2, <3>3
  <2> QED
    BY <2>1, <2>2, <2>3, <2>4, <2>5, <2>6, <2>7 DEF IInv
<1>11. CASE \E s \in Stmt : ExecuteFails(s)
  <2> PICK s \in Stmt : ExecuteFails(s)
    BY <1>11
  <2>1. ManualModeIsRemembered'
    BY DEF IInv, ManualModeIsRemembered, CallInv, ExecuteFails
  <2>2. CallInv'
    BY DEF IInv, CallInv, TxnInv, ExecuteFails
  <2>3. TxnInv'
    BY DEF IInv, TxnInv, CallInv, ManualModeIsRemembered, ExecuteFails
  <2>4. AwaitInv'
    BY DEF IInv, AwaitInv, CallInv, ProgressInv, TxnInv, ExecuteFails
  <2>5. ProgressInv'
    BY DEF IInv, ProgressInv, TxnInv, AwaitInv, ExecuteFails
  <2>6. AckedInv'
    BY DEF IInv, AckedInv, ProgressInv, TxnInv, AwaitInv, CallInv, ManualModeIsRemembered, ExecuteFails
  <2>7. FateInv'
    <3>1. \A t \in Txn : EarlyAcked(t)' = EarlyAcked(t)
      BY DEF IInv, EarlyAcked, ExecuteFails
    <3>2. UNCHANGED <<open, durable, asked>>
      BY DEF ExecuteFails
    <3>3. QED
      BY <3>1, <3>2, FateUnchanged DEF IInv
  <2> QED
    BY <2>1, <2>2, <2>3, <2>4, <2>5, <2>6, <2>7 DEF IInv
<1>12. CASE UNCHANGED vars
  <2>1. FateInv'
    BY <1>12, FateUnchanged DEF vars, IInv, EarlyAcked
  <2>2. QED
    BY <1>12, <2>1 DEF vars, IInv, ManualModeIsRemembered, CallInv, TxnInv, AwaitInv, ProgressInv, AckedInv
<1> QED
  BY <1>1, <1>2, <1>3, <1>4, <1>5, <1>6, <1>7, <1>8, <1>9, <1>10, <1>11, <1>12 DEF Next, Client, Worker

\* The inductive invariant holds in every reachable state.
THEOREM Inductive == Spec => []IInv
<1>1. Init => IInv
  BY DEF Init, IInv, TypeOK, Txn, ManualModeIsRemembered, CallInv, TxnInv,
         AwaitInv, ProgressInv, AckedInv, FateInv, Fate, EarlyAcked, Pending
<1>2. IInv /\ TypeOK' /\ [Next]_vars => IInv'
  BY InductiveStep
<1> QED
  BY <1>1, <1>2, Typing, PTL DEF Spec

-----------------------------------------------------------------------------

\* Depth and driver mode agree, whatever driver calls failed.
THEOREM ManualModeSafe == Spec => []ManualModeIsRemembered
<1>1. IInv => ManualModeIsRemembered
  BY DEF IInv
<1> QED
  BY <1>1, Inductive, PTL

\* A statement acknowledged outside a transaction is never lost.
THEOREM AutocommitSafe == Spec => []AckedAutocommitIsDurable
<1>1. IInv => AckedAutocommitIsDurable
  BY DEF IInv, AckedInv, AckedAutocommitIsDurable
<1> QED
  BY <1>1, Inductive, PTL

\* A reported commit covers every acknowledged statement of its transaction:
\* none of them can still be pending once the transaction is closed.
THEOREM CommitSafe == Spec => []AckedCommitIsDurable
<1>1. IInv => AckedCommitIsDurable
  <2> SUFFICES ASSUME IInv, NEW s \in acked, scope[s] \in closed,
                      "rollback" \notin asked[scope[s]]
               PROVE  s \in durable
    BY DEF AckedCommitIsDurable
  <2>1. scope[s] # 0
    BY DEF IInv, TypeOK, Txn
  <2>2. s \in open \cup durable
    BY <2>1 DEF IInv, AckedInv
  <2>3. s \notin open
    BY DEF IInv, AckedInv, TxnInv
  <2> QED
    BY <2>2, <2>3
<1> QED
  BY <1>1, Inductive, PTL

\* Rolling back, and restoring autocommit afterwards, commits no
\* acknowledged statement.
THEOREM RollbackSafe == Spec => []NoCommitNoTrace
<1>1. IInv => NoCommitNoTrace
  BY DEF IInv, AckedInv, NoCommitNoTrace
<1> QED
  BY <1>1, Inductive, PTL

\* Half-failed commits followed by rollbacks never split a transaction.
THEOREM AtomicitySafe == Spec => []AllOrNothing
<1>1. IInv => AllOrNothing
  <2> SUFFICES ASSUME IInv, NEW t \in closed
               PROVE  EarlyAcked(t) \subseteq durable \/ EarlyAcked(t) \cap durable = {}
    BY DEF AllOrNothing, EarlyAcked
  <2>1. Fate(t)
    BY DEF IInv, TypeOK, FateInv
  <2> QED
    BY <2>1 DEF Fate, Pending, Committed, RolledBack
<1> QED
  BY <1>1, Inductive, PTL

-----------------------------------------------------------------------------

\* When no future is dropped, a worker runs only while the client waits for
\* it, so nothing executes between the two driver calls of an end.
AwaitedInv ==
  /\ \A s \in Stmt : st[s] \in {"spawned", "ready"} => awaited = s
  /\ call # "none" => open = {}

LEMMA AwaitedStep ==
  ASSUME MayAbandon = FALSE, IInv, AwaitedInv, [Next]_vars
  PROVE  AwaitedInv'
<1> USE DEF AwaitedInv, IInv, TypeOK, CallInv, driverVars, workerVars, ClientIdle
<1>1. CASE Begin
  BY <1>1 DEF Begin, SetAutocommitOff
<1>2. CASE BeginNested
  BY <1>2 DEF BeginNested
<1>3. CASE EndWithoutTransaction
  BY <1>3 DEF EndWithoutTransaction
<1>4. CASE Commit
  BY <1>4 DEF Commit, DriverCommit
<1>5. CASE \E op \in {"rollback", "start_rollback"} : Rollback(op)
  BY <1>5 DEF Rollback, DriverRollback
<1>6. CASE RestoreAutocommit
  BY <1>6 DEF RestoreAutocommit, SetAutocommitOn
<1>7. CASE \E s \in Stmt : Issue(s)
  BY <1>7 DEF Issue
<1>8. CASE Drop
  BY <1>8 DEF Drop
<1>9. CASE \E s \in Stmt : Allocate(s)
  BY <1>9 DEF Allocate
<1>10. CASE \E s \in Stmt : Execute(s)
  <2> PICK s \in Stmt : Execute(s)
    BY <1>10
  <2>1. awaited = s /\ call = "none"
    BY NoStmtAssumption DEF Execute
  <2>2. QED
    BY <2>1 DEF Execute
<1>11. CASE \E s \in Stmt : ExecuteFails(s)
  BY <1>11 DEF ExecuteFails
<1>12. CASE UNCHANGED vars
  BY <1>12 DEF vars
<1> QED
  BY <1>1, <1>2, <1>3, <1>4, <1>5, <1>6, <1>7, <1>8, <1>9, <1>10, <1>11, <1>12
     DEF Next, Client, Worker

\* Every step is a step of the promise or changes none of its variables.
LEMMA PromiseStep ==
  ASSUME IInv, AwaitedInv, [Next]_vars
  PROVE  [Promise!Next]_(Promise!vars)
<1> USE DEF Promise!vars, IInv, TypeOK, driverVars, workerVars, ClientIdle
<1>1. CASE Begin
  BY <1>1 DEF Begin, SetAutocommitOff, Promise!Next, Promise!Begin
<1>2. CASE BeginNested
  BY <1>2 DEF BeginNested
<1>3. CASE EndWithoutTransaction
  BY <1>3 DEF EndWithoutTransaction
<1>4. CASE Commit
  BY <1>4 DEF Commit, DriverCommit, Promise!Next, Promise!Commit
<1>5. CASE \E op \in {"rollback", "start_rollback"} : Rollback(op)
  BY <1>5 DEF Rollback, DriverRollback, Promise!Next, Promise!Rollback
<1>6. CASE RestoreAutocommit
  <2>1. depth = 1 /\ open = {}
    BY <1>6 DEF RestoreAutocommit, CallInv, AwaitedInv
  <2>2. CASE depth' = depth
    BY <1>6, <2>1, <2>2 DEF RestoreAutocommit
  <2>3. CASE depth' # depth
    BY <1>6, <2>1, <2>3 DEF RestoreAutocommit, SetAutocommitOn, Promise!Next, Promise!Leave
  <2>4. QED
    BY <2>2, <2>3
<1>7. CASE \E s \in Stmt : Issue(s)
  BY <1>7 DEF Issue
<1>8. CASE Drop
  BY <1>8 DEF Drop
<1>9. CASE \E s \in Stmt : Allocate(s)
  BY <1>9 DEF Allocate
<1>10. CASE \E s \in Stmt : Execute(s)
  <2> PICK s \in Stmt : Execute(s)
    BY <1>10
  <2>1. s \notin open \cup durable
    BY DEF Execute, ProgressInv
  <2>2. Promise!Execute(s)
    BY <2>1 DEF Execute, DriverExecute, Promise!Execute, ManualModeIsRemembered
  <2>3. QED
    BY <2>2 DEF Promise!Next
<1>11. CASE \E s \in Stmt : ExecuteFails(s)
  BY <1>11 DEF ExecuteFails
<1>12. CASE UNCHANGED vars
  BY <1>12 DEF vars
<1> QED
  BY <1>1, <1>2, <1>3, <1>4, <1>5, <1>6, <1>7, <1>8, <1>9, <1>10, <1>11, <1>12
     DEF Next, Client, Worker

\* A client that awaits every statement gets exactly the promised units of
\* work, although each end of a transaction takes two driver calls.
THEOREM PromiseImplemented ==
  ASSUME MayAbandon = FALSE PROVE Spec => ImplementsPromise
<1>1. Init => AwaitedInv /\ Promise!Init
  BY DEF Init, AwaitedInv, Promise!Init
<1>2. IInv /\ AwaitedInv /\ [Next]_vars => AwaitedInv'
  BY AwaitedStep
<1>3. IInv /\ AwaitedInv /\ [Next]_vars => [Promise!Next]_(Promise!vars)
  BY PromiseStep
<1> QED
  BY <1>1, <1>2, <1>3, Inductive, PTL DEF Spec, ImplementsPromise, Promise!Spec

=============================================================================
