--------------------------- MODULE OdbcConnection ---------------------------
(***************************************************************************)
(* One OdbcConnection: its statement cache, the prepared statements that   *)
(* cache and detached workers share, the lock of each statement, and the   *)
(* client calls that meet there (prepare, execute, poll, drop, clear,      *)
(* close).  Each execution has a worker of its own; what a worker sends is *)
(* counted here and followed item by item in ExecuteStream.                *)
(*                                                                         *)
(* The client borrows the connection mutably, so it holds at most one      *)
(* stream and calls nothing else while it does.                            *)
(***************************************************************************)
EXTENDS Naturals, Sequences, SequencesExt

CONSTANTS
  Sql,        \* statement texts
  CacheSize,  \* OdbcConnectOptions::statement_cache_capacity, 0 disables
  ChanSize,   \* bound of the channel
  MaxItems,   \* bound: items of one execution
  MaxExec,    \* bound: executions issued
  MaxStmt     \* bound: statements prepared

ASSUME CacheSizeAssumption == CacheSize \in Nat
ASSUME ChanSizeAssumption == ChanSize \in Nat \ {0}
ASSUME BoundsAssumption == MaxItems \in Nat \ {0} /\ MaxExec \in Nat /\ MaxStmt \in Nat

Worker == 1..MaxExec      \* in the order of issue
Stmt == 1..MaxStmt        \* in the order of preparation
NoStmt == 0
Nobody == 0

VARIABLES
  cache,      \* entries [sql, stmt], least recently used first
  prepared,   \* number of statements prepared so far
  rejected,   \* statements whose preparation or metadata failed
  holder,     \* [Stmt -> the worker that holds the statement's lock]
  poisoned,   \* statements whose lock a panicking worker left poisoned
  work,       \* [Worker -> pc, stmt, left: items still to send]
  issued,     \* number of workers spawned
  client,     \* [at |-> call in progress, on |-> its worker or statement]
  queued,     \* items in the channel of the stream the client holds
  recent      \* history: the CacheSize texts used last, the latest at the end

cacheVars == <<cache, recent>>
lockVars == <<holder, poisoned>>
vars ==
  <<cacheVars, prepared, rejected, lockVars, work, issued, client, queued>>

Idle == [at |-> "idle", on |-> 0]

Init ==
  /\ cache = <<>>
  /\ prepared = 0 /\ rejected = {}
  /\ holder = [h \in Stmt |-> Nobody] /\ poisoned = {}
  /\ work = [w \in Worker |-> [pc |-> "none", stmt |-> NoStmt, left |-> 0]]
  /\ issued = 0
  /\ client = Idle
  /\ queued = 0
  /\ recent = <<>>

-----------------------------------------------------------------------------
(* StatementCache (sqlx-core): a least-recently-used map.                  *)

Enabled == CacheSize > 0
Cached(sql) == \E i \in DOMAIN cache : cache[i].sql = sql
Slot(sql) == CHOOSE i \in DOMAIN cache : cache[i].sql = sql
Entry(sql) == cache[Slot(sql)]

\* get_mut makes the entry the most recently used one.
Touch(sql) == cache' = Append(RemoveAt(cache, Slot(sql)), Entry(sql))

\* History: sql is now the text used last.
Use(sql) ==
  LET used == Append(RemoveFirst(recent, sql), sql)
  IN  recent' = IF Len(used) > CacheSize THEN Tail(used) ELSE used

\* insert drops the least recently used entry of a full cache.  A statement
\* dropped from the cache lives on in the worker that uses it.
Insert(sql, h) ==
  cache' = Append(IF Len(cache) = CacheSize THEN Tail(cache) ELSE cache,
                  [sql |-> sql, stmt |-> h])

EnterCache(sql, h) ==
  IF Enabled THEN Insert(sql, h) /\ Use(sql) ELSE UNCHANGED cacheVars

-----------------------------------------------------------------------------
(* Calls of the client.                                                    *)

\* prepare_blocking on a cached statement goes on to wait for its lock.
PrepareCached(sql) ==
  /\ client = Idle /\ Cached(sql)
  /\ Touch(sql) /\ Use(sql)
  /\ client' = [at |-> "prepare", on |-> Entry(sql).stmt]
  /\ UNCHANGED <<prepared, rejected, lockVars, work, issued, queued>>

\* Its metadata is read, or fails to be read, under the lock; a poisoned lock
\* is an error as well.
PrepareReturns ==
  /\ client.at = "prepare" /\ holder[client.on] = Nobody
  /\ client' = Idle
  /\ UNCHANGED <<cacheVars, prepared, rejected, lockVars, work, issued, queued>>

\* Mutant: the statement is cached before its metadata is read.
PrepareNewCachesFirst(sql) ==
  /\ client = Idle /\ ~Cached(sql) /\ prepared < MaxStmt
  /\ prepared' = prepared + 1
  /\ rejected' = rejected \cup {prepared + 1} \/ UNCHANGED rejected
  /\ EnterCache(sql, prepared + 1)
  /\ UNCHANGED <<lockVars, work, issued, client, queued>>

\* prepare_blocking otherwise prepares, and caches what has metadata.
PrepareNew(sql) ==
  /\ client = Idle /\ ~Cached(sql) /\ prepared < MaxStmt
  /\ prepared' = prepared + 1
  /\ \/ rejected' = rejected \cup {prepared + 1} /\ UNCHANGED cacheVars
     \/ UNCHANGED rejected /\ EnterCache(sql, prepared + 1)
  /\ UNCHANGED <<lockVars, work, issued, client, queued>>

\* execute_receiver detaches a worker whose stream the client now holds.
Spawn(pc, h) ==
  /\ issued < MaxExec
  /\ issued' = issued + 1
  /\ work' = [work EXCEPT ![issued + 1] = [pc |-> pc, stmt |-> h, left |-> 0]]
  /\ client' = [at |-> "stream", on |-> issued + 1]
  /\ queued' = 0

\* maybe_prepare_for_execution: only a persistent query uses the cache, and
\* only one with arguments enters it.
ExecuteUnprepared(sql, persistent, arguments) ==
  /\ client = Idle
  /\ ~persistent \/ ~Enabled \/ (~Cached(sql) /\ ~arguments)
  /\ Spawn("alloc", NoStmt)
  /\ UNCHANGED <<cacheVars, prepared, rejected, lockVars>>

\* Mutant: the lookup does not refresh the entry.
ExecuteCachedWithoutTouch(sql, persistent) ==
  /\ client = Idle /\ persistent /\ Enabled /\ Cached(sql)
  /\ Use(sql)
  /\ Spawn("lock", Entry(sql).stmt)
  /\ UNCHANGED <<cache, prepared, rejected, lockVars>>

ExecuteCached(sql, persistent) ==
  /\ client = Idle /\ persistent /\ Enabled /\ Cached(sql)
  /\ Touch(sql) /\ Use(sql)
  /\ Spawn("lock", Entry(sql).stmt)
  /\ UNCHANGED <<prepared, rejected, lockVars>>

ExecuteNew(sql, persistent, arguments) ==
  /\ client = Idle /\ persistent /\ Enabled /\ ~Cached(sql) /\ arguments
  /\ prepared < MaxStmt
  /\ prepared' = prepared + 1
  /\ \/ /\ EnterCache(sql, prepared + 1)
        /\ Spawn("lock", prepared + 1)
        /\ UNCHANGED rejected
     \/ /\ rejected' = rejected \cup {prepared + 1}   \* a stream of one error
        /\ UNCHANGED <<cacheVars, work, issued, client, queued>>
  /\ UNCHANGED lockVars

Poll ==
  /\ client.at = "stream" /\ queued > 0
  /\ queued' = queued - 1
  /\ UNCHANGED <<cacheVars, prepared, rejected, lockVars, work, issued, client>>

StreamEnds ==
  /\ client.at = "stream" /\ queued = 0 /\ work[client.on].pc = "done"
  /\ client' = Idle
  /\ UNCHANGED <<cacheVars, prepared, rejected, lockVars, work, issued, queued>>

DropStream ==
  /\ client.at = "stream"
  /\ client' = Idle
  /\ queued' = 0
  /\ UNCHANGED <<cacheVars, prepared, rejected, lockVars, work, issued>>

ClearCachedStatements ==
  /\ client = Idle
  /\ cache' = <<>> /\ recent' = <<>>
  /\ UNCHANGED <<prepared, rejected, lockVars, work, issued, client, queued>>

\* close and close_hard drop the connection and with it the cache; workers
\* keep the driver connection alive.
Close ==
  /\ client = Idle
  /\ client' = [at |-> "closed", on |-> 0]
  /\ cache' = <<>> /\ recent' = <<>>
  /\ UNCHANGED <<prepared, rejected, lockVars, work, issued, queued>>

-----------------------------------------------------------------------------
(* Workers.                                                                *)

Held(w) == client = [at |-> "stream", on |-> w]

Runs(w, n) ==
  [work EXCEPT ![w] = [pc |-> "running", stmt |-> work[w].stmt, left |-> n]]

\* Mutant: prepared statements are shared without a lock.
StartWithoutLock(w) ==
  /\ work[w].pc \in {"lock", "alloc"}
  /\ work[w].stmt \notin poisoned
  /\ \E n \in 1..MaxItems : work' = Runs(w, n)
  /\ UNCHANGED <<cacheVars, prepared, rejected, lockVars, issued, client, queued>>

\* Mutant: a poisoned lock is taken like any other.
StartDespitePoison(w) ==
  /\ \/ /\ work[w].pc = "lock" /\ holder[work[w].stmt] = Nobody
        /\ holder' = [holder EXCEPT ![work[w].stmt] = w]
     \/ work[w].pc = "alloc" /\ UNCHANGED holder
  /\ \E n \in 1..MaxItems : work' = Runs(w, n)
  /\ UNCHANGED <<cacheVars, prepared, rejected, poisoned, issued, client, queued>>

\* Lock the prepared statement, or allocate one, and execute it: the driver
\* answers with any number of items.
Start(w) ==
  /\ \/ /\ work[w].pc = "lock" /\ holder[work[w].stmt] = Nobody
        /\ work[w].stmt \notin poisoned
        /\ holder' = [holder EXCEPT ![work[w].stmt] = w]
     \/ work[w].pc = "alloc" /\ UNCHANGED holder
  /\ \E n \in 1..MaxItems : work' = Runs(w, n)
  /\ UNCHANGED <<cacheVars, prepared, rejected, poisoned, issued, client, queued>>

\* The lock is poisoned: the execution consists of one error.
Refuse(w) ==
  /\ work[w].pc = "lock" /\ holder[work[w].stmt] = Nobody
  /\ work[w].stmt \in poisoned
  /\ work' = [work EXCEPT ![w] = [pc |-> "refused", stmt |-> NoStmt, left |-> 1]]
  /\ UNCHANGED <<cacheVars, prepared, rejected, lockVars, issued, client, queued>>

Sending(w) == work[w].pc \in {"running", "refused"}

\* Mutant: an unbounded channel.
SendUnbounded(w) ==
  /\ Sending(w) /\ work[w].left > 0
  /\ Held(w)
  /\ queued' = queued + 1
  /\ work' = [work EXCEPT ![w].left = @ - 1]
  /\ UNCHANGED <<cacheVars, prepared, rejected, lockVars, issued, client>>

Send(w) ==
  /\ Sending(w) /\ work[w].left > 0
  /\ Held(w) /\ queued < ChanSize
  /\ queued' = queued + 1
  /\ work' = [work EXCEPT ![w].left = @ - 1]
  /\ UNCHANGED <<cacheVars, prepared, rejected, lockVars, issued, client>>

Ended == [pc |-> "done", stmt |-> NoStmt, left |-> 0]
Unlocked(w) == [h \in Stmt |-> IF holder[h] = w THEN Nobody ELSE holder[h]]

\* Mutant: a worker does not notice that its receiver is gone.
FinishWhenSent(w) ==
  /\ Sending(w) /\ work[w].left = 0
  /\ work' = [work EXCEPT ![w] = Ended]
  /\ holder' = Unlocked(w)
  /\ UNCHANGED <<cacheVars, prepared, rejected, poisoned, issued, client, queued>>

\* Everything is sent, or the receiver is gone: the statement is released.
Finish(w) ==
  /\ Sending(w)
  /\ work[w].left = 0 \/ ~Held(w)
  /\ work' = [work EXCEPT ![w] = Ended]
  /\ holder' = Unlocked(w)
  /\ UNCHANGED <<cacheVars, prepared, rejected, poisoned, issued, client, queued>>

\* The driver binding panics.  Unwinding drops the guard of the prepared
\* statement, which poisons its lock, and the sender, which ends the stream.
Panic(w) ==
  /\ work[w].pc = "running"
  /\ work' = [work EXCEPT ![w] = Ended]
  /\ holder' = Unlocked(w)
  /\ poisoned' = poisoned \cup {h \in Stmt : holder[h] = w}
  /\ UNCHANGED <<cacheVars, prepared, rejected, issued, client, queued>>

WorkerStep(w) == Start(w) \/ Refuse(w) \/ Send(w) \/ Finish(w)

Quiet == \A w \in Worker : work[w].pc \in {"none", "done"}

\* Nothing is left to do.
Done == client.at = "closed" /\ Quiet /\ UNCHANGED vars

Next ==
  \/ \E sql \in Sql : PrepareCached(sql) \/ PrepareNew(sql)
  \/ PrepareReturns
  \/ \E sql \in Sql, persistent, arguments \in BOOLEAN :
       \/ ExecuteUnprepared(sql, persistent, arguments)
       \/ ExecuteCached(sql, persistent)
       \/ ExecuteNew(sql, persistent, arguments)
  \/ Poll \/ StreamEnds \/ DropStream
  \/ ClearCachedStatements \/ Close
  \/ \E w \in Worker : WorkerStep(w) \/ Panic(w)
  \/ Done

Spec == Init /\ [][Next]_vars

\* Every worker is a thread of its own and driver calls return, or panic; a
\* blocked prepare takes the lock once it is free.
LiveSpec ==
  /\ Spec
  /\ \A w \in Worker : WF_vars(WorkerStep(w))
  /\ WF_vars(PrepareReturns)

-----------------------------------------------------------------------------
(* Properties.                                                             *)

\* Every variable has its type; the client holds at most one stream.
TypeOK ==
  /\ cache \in Seq([sql: Sql, stmt: Stmt])
  /\ recent \in Seq(Sql)
  /\ prepared \in 0..MaxStmt
  /\ rejected \subseteq 1..prepared
  /\ holder \in [Stmt -> Worker \cup {Nobody}]
  /\ poisoned \subseteq Stmt
  /\ work \in [Worker -> [pc: {"none", "alloc", "lock", "running", "refused", "done"},
                          stmt: Stmt \cup {NoStmt}, left: 0..MaxItems]]
  /\ issued \in 0..MaxExec
  /\ client \in [at: {"idle", "prepare", "stream", "closed"}, on: Nat]
  /\ queued \in 0..ChanSize

\* Whatever mix of prepare, execute, eviction and clearing filled it, the cache
\* respects its capacity, maps each text to a statement of its own, and still
\* holds every one of the CacheSize texts used last.
CacheSound ==
  /\ Len(cache) <= CacheSize
  /\ \A i \in DOMAIN recent : Cached(recent[i])
  /\ \A i, j \in DOMAIN cache :
       i # j => cache[i].sql # cache[j].sql /\ cache[i].stmt # cache[j].stmt

\* Two executions never use one prepared statement at the same time, also when
\* one of them was abandoned, or its statement evicted or cleared, meanwhile.
OneUserPerStatement ==
  \A v, w \in Worker :
    v # w /\ work[v].pc = "running" /\ work[v].stmt # NoStmt
      => ~(work[w].pc = "running" /\ work[w].stmt = work[v].stmt)

\* A prepare that failed on metadata leaves nothing a later execute could pick
\* up (failed_metadata_prepare_does_not_poison_later_execute).
FailedPrepareIsForgotten ==
  /\ \A i \in DOMAIN cache : cache[i].stmt \notin rejected
  /\ \A w \in Worker : work[w].stmt \notin rejected

\* A statement that a panic may have left in the middle of a result is never
\* executed again, though the cache still hands it out, a worker may already
\* have been waiting for its lock, and the text may have been prepared anew.
PoisonIsContained ==
  \A w \in Worker : work[w].pc = "running" => work[w].stmt \notin poisoned

\* A prepare that waits for the lock of a statement returns: an abandoned
\* execution that still holds it notices that its receiver is gone.
PrepareNeverHangs == client.at = "prepare" ~> client = Idle

\* After close the driver connection is let go by all workers.
CloseDisconnects == client.at = "closed" ~> Quiet

\* A stream that the client keeps polling ends, also when its worker must first
\* wait for an abandoned execution of the same cached statement.
PolledStreamEnds ==
  WF_vars(Poll \/ StreamEnds) => (client.at = "stream" ~> client = Idle)

-----------------------------------------------------------------------------

StatementState(h) ==
  CASE h \in rejected -> "rejected"
    [] h \in poisoned -> "spoiled"
    [] h \notin rejected \cup poisoned /\ h <= prepared -> "ready"
    [] OTHER -> "none"

Uses(w) == IF work[w].pc = "running" THEN work[w].stmt ELSE NoStmt

StatementPromise == INSTANCE StatementUse
                      WITH state <- [h \in Stmt |-> StatementState(h)],
                           uses  <- [w \in Worker |-> Uses(w)],
                           over  <- {w \in Worker : work[w].pc = "done"}

\* The life of each prepared statement: prepared once, rejected or used by one
\* execution after another, and never again after a panic; whatever the cache,
\* its evictions, abandoned streams and waiting workers do meanwhile.
ImplementsStatementUse == StatementPromise!Spec
=============================================================================
