------------------------ MODULE OdbcConnectionProofs ------------------------
(***************************************************************************)
(* The safety properties of OdbcConnection, and that it implements         *)
(* StatementUse, for every cache size, every channel bound and any number  *)
(* of texts, statements and executions.                                    *)
(***************************************************************************)
EXTENDS OdbcConnection, ExecutionSteps, TLAPS

-----------------------------------------------------------------------------
(* Sequences.                                                              *)

\* t is s with its i-th element moved to the end.
IsMoved(s, i, t) ==
  /\ Len(t) = Len(s)
  /\ \A j \in 1..Len(s) :
       t[j] = IF j < i THEN s[j] ELSE IF j < Len(s) THEN s[j + 1] ELSE s[i]

LEMMA MovedToEnd ==
  ASSUME NEW S, NEW s \in Seq(S), NEW i \in 1..Len(s),
         NEW t, t = Append(RemoveAt(s, i), s[i])
  PROVE  t \in Seq(S) /\ IsMoved(s, i, t)
<1> DEFINE before == SubSeq(s, 1, i - 1)
           after == SubSeq(s, i + 1, Len(s))
<1>1. /\ before \in Seq(S) /\ Len(before) = i - 1
      /\ \A j \in 1..(i - 1) : before[j] = s[j]
  OBVIOUS
<1>2. /\ after \in Seq(S) /\ Len(after) = Len(s) - i
      /\ \A j \in 1..(Len(s) - i) : after[j] = s[i + j]
  OBVIOUS
<1>3. RemoveAt(s, i) = before \o after
  BY DEF RemoveAt
<1> HIDE DEF before, after
<1>4. /\ before \o after \in Seq(S) /\ Len(before \o after) = Len(s) - 1
      /\ \A j \in 1..(Len(s) - 1) :
           (before \o after)[j] = IF j < i THEN s[j] ELSE s[j + 1]
  <2>1. before \o after \in Seq(S) /\ Len(before \o after) = Len(s) - 1
    BY <1>1, <1>2
  <2>2. ASSUME NEW j \in 1..(Len(s) - 1), j < i
        PROVE  (before \o after)[j] = s[j]
    BY <1>1, <1>2, <2>2
  <2>3. ASSUME NEW j \in 1..(Len(s) - 1), ~(j < i)
        PROVE  (before \o after)[j] = s[j + 1]
    <3>1. (before \o after)[j] = after[j - (i - 1)]
      BY <1>1, <1>2, <2>3
    <3>2. j - (i - 1) \in 1..(Len(s) - i)
      BY <2>3
    <3> QED
      BY <1>2, <3>1, <3>2
  <2> QED
    BY <2>1, <2>2, <2>3
<1> DEFINE rest == before \o after
<1>5. t = Append(rest, s[i]) /\ s[i] \in S
  BY <1>3
<1>6. /\ rest \in Seq(S) /\ Len(rest) = Len(s) - 1
      /\ \A j \in 1..(Len(s) - 1) : rest[j] = IF j < i THEN s[j] ELSE s[j + 1]
  BY <1>4
<1> HIDE DEF rest
<1>7. t \in Seq(S) /\ Len(t) = Len(s)
  BY <1>5, <1>6
<1>8. t[Len(s)] = s[i] /\ \A j \in 1..(Len(s) - 1) : t[j] = rest[j]
  BY <1>5, <1>6
<1> QED
  BY <1>6, <1>7, <1>8 DEF IsMoved

\* In a sequence without repetitions the first occurrence is the only one.
LEMMA FirstIsOnly ==
  ASSUME NEW S, NEW s \in Seq(S), NEW i \in 1..Len(s),
         \A j, k \in 1..Len(s) : j # k => s[j] # s[k]
  PROVE  RemoveFirst(s, s[i]) = RemoveAt(s, i)
<1>1. {j \in 1..Len(s) : s[j] = s[i]} = {i}
  OBVIOUS
<1>2. Min({i}) = i
  BY DEF Min
<1> QED
  BY <1>1, <1>2 DEF RemoveFirst, SelectInSeq

\* What does not occur is not removed.
LEMMA NothingToRemove ==
  ASSUME NEW S, NEW s \in Seq(S), NEW e, \A j \in 1..Len(s) : s[j] # e
  PROVE  RemoveFirst(s, e) = s
  BY DEF RemoveFirst

-----------------------------------------------------------------------------
(* The inductive invariant.                                                *)

CacheEntry == [sql: Sql, stmt: Stmt]

\* The cache is exactly the history of used texts, each with its statement.
CacheInv ==
  /\ Len(cache) <= CacheSize /\ Len(recent) = Len(cache)
  /\ \A i \in 1..Len(cache) : recent[i] = cache[i].sql
  /\ \A i, j \in 1..Len(cache) :
       i # j => cache[i].sql # cache[j].sql /\ cache[i].stmt # cache[j].stmt

\* Every statement in use was prepared, and not rejected.
KnownInv ==
  /\ \A i \in 1..Len(cache) : cache[i].stmt \in (1..prepared) \ rejected
  /\ \A w \in Worker : work[w].stmt \in (0..prepared) \ rejected

\* An execution on a prepared statement holds the lock of that statement.
LockInv ==
  \A w \in Worker :
    /\ work[w].pc = "lock" => work[w].stmt \in Stmt
    /\ work[w].pc = "alloc" => work[w].stmt = NoStmt
    /\ work[w].pc = "running" /\ work[w].stmt # NoStmt => holder[work[w].stmt] = w

IInv == TypeOK /\ CacheInv /\ KnownInv /\ LockInv /\ PoisonIsContained

-----------------------------------------------------------------------------
(* The operations of the cache.                                            *)

LEMMA SlotFacts ==
  ASSUME cache \in Seq(CacheEntry), NEW sql, Cached(sql)
  PROVE  /\ Slot(sql) \in 1..Len(cache) /\ cache[Slot(sql)].sql = sql
         /\ Entry(sql) = cache[Slot(sql)] /\ Entry(sql) \in CacheEntry
<1>1. PICK i \in 1..Len(cache) : cache[i].sql = sql
  BY DEF Cached
<1>2. Slot(sql) \in 1..Len(cache) /\ cache[Slot(sql)].sql = sql
  BY <1>1 DEF Slot
<1> QED
  BY <1>2 DEF Entry

\* A hit keeps the entries and moves one to the end, as the history does.
LEMMA TouchStep ==
  ASSUME TypeOK, CacheInv, NEW sql \in Sql, Cached(sql), Touch(sql), Use(sql)
  PROVE  /\ cache' \in Seq(CacheEntry) /\ recent' \in Seq(Sql) /\ CacheInv'
         /\ \A i \in 1..Len(cache') : \E j \in 1..Len(cache) : cache'[i] = cache[j]
<1> DEFINE k == Slot(sql)
<1>1. cache \in Seq(CacheEntry) /\ recent \in Seq(Sql) /\ CacheSize \in Nat
  BY CacheSizeAssumption DEF TypeOK, CacheEntry
<1>2. k \in 1..Len(cache) /\ cache[k].sql = sql /\ Entry(sql) = cache[k]
  BY <1>1, SlotFacts
<1>3. k \in 1..Len(recent) /\ recent[k] = sql
  BY <1>2 DEF CacheInv
<1> HIDE DEF k
<1>4. cache' \in Seq(CacheEntry) /\ IsMoved(cache, k, cache')
  <2>1. cache' = Append(RemoveAt(cache, k), cache[k])
    BY <1>2 DEF Touch, k
  <2> QED
    <3>1. cache \in Seq(CacheEntry) /\ k \in 1..Len(cache)
      BY <1>1, <1>2
    <3> QED
      BY <2>1, <3>1, MovedToEnd
<1>5. recent' \in Seq(Sql) /\ IsMoved(recent, k, recent')
  <2> DEFINE used == Append(RemoveFirst(recent, sql), sql)
  <2>1. \A i, j \in 1..Len(recent) : i # j => recent[i] # recent[j]
    BY DEF CacheInv
  <2>2. used = Append(RemoveAt(recent, k), recent[k])
    BY <1>1, <1>3, <2>1, FirstIsOnly
  <2> HIDE DEF used
  <2>3. used \in Seq(Sql) /\ IsMoved(recent, k, used)
    BY <1>1, <1>3, <2>2, MovedToEnd
  <2>4. recent' = IF Len(used) > CacheSize THEN Tail(used) ELSE used
    BY DEF Use, used
  <2>5. Len(used) <= CacheSize
    BY <2>3 DEF CacheInv, IsMoved
  <2>6. recent' = used
    BY <1>1, <2>3, <2>4, <2>5
  <2> QED
    BY <2>3, <2>6
<1>6. Len(cache') = Len(cache) /\ Len(recent') = Len(cache)
  BY <1>4, <1>5 DEF IsMoved, CacheInv
<1>7. ASSUME NEW i \in 1..Len(cache)
      PROVE  \E m \in 1..Len(cache) :
               /\ cache'[i] = cache[m] /\ recent'[i] = recent[m]
               /\ m = IF i < k THEN i ELSE IF i < Len(cache) THEN i + 1 ELSE k
  <2> DEFINE m == IF i < k THEN i ELSE IF i < Len(cache) THEN i + 1 ELSE k
  <2>1. m \in 1..Len(cache) /\ cache'[i] = cache[m] /\ recent'[i] = recent[m]
    BY <1>1, <1>2, <1>4, <1>5, <1>6 DEF IsMoved, CacheInv
  <2> QED
    BY <2>1
<1>8. \A i \in 1..Len(cache) : recent'[i] = cache'[i].sql
  BY <1>7 DEF CacheInv
<1>9. ASSUME NEW i \in 1..Len(cache), NEW j \in 1..Len(cache), i # j
      PROVE  cache'[i].sql # cache'[j].sql /\ cache'[i].stmt # cache'[j].stmt
  <2>1. PICK m \in 1..Len(cache) :
          /\ cache'[i] = cache[m]
          /\ m = IF i < k THEN i ELSE IF i < Len(cache) THEN i + 1 ELSE k
    BY <1>7
  <2>2. PICK n \in 1..Len(cache) :
          /\ cache'[j] = cache[n]
          /\ n = IF j < k THEN j ELSE IF j < Len(cache) THEN j + 1 ELSE k
    BY <1>7
  <2>3. m # n
    BY <1>1, <1>2, <1>9, <2>1, <2>2
  <2> QED
    BY <2>1, <2>2, <2>3 DEF CacheInv
<1> QED
  BY <1>4, <1>5, <1>6, <1>7, <1>8, <1>9 DEF CacheInv

\* A miss adds one entry, at the cost of the one used longest ago.
LEMMA InsertStep ==
  ASSUME TypeOK, CacheInv, NEW sql \in Sql, ~Cached(sql), Enabled,
         NEW h \in Stmt, \A i \in 1..Len(cache) : cache[i].stmt # h,
         Insert(sql, h), Use(sql)
  PROVE  /\ cache' \in Seq(CacheEntry) /\ recent' \in Seq(Sql) /\ CacheInv'
         /\ \A i \in 1..Len(cache') :
              \/ cache'[i] = [sql |-> sql, stmt |-> h]
              \/ \E j \in 1..Len(cache) : cache'[i] = cache[j]
<1> DEFINE e == [sql |-> sql, stmt |-> h]
<1>1. /\ cache \in Seq(CacheEntry) /\ recent \in Seq(Sql) /\ CacheSize \in Nat \ {0}
      /\ e \in CacheEntry /\ e.sql = sql /\ e.stmt = h
  BY CacheSizeAssumption DEF TypeOK, CacheEntry, Enabled
<1>2. \A i \in 1..Len(cache) : cache[i].sql # sql /\ recent[i] # sql
  BY <1>1 DEF Cached, CacheInv
<1>3. recent' = IF Len(recent) + 1 > CacheSize THEN Tail(Append(recent, sql))
                ELSE Append(recent, sql)
  <2>1. RemoveFirst(recent, sql) = recent
    BY <1>1, <1>2, NothingToRemove DEF CacheInv
  <2> QED
    BY <1>1, <2>1 DEF Use
<1>4. cache' = Append(IF Len(cache) = CacheSize THEN Tail(cache) ELSE cache, e)
  BY DEF Insert
<1> HIDE DEF e
<1>5. CASE Len(cache) = CacheSize
  <2>1. /\ cache' = Append(Tail(cache), e) /\ recent' = Tail(Append(recent, sql))
        /\ cache # <<>> /\ Len(recent) = Len(cache)
    BY <1>1, <1>3, <1>4, <1>5 DEF CacheInv
  <2>2. /\ cache' \in Seq(CacheEntry) /\ Len(cache') = Len(cache)
        /\ cache'[Len(cache)] = e
        /\ \A i \in 1..(Len(cache) - 1) : cache'[i] = cache[i + 1]
    BY <1>1, <2>1
  <2>3. /\ recent' \in Seq(Sql) /\ Len(recent') = Len(cache)
        /\ recent'[Len(cache)] = sql
        /\ \A i \in 1..(Len(cache) - 1) : recent'[i] = recent[i + 1]
    BY <1>1, <2>1
  <2>4. ASSUME NEW i \in 1..Len(cache')
        PROVE  \/ i = Len(cache) /\ cache'[i] = e /\ recent'[i] = sql
               \/ /\ i + 1 \in 1..Len(cache)
                  /\ cache'[i] = cache[i + 1] /\ recent'[i] = recent[i + 1]
    BY <1>1, <2>1, <2>2, <2>3
  <2>5. \A i \in 1..Len(cache') : recent'[i] = cache'[i].sql
    BY <1>1, <2>4 DEF CacheInv
  <2>6. ASSUME NEW i \in 1..Len(cache'), NEW j \in 1..Len(cache'), i # j
        PROVE  cache'[i].sql # cache'[j].sql /\ cache'[i].stmt # cache'[j].stmt
    BY <1>1, <1>2, <2>2, <2>4, <2>6 DEF CacheInv
  <2>7. CacheInv'
    BY <1>5, <2>2, <2>3, <2>5, <2>6 DEF CacheInv
  <2> QED
    BY <2>2, <2>3, <2>4, <2>7 DEF e
<1>6. CASE Len(cache) # CacheSize
  <2>1. /\ cache' = Append(cache, e) /\ recent' = Append(recent, sql)
        /\ Len(recent) = Len(cache) /\ Len(cache) < CacheSize
    BY <1>1, <1>3, <1>4, <1>6 DEF CacheInv
  <2>2. /\ cache' \in Seq(CacheEntry) /\ Len(cache') = Len(cache) + 1
        /\ cache'[Len(cache) + 1] = e
        /\ \A i \in 1..Len(cache) : cache'[i] = cache[i]
    BY <1>1, <2>1
  <2>3. /\ recent' \in Seq(Sql) /\ Len(recent') = Len(cache) + 1
        /\ recent'[Len(cache) + 1] = sql
        /\ \A i \in 1..Len(cache) : recent'[i] = recent[i]
    BY <1>1, <2>1
  <2> QED
    BY <1>1, <1>2, <2>1, <2>2, <2>3 DEF CacheInv, e
<1> QED
  BY <1>5, <1>6

LEMMA EmptyCache ==
  cache = <<>> /\ recent = <<>> => CacheInv /\ cache \in Seq(CacheEntry) /\ recent \in Seq(Sql)
  BY CacheSizeAssumption DEF CacheInv

-----------------------------------------------------------------------------
(* Every step preserves the invariant.                                     *)

\* The cache after any step: untouched, emptied, or with what was prepared or
\* found in it.
LEMMA CacheStep ==
  ASSUME IInv, [Next]_vars
  PROVE  /\ CacheInv' /\ cache' \in Seq(CacheEntry) /\ recent' \in Seq(Sql)
         /\ \A i \in 1..Len(cache') : cache'[i].stmt \in (1..prepared') \ rejected'
<1>a. /\ TypeOK /\ CacheInv /\ KnownInv
      /\ cache \in Seq(CacheEntry) /\ recent \in Seq(Sql)
      /\ prepared \in 0..MaxStmt /\ rejected \subseteq 1..prepared
      /\ MaxStmt \in Nat
  BY BoundsAssumption DEF IInv, TypeOK, CacheEntry
<1>1. CASE UNCHANGED <<cacheVars, prepared, rejected>>
  BY <1>1, <1>a DEF cacheVars, CacheInv, KnownInv
<1>2. CASE cache' = <<>> /\ recent' = <<>>
  BY <1>2, CacheSizeAssumption DEF CacheInv
<1>3. ASSUME NEW sql \in Sql, Cached(sql), Touch(sql), Use(sql),
             UNCHANGED <<prepared, rejected>>
      PROVE  /\ CacheInv' /\ cache' \in Seq(CacheEntry) /\ recent' \in Seq(Sql)
             /\ \A i \in 1..Len(cache') : cache'[i].stmt \in (1..prepared') \ rejected'
  BY <1>3, <1>a, TouchStep DEF KnownInv
<1>4. ASSUME NEW sql \in Sql, ~Cached(sql), prepared < MaxStmt,
             prepared' = prepared + 1, UNCHANGED rejected, EnterCache(sql, prepared + 1)
      PROVE  /\ CacheInv' /\ cache' \in Seq(CacheEntry) /\ recent' \in Seq(Sql)
             /\ \A i \in 1..Len(cache') : cache'[i].stmt \in (1..prepared') \ rejected'
  <2>1. /\ prepared + 1 \in Stmt /\ prepared + 1 \notin rejected
        /\ \A i \in 1..Len(cache) : cache[i].stmt # prepared + 1
    BY <1>4, <1>a DEF KnownInv, Stmt
  <2>2. CASE Enabled
    <3>1. Insert(sql, prepared + 1) /\ Use(sql)
      BY <1>4, <2>2 DEF EnterCache
    <3>2. /\ cache' \in Seq(CacheEntry) /\ recent' \in Seq(Sql) /\ CacheInv'
          /\ \A i \in 1..Len(cache') :
               \/ cache'[i] = [sql |-> sql, stmt |-> prepared + 1]
               \/ \E j \in 1..Len(cache) : cache'[i] = cache[j]
      BY <1>4, <1>a, <2>1, <2>2, <3>1, InsertStep
    <3>3. \A i \in 1..Len(cache') : cache'[i].stmt \in (1..(prepared + 1)) \ rejected
      <4> SUFFICES ASSUME NEW i \in 1..Len(cache')
                   PROVE  cache'[i].stmt \in (1..(prepared + 1)) \ rejected
        OBVIOUS
      <4>1. CASE cache'[i] = [sql |-> sql, stmt |-> prepared + 1]
        BY <4>1, <1>a, <2>1
      <4>2. CASE \E j \in 1..Len(cache) : cache'[i] = cache[j]
        BY <4>2, <1>a DEF KnownInv
      <4> QED
        BY <3>2, <4>1, <4>2
    <3> QED
      BY <1>4, <3>2, <3>3
  <2>3. CASE ~Enabled
    <3>1. UNCHANGED <<cache, recent>>
      BY <1>4, <2>3 DEF EnterCache, cacheVars
    <3> QED
      BY <1>4, <1>a, <3>1 DEF CacheInv, KnownInv
  <2> QED
    BY <2>2, <2>3
<1>5. ASSUME prepared < MaxStmt, prepared' = prepared + 1,
             rejected' = rejected \cup {prepared + 1}, UNCHANGED cacheVars
      PROVE  /\ CacheInv' /\ cache' \in Seq(CacheEntry) /\ recent' \in Seq(Sql)
             /\ \A i \in 1..Len(cache') : cache'[i].stmt \in (1..prepared') \ rejected'
  BY <1>5, <1>a DEF cacheVars, CacheInv, KnownInv
<1>6. CASE \E sql \in Sql : PrepareCached(sql) \/ PrepareNew(sql)
  BY <1>6, <1>3, <1>4, <1>5 DEF PrepareCached, PrepareNew
<1>7. CASE \E sql \in Sql, persistent, arguments \in BOOLEAN :
             \/ ExecuteUnprepared(sql, persistent, arguments)
             \/ ExecuteCached(sql, persistent)
             \/ ExecuteNew(sql, persistent, arguments)
  BY <1>7, <1>1, <1>3, <1>4, <1>5
     DEF ExecuteUnprepared, ExecuteCached, ExecuteNew, cacheVars
<1>8. CASE PrepareReturns \/ Poll \/ StreamEnds \/ DropStream
  BY <1>8, <1>1 DEF PrepareReturns, Poll, StreamEnds, DropStream
<1>9. CASE ClearCachedStatements \/ Close
  BY <1>9, <1>2 DEF ClearCachedStatements, Close
<1>10. CASE \E w \in Worker : WorkerStep(w) \/ Panic(w)
  BY <1>10, <1>1 DEF WorkerStep, Start, Refuse, Send, Finish, Panic
<1>11. CASE Done \/ UNCHANGED vars
  BY <1>11, <1>1 DEF Done, vars
<1> QED
  BY <1>6, <1>7, <1>8, <1>9, <1>10, <1>11 DEF Next

\* The record of one worker.
Job ==
  [pc: {"none", "alloc", "lock", "running", "refused", "done"},
   stmt: Stmt \cup {NoStmt}, left: 0..MaxItems]

\* What a new execution does to the workers.
LEMMA SpawnStep ==
  ASSUME TypeOK, NEW h \in Stmt \cup {NoStmt}, NEW pc \in {"alloc", "lock"}, Spawn(pc, h)
  PROVE  /\ issued' \in 0..MaxExec /\ client' \in [at: {"stream"}, on: Nat]
         /\ queued' = 0
         /\ work' \in [Worker -> Job]
         /\ issued + 1 \in Worker
         /\ work'[issued + 1] = [pc |-> pc, stmt |-> h, left |-> 0]
         /\ \A v \in Worker \ {issued + 1} : work'[v] = work[v]
  BY BoundsAssumption DEF TypeOK, Spawn, Worker, Job

\* What the step of a worker does to it.
LEMMA WorkerFacts ==
  ASSUME TypeOK, LockInv, NEW w \in Worker, WorkerStep(w) \/ Panic(w)
  PROVE  /\ work' \in [Worker -> Job] /\ \A v \in Worker \ {w} : work'[v] = work[v]
         /\ holder' \in [Stmt -> Worker \cup {Nobody}]
         /\ UNCHANGED <<cacheVars, prepared, rejected, issued, client>>
         /\ queued' \in 0..ChanSize
         /\ work'[w].pc \notin {"lock", "alloc"}
         /\ work'[w].stmt \in {work[w].stmt, NoStmt}
<1>a. /\ work \in [Worker -> Job] /\ holder \in [Stmt -> Worker \cup {Nobody}]
      /\ queued \in 0..ChanSize /\ ChanSize \in Nat \ {0} /\ MaxItems \in Nat \ {0}
  BY BoundsAssumption, ChanSizeAssumption DEF TypeOK, Job
<1>1. CASE Start(w)
  <2>1. PICK n \in 1..MaxItems : work' = Runs(w, n)
    BY <1>1 DEF Start
  <2>2. work' = [work EXCEPT ![w] = [pc |-> "running", stmt |-> work[w].stmt, left |-> n]]
    BY <2>1 DEF Runs
  <2>3. work[w].pc = "lock" => work[w].stmt \in Stmt
    BY DEF LockInv
  <2>4. holder' \in [Stmt -> Worker \cup {Nobody}]
    BY <1>1, <1>a, <2>3 DEF Start
  <2> QED
    BY <1>1, <1>a, <2>2, <2>4 DEF Start, Job, cacheVars
<1>2. CASE Refuse(w)
  <2>1. 1 \in 0..MaxItems
    BY <1>a
  <2> QED
    BY <1>2, <1>a, <2>1 DEF Refuse, Job, lockVars, cacheVars
<1>3. CASE Send(w)
  <2>1. work' = [work EXCEPT ![w] =
                   [pc |-> work[w].pc, stmt |-> work[w].stmt, left |-> work[w].left - 1]]
    <3> DEFINE job == [work[w] EXCEPT !.left = @ - 1]
    <3>1. work' = [work EXCEPT ![w] = job]
      BY <1>3, <1>a DEF Send
    <3>2. job = [pc |-> work[w].pc, stmt |-> work[w].stmt, left |-> work[w].left - 1]
      BY <1>a DEF Job
    <3> QED
      BY <3>1, <3>2
  <2> QED
    BY <1>3, <1>a, <2>1 DEF Send, Sending, Job, lockVars, cacheVars
<1>4. CASE Finish(w)
  BY <1>4, <1>a DEF Finish, Ended, Unlocked, Job, cacheVars
<1>5. CASE Panic(w)
  BY <1>5, <1>a DEF Panic, Ended, Unlocked, Job, cacheVars
<1> QED
  BY <1>1, <1>2, <1>3, <1>4, <1>5 DEF WorkerStep

\* Types are preserved.
LEMMA TypeStep == ASSUME IInv, [Next]_vars PROVE TypeOK'
<1>a. /\ TypeOK /\ LockInv
      /\ cache' \in Seq(CacheEntry) /\ recent' \in Seq(Sql)
  BY CacheStep DEF IInv
<1>b. /\ cache' \in Seq([sql: Sql, stmt: Stmt]) /\ MaxStmt \in Nat
      /\ prepared \in 0..MaxStmt /\ rejected \subseteq 1..prepared
  BY <1>a, BoundsAssumption DEF TypeOK, CacheEntry
<1>c. ASSUME prepared < MaxStmt, prepared' = prepared + 1,
             rejected' = rejected \cup {prepared + 1} \/ UNCHANGED rejected
      PROVE  prepared' \in 0..MaxStmt /\ rejected' \subseteq 1..prepared'
  <2>1. prepared' \in 0..MaxStmt /\ 1..prepared' = (1..prepared) \cup {prepared + 1}
    BY <1>b, <1>c
  <2> QED
    BY <1>b, <1>c, <2>1
<1>d. \A sql \in Sql : Cached(sql) => Entry(sql).stmt \in Stmt
  BY <1>a, SlotFacts DEF TypeOK, CacheEntry
<1>1. ASSUME NEW sql \in Sql, PrepareCached(sql) PROVE TypeOK'
  <2>1. Entry(sql).stmt \in Nat
    BY <1>1, <1>d DEF PrepareCached, Stmt
  <2> QED
    BY <1>1, <1>a, <2>1 DEF PrepareCached, TypeOK, lockVars, CacheEntry
<1>2. ASSUME NEW sql \in Sql, PrepareNew(sql) PROVE TypeOK'
  BY <1>2, <1>a, <1>b, <1>c DEF PrepareNew, TypeOK, lockVars, CacheEntry
<1>e. Idle \in [at: {"idle", "prepare", "stream", "closed"}, on: Nat]
  BY DEF Idle
<1>3. CASE PrepareReturns \/ StreamEnds
  BY <1>3, <1>a, <1>e DEF PrepareReturns, StreamEnds, TypeOK, lockVars, CacheEntry
<1>4. ASSUME NEW h \in Stmt \cup {NoStmt}, NEW pc \in {"alloc", "lock"}, Spawn(pc, h)
      PROVE  /\ issued' \in 0..MaxExec
             /\ client' \in [at: {"idle", "prepare", "stream", "closed"}, on: Nat]
             /\ queued' \in 0..ChanSize /\ work' \in [Worker -> Job]
  <2>1. /\ issued' \in 0..MaxExec /\ client' \in [at: {"stream"}, on: Nat]
        /\ queued' = 0 /\ work' \in [Worker -> Job]
    BY <1>4, <1>a, SpawnStep
  <2> QED
    BY <2>1, ChanSizeAssumption
<1>5. ASSUME NEW sql, NEW persistent, NEW arguments,
             ExecuteUnprepared(sql, persistent, arguments)
      PROVE  TypeOK'
  BY <1>5, <1>a, <1>4 DEF ExecuteUnprepared, TypeOK, Job, lockVars, CacheEntry
<1>6. ASSUME NEW sql \in Sql, NEW persistent, ExecuteCached(sql, persistent) PROVE TypeOK'
  BY <1>6, <1>a, <1>d, <1>4 DEF ExecuteCached, TypeOK, Job, lockVars, CacheEntry
<1>7. ASSUME NEW sql \in Sql, NEW persistent, NEW arguments,
             ExecuteNew(sql, persistent, arguments)
      PROVE  TypeOK'
  <2>1. prepared + 1 \in Stmt
    BY <1>7, <1>b DEF ExecuteNew, Stmt
  <2>2. /\ prepared' \in 0..MaxStmt /\ rejected' \subseteq 1..prepared'
        /\ UNCHANGED <<holder, poisoned>>
    BY <1>7, <1>c DEF ExecuteNew, lockVars
  <2>3. CASE Spawn("lock", prepared + 1)
    BY <1>a, <1>4, <2>1, <2>2, <2>3 DEF TypeOK, Job, CacheEntry
  <2>4. CASE UNCHANGED <<work, issued, client, queued>>
    BY <1>a, <2>2, <2>4 DEF TypeOK, CacheEntry
  <2> QED
    BY <1>7, <2>3, <2>4 DEF ExecuteNew
<1>8. CASE Poll \/ DropStream
  <2>1. queued' \in 0..ChanSize
    BY <1>8, <1>a, ChanSizeAssumption DEF Poll, DropStream, TypeOK
  <2> QED
    BY <1>8, <1>a, <1>e, <2>1 DEF Poll, DropStream, TypeOK, lockVars, CacheEntry
<1>9. CASE ClearCachedStatements \/ Close
  <2>1. client' \in [at: {"idle", "prepare", "stream", "closed"}, on: Nat]
    BY <1>9, <1>a DEF ClearCachedStatements, Close, TypeOK
  <2> QED
    BY <1>9, <1>a, <2>1 DEF ClearCachedStatements, Close, TypeOK, lockVars, CacheEntry
<1>10. ASSUME NEW w \in Worker, WorkerStep(w) \/ Panic(w) PROVE TypeOK'
  <2>1. poisoned' \subseteq Stmt
    BY <1>10, <1>a DEF WorkerStep, Start, Refuse, Send, Finish, Panic, TypeOK, lockVars
  <2> QED
    BY <1>10, <1>a, <2>1, WorkerFacts DEF TypeOK, Job, CacheEntry
<1>11. CASE Done \/ UNCHANGED vars
  BY <1>11, <1>a DEF Done, vars, cacheVars, lockVars, TypeOK
<1> QED
  BY <1>1, <1>2, <1>3, <1>5, <1>6, <1>7, <1>8, <1>9, <1>10, <1>11 DEF Next

\* How the table of workers changes: not at all, by a new worker, which waits
\* for its statement or allocates one, or by a step of one worker.
LEMMA WorkChange ==
  ASSUME IInv, [Next]_vars
  PROVE  \/ UNCHANGED <<work, lockVars>> /\ rejected' \subseteq rejected \cup {prepared + 1}
         \/ /\ UNCHANGED lockVars
            /\ \E n \in Worker, h \in (0..prepared') \ rejected', pc \in {"alloc", "lock"} :
                 /\ work'[n] = [pc |-> pc, stmt |-> h, left |-> 0]
                 /\ pc = "alloc" <=> h = NoStmt
                 /\ \A v \in Worker \ {n} : work'[v] = work[v]
            /\ UNCHANGED rejected
         \/ UNCHANGED <<prepared, rejected>> /\ \E w \in Worker : WorkerStep(w) \/ Panic(w)
<1>a. /\ TypeOK /\ LockInv /\ KnownInv /\ cache \in Seq(CacheEntry)
      /\ prepared \in Nat /\ rejected \subseteq 1..prepared
  BY BoundsAssumption DEF IInv, TypeOK, CacheEntry
<1>1. ASSUME NEW h \in (0..prepared') \ rejected', NEW pc \in {"alloc", "lock"},
             h \in Stmt \cup {NoStmt}, pc = "alloc" <=> h = NoStmt,
             Spawn(pc, h), UNCHANGED lockVars, UNCHANGED rejected
      PROVE  \E n \in Worker, g \in (0..prepared') \ rejected', p \in {"alloc", "lock"} :
               /\ work'[n] = [pc |-> p, stmt |-> g, left |-> 0]
               /\ p = "alloc" <=> g = NoStmt
               /\ \A v \in Worker \ {n} : work'[v] = work[v]
  BY <1>1, <1>a, SpawnStep
<1>2. CASE \E sql \in Sql : PrepareCached(sql) \/ PrepareNew(sql)
  BY <1>2 DEF PrepareCached, PrepareNew
<1>3. ASSUME NEW sql, NEW persistent, NEW arguments,
             ExecuteUnprepared(sql, persistent, arguments)
      PROVE  UNCHANGED <<lockVars, prepared, rejected>> /\ Spawn("alloc", NoStmt)
             /\ NoStmt \in (0..prepared') \ rejected'
  BY <1>3, <1>a DEF ExecuteUnprepared, NoStmt
<1>4. ASSUME NEW sql \in Sql, NEW persistent, ExecuteCached(sql, persistent)
      PROVE  UNCHANGED <<lockVars, prepared, rejected>> /\ Spawn("lock", Entry(sql).stmt)
             /\ Entry(sql).stmt \in (1..prepared') \ rejected' /\ Entry(sql).stmt \in Stmt
  BY <1>4, <1>a, SlotFacts DEF ExecuteCached, KnownInv, CacheEntry
<1>5. ASSUME NEW sql \in Sql, NEW persistent, NEW arguments,
             ExecuteNew(sql, persistent, arguments)
      PROVE  /\ UNCHANGED lockVars
             /\ \/ UNCHANGED rejected /\ Spawn("lock", prepared + 1)
                   /\ prepared + 1 \in (1..prepared') \ rejected' /\ prepared + 1 \in Stmt
                \/ UNCHANGED work /\ rejected' = rejected \cup {prepared + 1}
  BY <1>5, <1>a, BoundsAssumption DEF ExecuteNew, Stmt, TypeOK
<1>6. CASE \E sql \in Sql, persistent, arguments \in BOOLEAN :
             \/ ExecuteUnprepared(sql, persistent, arguments)
             \/ ExecuteCached(sql, persistent)
             \/ ExecuteNew(sql, persistent, arguments)
  <2>1. PICK sql \in Sql, persistent \in BOOLEAN, arguments \in BOOLEAN :
             \/ ExecuteUnprepared(sql, persistent, arguments)
             \/ ExecuteCached(sql, persistent)
             \/ ExecuteNew(sql, persistent, arguments)
    BY <1>6
  <2>2. CASE ExecuteUnprepared(sql, persistent, arguments)
    BY <2>2, <1>1, <1>3
  <2>3. CASE ExecuteCached(sql, persistent)
    <3>1. Entry(sql).stmt # NoStmt /\ Entry(sql).stmt \in (0..prepared') \ rejected'
      BY <2>3, <1>4, <1>a DEF NoStmt
    <3> QED
      BY <2>3, <3>1, <1>1, <1>4
  <2>4. CASE ExecuteNew(sql, persistent, arguments)
    <3>1. prepared + 1 # NoStmt
      BY <1>a DEF NoStmt
    <3>2. CASE /\ UNCHANGED rejected /\ Spawn("lock", prepared + 1)
               /\ prepared + 1 \in (1..prepared') \ rejected' /\ prepared + 1 \in Stmt
      <4>1. prepared + 1 \in (0..prepared') \ rejected'
        BY <3>2, <1>a
      <4> QED
        BY <2>4, <3>1, <3>2, <4>1, <1>1, <1>5
    <3> QED
      BY <2>4, <3>2, <1>5
  <2> QED
    BY <2>1, <2>2, <2>3, <2>4
<1>7. CASE PrepareReturns \/ Poll \/ StreamEnds \/ DropStream
           \/ ClearCachedStatements \/ Close \/ Done \/ UNCHANGED vars
  BY <1>7 DEF PrepareReturns, Poll, StreamEnds, DropStream, ClearCachedStatements,
              Close, Done, vars, lockVars
<1>8. CASE \E w \in Worker : WorkerStep(w) \/ Panic(w)
  BY <1>8, <1>a, WorkerFacts
<1> QED
  BY <1>2, <1>6, <1>7, <1>8 DEF Next

LEMMA PreparedGrows == ASSUME [Next]_vars PROVE prepared' \in {prepared, prepared + 1}
<1>1. CASE \E w \in Worker : WorkerStep(w) \/ Panic(w)
  BY <1>1 DEF WorkerStep, Start, Refuse, Send, Finish, Panic
<1> QED
  BY <1>1 DEF Next, PrepareCached, PrepareNew, PrepareReturns, ExecuteUnprepared,
              ExecuteCached, ExecuteNew, Poll, StreamEnds, DropStream,
              ClearCachedStatements, Close, Done, vars

\* A rejected statement is the newest one, which nothing has used.
LEMMA KnownStep == ASSUME IInv, [Next]_vars PROVE KnownInv'
<1>a. /\ TypeOK /\ LockInv /\ prepared \in Nat
      /\ prepared' \in {prepared, prepared + 1}
      /\ \A w \in Worker : work[w].stmt \in (0..prepared) \ rejected
  BY BoundsAssumption, PreparedGrows DEF IInv, TypeOK, KnownInv
<1>b. \A h \in 0..prepared : h # prepared + 1 /\ h \in 0..prepared'
  BY <1>a
<1>1. CASE UNCHANGED work /\ rejected' \subseteq rejected \cup {prepared + 1}
  BY <1>1, <1>a, <1>b, CacheStep DEF KnownInv
<1>2. ASSUME NEW n \in Worker, NEW h \in (0..prepared') \ rejected',
             NEW pc \in {"alloc", "lock"},
             work'[n] = [pc |-> pc, stmt |-> h, left |-> 0],
             \A v \in Worker \ {n} : work'[v] = work[v], UNCHANGED rejected
      PROVE  KnownInv'
  <2>1. work'[n].stmt = h
    BY <1>2
  <2> QED
    BY <1>2, <1>a, <1>b, <2>1, CacheStep DEF KnownInv
<1>3. ASSUME NEW w \in Worker, WorkerStep(w) \/ Panic(w), UNCHANGED <<prepared, rejected>>
      PROVE  KnownInv'
  <2>1. /\ work'[w].stmt \in {work[w].stmt, NoStmt}
        /\ \A v \in Worker \ {w} : work'[v] = work[v]
    BY <1>3, <1>a, WorkerFacts
  <2>2. NoStmt \in (0..prepared) \ rejected
    BY <1>a DEF IInv, TypeOK, NoStmt
  <2> QED
    BY <1>3, <1>a, <2>1, <2>2, CacheStep DEF KnownInv
<1> QED
  BY <1>1, <1>2, <1>3, WorkChange

\* The lock of a statement passes from one execution to the next.
LEMMA LockStep == ASSUME IInv, [Next]_vars PROVE LockInv'
<1>a. /\ TypeOK /\ LockInv /\ KnownInv /\ MaxStmt \in Nat /\ prepared' \in 0..MaxStmt
      /\ holder \in [Stmt -> Worker \cup {Nobody}]
      /\ work \in [Worker -> Job]
  BY TypeStep, BoundsAssumption DEF IInv, TypeOK, Job
<1>b. \A w \in Worker : w # Nobody /\ work[w].stmt \in Stmt \cup {NoStmt}
  BY <1>a DEF Worker, Nobody, Job
<1>1. CASE UNCHANGED <<work, lockVars>>
  BY <1>1, <1>a DEF LockInv, lockVars
<1>2. ASSUME NEW n \in Worker, NEW h \in (0..prepared') \ rejected',
             NEW pc \in {"alloc", "lock"},
             work'[n] = [pc |-> pc, stmt |-> h, left |-> 0],
             pc = "alloc" <=> h = NoStmt,
             \A v \in Worker \ {n} : work'[v] = work[v], UNCHANGED lockVars
      PROVE  LockInv'
  <2>1. work'[n].pc = pc /\ work'[n].stmt = h
    BY <1>2
  <2>2. h \in Stmt \cup {NoStmt}
    BY <1>2, <1>a DEF Stmt, NoStmt
  <2> QED
    BY <1>2, <1>a, <2>1, <2>2 DEF LockInv, lockVars
<1>3. ASSUME NEW w \in Worker, WorkerStep(w) \/ Panic(w)
      PROVE  LockInv'
  <2>1. /\ work'[w].pc \notin {"lock", "alloc"}
        /\ \A v \in Worker \ {w} : work'[v] = work[v]
    BY <1>3, <1>a, WorkerFacts
  <2>2. ASSUME NEW v \in Worker \ {w}, work[v].pc = "running", work[v].stmt # NoStmt
        PROVE  holder'[work[v].stmt] = v
    <3>1. holder[work[v].stmt] = v /\ work[v].stmt \in Stmt
      BY <2>2, <1>a, <1>b DEF LockInv
    <3>2. CASE Start(w)
      <4>1. work[w].pc = "lock" => work[w].stmt # work[v].stmt
        BY <3>1, <3>2, <1>b DEF Start
      <4> QED
        BY <3>1, <3>2, <4>1, <1>a DEF Start
    <3>3. CASE Finish(w) \/ Panic(w)
      BY <3>1, <3>3 DEF Finish, Panic, Unlocked
    <3>4. CASE Refuse(w) \/ Send(w)
      BY <3>1, <3>4 DEF Refuse, Send, lockVars
    <3> QED
      BY <1>3, <3>2, <3>3, <3>4 DEF WorkerStep
  <2>3. ASSUME work'[w].pc = "running", work'[w].stmt # NoStmt
        PROVE  holder'[work'[w].stmt] = w
    <3>1. CASE Start(w)
      <4>1. work'[w].stmt = work[w].stmt
        BY <3>1, <1>a DEF Start, Runs, Job
      <4>2. work[w].pc = "lock" /\ work[w].stmt \in Stmt
        BY <2>3, <3>1, <4>1, <1>a DEF Start, LockInv
      <4> QED
        BY <3>1, <4>1, <4>2, <1>a DEF Start
    <3>2. CASE Send(w)
      <4>1. work'[w].stmt = work[w].stmt /\ work'[w].pc = work[w].pc
        BY <3>2, <1>a DEF Send, Job
      <4> QED
        BY <2>3, <3>2, <4>1, <1>a DEF Send, LockInv, lockVars
    <3>3. CASE Refuse(w) \/ Finish(w) \/ Panic(w)
      BY <2>3, <3>3, <1>a DEF Refuse, Finish, Panic, Ended, Job
    <3> QED
      BY <1>3, <3>1, <3>2, <3>3 DEF WorkerStep
  <2> QED
    BY <1>a, <2>1, <2>2, <2>3 DEF LockInv
<1> QED
  BY <1>1, <1>2, <1>3, WorkChange

\* Only the worker that panics was on the statement it poisons.
LEMMA PoisonStep == ASSUME IInv, [Next]_vars PROVE PoisonIsContained'
<1>a. /\ TypeOK /\ LockInv /\ PoisonIsContained /\ work \in [Worker -> Job]
      /\ poisoned \subseteq Stmt
  BY DEF IInv, TypeOK, Job
<1>1. CASE UNCHANGED <<work, lockVars>>
  BY <1>1, <1>a DEF PoisonIsContained, lockVars
<1>2. ASSUME NEW n \in Worker, NEW h, NEW pc \in {"alloc", "lock"},
             work'[n] = [pc |-> pc, stmt |-> h, left |-> 0],
             \A v \in Worker \ {n} : work'[v] = work[v], UNCHANGED lockVars
      PROVE  PoisonIsContained'
  <2>1. work'[n].pc # "running"
    BY <1>2
  <2> QED
    BY <1>2, <1>a, <2>1 DEF PoisonIsContained, lockVars
<1>3. ASSUME NEW w \in Worker, WorkerStep(w) \/ Panic(w)
      PROVE  PoisonIsContained'
  <2>1. \A v \in Worker \ {w} : work'[v] = work[v]
    BY <1>3, <1>a, WorkerFacts
  <2>2. CASE Start(w)
    <3>1. work'[w].stmt = work[w].stmt /\ UNCHANGED poisoned
      BY <2>2, <1>a DEF Start, Runs, Job
    <3>2. work[w].stmt \notin poisoned
      BY <2>2, <1>a DEF Start, LockInv, NoStmt, Stmt
    <3> QED
      BY <1>a, <2>1, <3>1, <3>2 DEF PoisonIsContained
  <2>3. CASE Send(w)
    <3>1. /\ work'[w].stmt = work[w].stmt /\ work'[w].pc = work[w].pc
          /\ UNCHANGED poisoned
      BY <2>3, <1>a DEF Send, Job, lockVars
    <3> QED
      BY <1>a, <2>1, <3>1 DEF PoisonIsContained
  <2>4. CASE Refuse(w) \/ Finish(w)
    <3>1. work'[w].pc # "running" /\ UNCHANGED poisoned
      BY <2>4, <1>a DEF Refuse, Finish, Ended, Job, lockVars
    <3> QED
      BY <1>a, <2>1, <3>1 DEF PoisonIsContained
  <2>5. CASE Panic(w)
    <3>1. /\ work'[w].pc # "running"
          /\ poisoned' = poisoned \cup {h \in Stmt : holder[h] = w}
      BY <2>5, <1>a DEF Panic, Ended, Job
    <3>2. ASSUME NEW v \in Worker \ {w}, work[v].pc = "running"
          PROVE  work[v].stmt \notin poisoned'
      BY <3>1, <3>2, <1>a DEF PoisonIsContained, LockInv, NoStmt, Stmt
    <3> QED
      BY <2>1, <3>1, <3>2 DEF PoisonIsContained
  <2> QED
    BY <1>3, <2>2, <2>3, <2>4, <2>5 DEF WorkerStep
<1> QED
  BY <1>1, <1>2, <1>3, WorkChange

\* The inductive invariant holds in every reachable state.
THEOREM Inductive == Spec => []IInv
<1>1. Init => IInv
  <2> SUFFICES ASSUME Init PROVE IInv
    OBVIOUS
  <2>1. CacheInv /\ cache \in Seq(CacheEntry) /\ recent \in Seq(Sql)
    BY EmptyCache DEF Init
  <2>2. \A w \in Worker : work[w] = [pc |-> "none", stmt |-> NoStmt, left |-> 0]
    BY DEF Init
  <2>3. TypeOK
    BY <2>1, BoundsAssumption, ChanSizeAssumption DEF Init, TypeOK, CacheEntry, Idle
  <2>4. KnownInv /\ LockInv /\ PoisonIsContained
    BY <2>2 DEF Init, KnownInv, LockInv, PoisonIsContained, NoStmt
  <2> QED
    BY <2>1, <2>3, <2>4 DEF IInv
<1>2. IInv /\ [Next]_vars => IInv'
  BY TypeStep, CacheStep, KnownStep, LockStep, PoisonStep DEF IInv
<1> QED
  BY <1>1, <1>2, PTL DEF Spec

-----------------------------------------------------------------------------
(* The safety properties.                                                  *)

\* Types, and the bound of the channel.
THEOREM Typing == Spec => []TypeOK
<1>1. IInv => TypeOK
  BY DEF IInv
<1> QED
  BY <1>1, Inductive, PTL

\* prepare, execute, eviction and clearing keep the cache within its capacity,
\* without doubles, and with the texts used last in it.
THEOREM CacheIsSound == Spec => []CacheSound
<1>1. IInv => CacheSound
  <2> SUFFICES ASSUME IInv PROVE CacheSound
    OBVIOUS
  <2>1. /\ CacheInv /\ cache \in Seq(CacheEntry) /\ recent \in Seq(Sql)
        /\ DOMAIN cache = 1..Len(cache) /\ DOMAIN recent = 1..Len(recent)
    BY DEF IInv, TypeOK, CacheEntry
  <2> QED
    BY <2>1 DEF CacheSound, CacheInv, Cached
<1> QED
  BY <1>1, Inductive, PTL

\* However executions are abandoned and entries evicted, a prepared statement
\* has one user at a time.
THEOREM NoSharedUse == Spec => []OneUserPerStatement
<1>1. IInv => OneUserPerStatement
  BY DEF IInv, LockInv, OneUserPerStatement
<1> QED
  BY <1>1, Inductive, PTL

\* A statement whose metadata failed is in no cache and in no worker.
THEOREM FailedPrepareLeavesNothing == Spec => []FailedPrepareIsForgotten
<1>1. IInv => FailedPrepareIsForgotten
  BY DEF IInv, TypeOK, KnownInv, FailedPrepareIsForgotten
<1> QED
  BY <1>1, Inductive, PTL

\* No execution runs on a statement that a panic left behind.
THEOREM PoisonContained == Spec => []PoisonIsContained
<1>1. IInv => PoisonIsContained
  BY DEF IInv
<1> QED
  BY <1>1, Inductive, PTL

-----------------------------------------------------------------------------
(* Who holds a lock, and what a statement goes through.                    *)

\* A lock is held by a running execution of its statement only, so none is
\* leaked; only statements in use were poisoned; workers are issued in order.
UseInv ==
  /\ \A h \in Stmt :
       holder[h] # Nobody => work[holder[h]].pc = "running" /\ work[holder[h]].stmt = h
  /\ poisoned \subseteq (1..prepared) \ rejected
  /\ \A w \in Worker : w > issued => work[w].pc = "none"
  /\ client.at = "prepare" => client.on \in Stmt

\* A worker that starts takes the lock of its statement and no other.
LEMMA StartedUse ==
  ASSUME IInv, UseInv, NEW w \in Worker, Start(w)
  PROVE  /\ work'[w].pc = "running" /\ work'[w].stmt = work[w].stmt
         /\ work[w].pc \in {"lock", "alloc"}
         /\ \A v \in Worker \ {w} : work'[v] = work[v]
         /\ work[w].pc = "alloc" => work[w].stmt = NoStmt /\ UNCHANGED holder
         /\ work[w].pc = "lock" =>
              /\ work[w].stmt \in Stmt /\ work[w].stmt \notin poisoned
              /\ holder[work[w].stmt] = Nobody
              /\ holder' = [holder EXCEPT ![work[w].stmt] = w]
<1>a. LockInv /\ work \in [Worker -> Job]
  BY DEF IInv, TypeOK, Job
<1> QED
  BY <1>a DEF Start, Runs, LockInv, Job

\* A worker that ends, by itself or by a panic, frees what it holds.
LEMMA EndedUse ==
  ASSUME IInv, UseInv, NEW w \in Worker, Finish(w) \/ Panic(w)
  PROVE  /\ work'[w].pc = "done" /\ work'[w].stmt = NoStmt
         /\ \A v \in Worker \ {w} : work'[v] = work[v]
         /\ \A h \in Stmt : holder'[h] = IF holder[h] = w THEN Nobody ELSE holder[h]
         /\ work[w].pc \in {"running", "refused"}
<1>a. work \in [Worker -> Job]
  BY DEF IInv, TypeOK, Job
<1> QED
  BY <1>a DEF Finish, Panic, Sending, Ended, Unlocked, Job

LEMMA SentUse ==
  ASSUME IInv, NEW w \in Worker, Send(w) \/ Refuse(w)
  PROVE  /\ \A v \in Worker \ {w} : work'[v] = work[v]
         /\ UNCHANGED lockVars
         /\ work[w].pc \in {"lock", "running", "refused"}
         /\ work'[w].pc = "running" <=> work[w].pc = "running"
         /\ work'[w].pc # "done" /\ work'[w].pc # "none"
         /\ work'[w].pc = "running" => work'[w].stmt = work[w].stmt
<1>a. work \in [Worker -> Job]
  BY DEF IInv, TypeOK, Job
<1>1. CASE Send(w)
  BY <1>1, <1>a DEF Send, Sending, Job, lockVars
<1>2. CASE Refuse(w)
  BY <1>2, <1>a DEF Refuse, Job, lockVars
<1> QED
  BY <1>1, <1>2

\* Everything but the steps of workers leaves locks alone; at most one worker
\* is issued, or one statement prepared and perhaps rejected.
LEMMA ClientChange ==
  ASSUME IInv, [Next]_vars, ~\E w \in Worker : WorkerStep(w) \/ Panic(w)
  PROVE  /\ UNCHANGED lockVars
         /\ \/ UNCHANGED <<work, issued>>
            \/ /\ issued + 1 \in Worker /\ issued' = issued + 1
               /\ work'[issued + 1].pc \in {"alloc", "lock"}
               /\ \A v \in Worker \ {issued + 1} : work'[v] = work[v]
         /\ \/ UNCHANGED <<prepared, rejected>>
            \/ /\ prepared < MaxStmt /\ prepared' = prepared + 1
               /\ UNCHANGED rejected \/ rejected' = rejected \cup {prepared + 1}
         /\ client'.at = "prepare" => client'.on \in Stmt \/ UNCHANGED client
<1>a. TypeOK /\ KnownInv /\ cache \in Seq(CacheEntry) /\ prepared \in Nat /\ issued \in Nat
  BY BoundsAssumption DEF IInv, TypeOK, CacheEntry
<1>b. ASSUME NEW h, NEW pc \in {"alloc", "lock"}, Spawn(pc, h)
      PROVE  /\ issued + 1 \in Worker /\ issued' = issued + 1
             /\ work'[issued + 1].pc \in {"alloc", "lock"}
             /\ \A v \in Worker \ {issued + 1} : work'[v] = work[v]
             /\ client'.at # "prepare"
  <2>1. issued + 1 \in Worker
    BY <1>b, <1>a, BoundsAssumption DEF Spawn, Worker
  <2>2. work' = [work EXCEPT ![issued + 1] = [pc |-> pc, stmt |-> h, left |-> 0]]
    BY <1>b DEF Spawn
  <2>3. work'[issued + 1] = [pc |-> pc, stmt |-> h, left |-> 0]
    BY <1>a, <2>1, <2>2 DEF TypeOK
  <2> QED
    BY <1>a, <1>b, <2>1, <2>2, <2>3 DEF Spawn, TypeOK
<1>1. CASE \E sql \in Sql : PrepareCached(sql) \/ PrepareNew(sql)
  <2>1. PICK sql \in Sql : PrepareCached(sql) \/ PrepareNew(sql)
    BY <1>1
  <2>2. CASE PrepareCached(sql)
    <3>1. Entry(sql).stmt \in Stmt
      BY <1>a, <2>2, SlotFacts DEF PrepareCached, CacheEntry
    <3> QED
      BY <2>2, <3>1 DEF PrepareCached
  <2>3. CASE PrepareNew(sql)
    BY <2>3 DEF PrepareNew
  <2> QED
    BY <2>1, <2>2, <2>3
<1>2. CASE \E sql \in Sql, persistent, arguments \in BOOLEAN :
             \/ ExecuteUnprepared(sql, persistent, arguments)
             \/ ExecuteCached(sql, persistent)
             \/ ExecuteNew(sql, persistent, arguments)
  <2>1. PICK sql \in Sql, persistent \in BOOLEAN, arguments \in BOOLEAN :
             \/ ExecuteUnprepared(sql, persistent, arguments)
             \/ ExecuteCached(sql, persistent)
             \/ ExecuteNew(sql, persistent, arguments)
    BY <1>2
  <2>2. CASE ExecuteUnprepared(sql, persistent, arguments)
    <3>1. Spawn("alloc", NoStmt) /\ UNCHANGED <<prepared, rejected, lockVars>>
      BY <2>2 DEF ExecuteUnprepared
    <3> QED
      BY <3>1, <1>b
  <2>3. CASE ExecuteCached(sql, persistent)
    <3>1. Spawn("lock", Entry(sql).stmt) /\ UNCHANGED <<prepared, rejected, lockVars>>
      BY <2>3 DEF ExecuteCached
    <3> QED
      BY <3>1, <1>b
  <2>4. CASE ExecuteNew(sql, persistent, arguments)
    <3>1. prepared < MaxStmt /\ prepared' = prepared + 1 /\ UNCHANGED lockVars
      BY <2>4 DEF ExecuteNew
    <3>2. CASE Spawn("lock", prepared + 1) /\ UNCHANGED rejected
      BY <3>1, <3>2, <1>b
    <3>3. CASE /\ rejected' = rejected \cup {prepared + 1}
               /\ UNCHANGED <<work, issued, client>>
      BY <3>1, <3>3
    <3> QED
      BY <2>4, <3>2, <3>3 DEF ExecuteNew
  <2> QED
    BY <2>1, <2>2, <2>3, <2>4
<1>3. CASE PrepareReturns \/ StreamEnds \/ DropStream
  BY <1>3 DEF PrepareReturns, StreamEnds, DropStream, Idle
<1>4. CASE Poll \/ ClearCachedStatements \/ Close
  BY <1>4 DEF Poll, ClearCachedStatements, Close
<1>5. CASE Done \/ UNCHANGED vars
  BY <1>5 DEF Done, vars
<1> QED
  BY <1>1, <1>2, <1>3, <1>4, <1>5 DEF Next

LEMMA UseStep == ASSUME IInv, UseInv, [Next]_vars PROVE UseInv'
<1>a. /\ LockInv /\ KnownInv /\ work \in [Worker -> Job] /\ client.on \in Nat
      /\ holder \in [Stmt -> Worker \cup {Nobody}] /\ poisoned \subseteq Stmt
      /\ prepared \in Nat /\ rejected \subseteq 1..prepared /\ issued \in Nat
  BY BoundsAssumption DEF IInv, TypeOK, Job
<1>b. Worker \subseteq Nat \ {Nobody} /\ NoStmt \notin Stmt
  BY DEF Worker, Nobody, Stmt, NoStmt
<1>1. CASE ~\E w \in Worker : WorkerStep(w) \/ Panic(w)
  <2>1. \A w \in Worker : w # issued + 1 \/ UNCHANGED work => work'[w] = work[w]
    BY <1>1, <1>a, ClientChange
  <2>2. ASSUME NEW h \in Stmt, holder'[h] # Nobody
        PROVE  work'[holder'[h]].pc = "running" /\ work'[holder'[h]].stmt = h
    <3>1. /\ holder'[h] = holder[h] /\ holder[h] \in Worker
          /\ work[holder[h]].pc = "running" /\ work[holder[h]].stmt = h
      BY <1>1, <2>2, <1>a, ClientChange DEF UseInv, lockVars
    <3>2. work'[holder[h]] = work[holder[h]]
      <4>1. issued + 1 \in Worker => work[issued + 1].pc = "none"
        BY <1>a, <1>b DEF UseInv
      <4> QED
        BY <1>1, <3>1, <4>1, ClientChange
    <3> QED
      BY <3>1, <3>2
  <2>3. poisoned' \subseteq (1..prepared') \ rejected'
    <3>1. poisoned' = poisoned /\ poisoned \subseteq (1..prepared) \ rejected
      BY <1>1, ClientChange DEF UseInv, lockVars
    <3>2. CASE UNCHANGED <<prepared, rejected>>
      BY <3>1, <3>2
    <3>3. CASE /\ prepared' = prepared + 1
               /\ UNCHANGED rejected \/ rejected' = rejected \cup {prepared + 1}
      BY <3>1, <3>3, <1>a
    <3> QED
      BY <1>1, <3>2, <3>3, ClientChange
  <2>4. ASSUME NEW w \in Worker, w > issued' PROVE work'[w].pc = "none"
    BY <1>1, <2>4, <1>a, <1>b, ClientChange DEF UseInv
  <2>5. client'.at = "prepare" => client'.on \in Stmt
    BY <1>1, ClientChange DEF UseInv
  <2> QED
    BY <2>2, <2>3, <2>4, <2>5 DEF UseInv
<1>2. ASSUME NEW w \in Worker, WorkerStep(w) \/ Panic(w) PROVE UseInv'
  <2>1. UNCHANGED <<prepared, rejected, issued, client>>
    BY <1>2, <1>a, WorkerFacts DEF IInv
  <2>2. CASE Start(w)
    <3>1. UNCHANGED poisoned
      BY <2>2 DEF Start
    <3>2. \A h \in Stmt :
            holder'[h] # Nobody => work'[holder'[h]].pc = "running" /\ work'[holder'[h]].stmt = h
      <4> SUFFICES ASSUME NEW h \in Stmt, holder'[h] # Nobody
                   PROVE  work'[holder'[h]].pc = "running" /\ work'[holder'[h]].stmt = h
        OBVIOUS
      <4>1. CASE holder'[h] = w
        BY <2>2, <4>1, <1>a, <1>b, StartedUse DEF UseInv
      <4>2. CASE holder'[h] # w
        <5>1. holder'[h] = holder[h] /\ holder[h] \in Worker \ {w}
          BY <2>2, <4>2, <1>a, StartedUse
        <5> QED
          BY <2>2, <5>1, StartedUse DEF UseInv
      <4> QED
        BY <4>1, <4>2
    <3>3. \A v \in Worker : v > issued => work'[v].pc = "none"
      BY <2>2, StartedUse DEF UseInv
    <3> QED
      BY <2>1, <3>1, <3>2, <3>3 DEF UseInv
  <2>3. CASE Send(w) \/ Refuse(w)
    <3>1. \A h \in Stmt :
            holder'[h] # Nobody => work'[holder'[h]].pc = "running" /\ work'[holder'[h]].stmt = h
      BY <2>3, <1>a, SentUse DEF UseInv, lockVars
    <3>2. \A v \in Worker : v > issued => work'[v].pc = "none"
      BY <2>3, SentUse DEF UseInv
    <3> QED
      BY <2>1, <2>3, <3>1, <3>2, SentUse DEF UseInv, lockVars
  <2>4. CASE Finish(w) \/ Panic(w)
    <3>1. \A h \in Stmt :
            holder'[h] # Nobody => work'[holder'[h]].pc = "running" /\ work'[holder'[h]].stmt = h
      BY <2>4, <1>a, EndedUse DEF UseInv
    <3>2. \A v \in Worker : v > issued => work'[v].pc = "none"
      BY <2>4, EndedUse DEF UseInv
    <3>3. poisoned' \subseteq poisoned \cup {h \in Stmt : holder[h] = w}
      BY <2>4 DEF Finish, Panic
    <3>4. {h \in Stmt : holder[h] = w} \subseteq (1..prepared) \ rejected
      BY <1>a, <1>b DEF UseInv, KnownInv, Stmt
    <3> QED
      BY <2>1, <3>1, <3>2, <3>3, <3>4 DEF UseInv
  <2> QED
    BY <1>2, <2>2, <2>3, <2>4 DEF WorkerStep
<1> QED
  BY <1>1, <1>2

\* No lock is leaked, poisoned in passing, or held by a worker not yet issued.
THEOREM LocksAreHeldInUse == Spec => []UseInv
<1>1. Init => UseInv
  BY DEF Init, UseInv, Idle
<1>2. IInv /\ UseInv /\ [Next]_vars => UseInv'
  BY UseStep
<1> QED
  BY <1>1, <1>2, Inductive, PTL DEF Spec

-----------------------------------------------------------------------------
(* No wait is in vain: the safety that PrepareNeverHangs and               *)
(* PolledStreamEnds rest on.                                               *)

\* The lock a prepare waits for is held by an execution whose stream the
\* client has left, which its next send tells it.  A worker waits for another
\* one that runs, never for itself.
NoWaitInVain ==
  /\ client.at = "prepare" /\ holder[client.on] # Nobody =>
       LET w == holder[client.on]
       IN  w \in Worker /\ work[w].pc = "running" /\ ~Held(w)
  /\ \A w \in Worker :
       work[w].pc = "lock" /\ holder[work[w].stmt] # Nobody =>
         LET v == holder[work[w].stmt]
         IN  v \in Worker \ {w} /\ work[v].pc = "running"

\* There is no cycle of waits among prepare, workers and abandoned streams.
THEOREM WaitsEnd == Spec => []NoWaitInVain
<1>1. IInv /\ UseInv => NoWaitInVain
  <2> SUFFICES ASSUME IInv, UseInv PROVE NoWaitInVain
    OBVIOUS
  <2>1. holder \in [Stmt -> Worker \cup {Nobody}] /\ LockInv
    BY DEF IInv, TypeOK
  <2>2. ASSUME client.at = "prepare", holder[client.on] # Nobody
        PROVE  /\ holder[client.on] \in Worker
               /\ work[holder[client.on]].pc = "running"
               /\ ~Held(holder[client.on])
    BY <2>1, <2>2 DEF UseInv, Held
  <2>3. ASSUME NEW w \in Worker, work[w].pc = "lock", holder[work[w].stmt] # Nobody
        PROVE  /\ holder[work[w].stmt] \in Worker \ {w}
               /\ work[holder[work[w].stmt]].pc = "running"
    BY <2>1, <2>3 DEF UseInv, LockInv
  <2> QED
    BY <2>2, <2>3 DEF NoWaitInVain
<1> QED
  BY <1>1, Inductive, LocksAreHeldInUse, PTL

-----------------------------------------------------------------------------
(* The refinement.                                                         *)

\* Where nothing happens to statements.
LEMMA StateKept ==
  ASSUME UNCHANGED <<prepared, rejected, poisoned>>
  PROVE  [h \in Stmt |-> StatementState(h)]' = [h \in Stmt |-> StatementState(h)]
BY DEF StatementState

\* What became of the newest statement.
LEMMA StatePrepared ==
  ASSUME IInv, UseInv, NEW n \in Stmt, n = prepared + 1, prepared' = n, UNCHANGED poisoned,
         UNCHANGED rejected \/ rejected' = rejected \cup {n}
  PROVE  /\ StatementState(n) = "none"
         /\ \E answer \in {"ready", "rejected"} :
              [h \in Stmt |-> StatementState(h)]' =
                [[h \in Stmt |-> StatementState(h)] EXCEPT ![n] = answer]
<1>a. /\ prepared \in Nat /\ rejected \subseteq 1..prepared
      /\ poisoned \subseteq (1..prepared) \ rejected
  BY BoundsAssumption DEF IInv, TypeOK, UseInv
<1>1. n \notin rejected \cup poisoned
  BY <1>a
<1>2. StatementState(n) = "none"
  BY <1>1, <1>a DEF StatementState
<1>3. ASSUME NEW h \in Stmt, h # n
      PROVE  StatementState(h)' = StatementState(h)
  <2>1. h <= prepared' <=> h <= prepared
    BY <1>3, <1>a DEF Stmt
  <2>2. h \in rejected' <=> h \in rejected
    BY <1>3
  <2> QED
    BY <2>1, <2>2 DEF StatementState
<1>4. CASE UNCHANGED rejected
  <2>1. StatementState(n)' = "ready"
    BY <1>1, <1>4, <1>a DEF StatementState
  <2> QED
    BY <1>2, <1>3, <2>1
<1>5. CASE rejected' = rejected \cup {n}
  <2>1. StatementState(n)' = "rejected"
    BY <1>1, <1>5, <1>a DEF StatementState
  <2> QED
    BY <1>2, <1>3, <2>1
<1> QED
  BY <1>4, <1>5

\* A step of the client, or of nobody, at most prepares a statement.
LEMMA ClientUse ==
  ASSUME IInv, UseInv, [Next]_vars, ~\E w \in Worker : WorkerStep(w) \/ Panic(w)
  PROVE  [StatementPromise!Next]_(StatementPromise!vars)
<1> DEFINE state == [h \in Stmt |-> StatementState(h)]
           uses == [w \in Worker |-> Uses(w)]
           over == {w \in Worker : work[w].pc = "done"}
<1>a. issued \in Nat /\ prepared \in Nat /\ MaxStmt \in Nat
  BY BoundsAssumption DEF IInv, TypeOK
<1>1. \A w \in Worker : Uses(w)' = Uses(w) /\ (work'[w].pc = "done" <=> work[w].pc = "done")
  <2>1. CASE UNCHANGED work
    BY <2>1 DEF Uses
  <2>2. CASE /\ issued + 1 \in Worker /\ work'[issued + 1].pc \in {"alloc", "lock"}
             /\ \A v \in Worker \ {issued + 1} : work'[v] = work[v]
    <3>1. work[issued + 1].pc = "none"
      BY <2>2, <1>a DEF UseInv
    <3> QED
      BY <2>2, <3>1 DEF Uses
  <2> QED
    BY <2>1, <2>2, ClientChange
<1>2. UNCHANGED <<uses, over>>
  BY <1>1
<1>3. CASE UNCHANGED <<prepared, rejected>>
  <2>1. state' = state
    BY <1>3, ClientChange, StateKept DEF lockVars
  <2> QED
    BY <1>2, <2>1 DEF StatementPromise!vars
<1>4. CASE /\ prepared < MaxStmt /\ prepared' = prepared + 1
           /\ UNCHANGED rejected \/ rejected' = rejected \cup {prepared + 1}
  <2>1. PICK n \in Stmt : n = prepared + 1
    BY <1>4, <1>a DEF Stmt
  <2>2. /\ StatementState(n) = "none"
        /\ \E answer \in {"ready", "rejected"} : state' = [state EXCEPT ![n] = answer]
    BY <1>4, <2>1, ClientChange, StatePrepared DEF lockVars
  <2>3. StatementPromise!Prepare(n)
    BY <1>2, <2>2 DEF StatementPromise!Prepare
  <2> QED
    BY <2>3 DEF StatementPromise!Next
<1> QED
  BY <1>3, <1>4, ClientChange

\* A panic breaks the statement of the worker, if it has one, and no other.
LEMMA PanicUse ==
  ASSUME IInv, UseInv, NEW w \in Worker, Panic(w),
         NEW h \in Stmt, h = work[w].stmt
  PROVE  [g \in Stmt |-> StatementState(g)]' =
           [[g \in Stmt |-> StatementState(g)] EXCEPT ![h] = "spoiled"]
<1>a. LockInv /\ KnownInv /\ w # Nobody /\ NoStmt \notin Stmt
  BY DEF IInv, Worker, Nobody, Stmt, NoStmt
<1>1. work[w].pc = "running" /\ poisoned' = poisoned \cup {g \in Stmt : holder[g] = w}
      /\ UNCHANGED <<prepared, rejected>>
  BY DEF Panic
<1>2. {g \in Stmt : holder[g] = w} = {h}
  BY <1>1, <1>a DEF LockInv, UseInv
<1>3. h \notin rejected
  BY <1>a DEF KnownInv
<1>4. \A g \in Stmt : StatementState(g)' = IF g = h THEN "spoiled" ELSE StatementState(g)
  <2> SUFFICES ASSUME NEW g \in Stmt
               PROVE  StatementState(g)' = IF g = h THEN "spoiled" ELSE StatementState(g)
    OBVIOUS
  <2>1. g \in poisoned' <=> g \in poisoned \/ g = h
    BY <1>1, <1>2
  <2> QED
    BY <1>1, <1>3, <2>1 DEF StatementState
<1> QED
  BY <1>4

\* A step of a worker uses a statement, leaves it or breaks it.
LEMMA WorkerUse ==
  ASSUME IInv, UseInv, NEW w \in Worker, WorkerStep(w) \/ Panic(w)
  PROVE  [StatementPromise!Next]_(StatementPromise!vars)
<1> DEFINE state == [h \in Stmt |-> StatementState(h)]
           uses == [v \in Worker |-> Uses(v)]
           over == {v \in Worker : work[v].pc = "done"}
<1>a. /\ LockInv /\ KnownInv /\ TypeOK /\ NoStmt \notin Stmt /\ Nobody \notin Worker
      /\ poisoned \subseteq Stmt /\ work \in [Worker -> Job]
  BY DEF IInv, TypeOK, Worker, Nobody, Stmt, NoStmt, Job
<1>b. UNCHANGED <<prepared, rejected>> /\ \A v \in Worker \ {w} : work'[v] = work[v]
  BY <1>a, WorkerFacts
<1>c. \A v \in Worker \ {w} : Uses(v)' = Uses(v) /\ (v \in over' <=> v \in over)
  BY <1>b DEF Uses
<1>1. CASE Start(w)
  <2>1. state' = state
    BY <1>1, <1>b, StateKept DEF Start
  <2>2. over' = over /\ w \notin over
    BY <1>1, <1>c, StartedUse
  <2>3. Uses(w) = NoStmt /\ Uses(w)' = work[w].stmt
    BY <1>1, StartedUse DEF Uses
  <2>4. CASE work[w].pc = "alloc"
    <3>1. uses' = uses
      BY <1>1, <1>c, <2>3, <2>4, StartedUse
    <3> QED
      BY <2>1, <2>2, <3>1 DEF StatementPromise!vars
  <2>5. CASE work[w].pc = "lock"
    <3>1. PICK h \in Stmt : h = work[w].stmt
      BY <1>1, <2>5, StartedUse
    <3>2. h \notin poisoned /\ holder[h] = Nobody
      BY <1>1, <2>5, <3>1, StartedUse
    <3>3. StatementState(h) = "ready"
      <4>1. h <= prepared /\ h \notin rejected
        BY <3>1, <1>a DEF KnownInv
      <4> QED
        BY <3>2, <4>1 DEF StatementState
    <3>4. \A v \in Worker : Uses(v) # h
      BY <3>1, <3>2, <1>a DEF Uses, LockInv
    <3>5. uses' = [uses EXCEPT ![w] = h]
      BY <1>c, <2>3, <3>1
    <3>6. StatementPromise!Use(w, h)
      BY <2>1, <2>2, <2>3, <3>3, <3>4, <3>5 DEF StatementPromise!Use
    <3> QED
      BY <3>6 DEF StatementPromise!Next
  <2> QED
    BY <1>1, <2>4, <2>5, StartedUse
<1>2. CASE Send(w) \/ Refuse(w)
  <2>1. state' = state
    BY <1>2, <1>b, SentUse, StateKept DEF lockVars
  <2>2. Uses(w)' = Uses(w) /\ (w \in over' <=> w \in over)
    BY <1>2, SentUse DEF Uses
  <2>3. UNCHANGED <<uses, over>>
    BY <1>c, <2>2
  <2> QED
    BY <2>1, <2>3 DEF StatementPromise!vars
<1>3. CASE Finish(w) \/ Panic(w)
  <2>1. /\ w \notin over /\ over' = over \cup {w}
        /\ uses' = [uses EXCEPT ![w] = NoStmt]
    <3>1. work'[w].pc = "done" /\ work[w].pc # "done"
      BY <1>3, EndedUse
    <3>2. Uses(w)' = NoStmt
      BY <3>1 DEF Uses
    <3> QED
      BY <1>c, <3>1, <3>2
  <2>2. CASE state' = state
    <3>1. StatementPromise!Leave(w)
      BY <2>1, <2>2 DEF StatementPromise!Leave
    <3> QED
      BY <3>1 DEF StatementPromise!Next
  <2>3. CASE Finish(w)
    <3>1. state' = state
      BY <2>3, <1>b, StateKept DEF Finish
    <3> QED
      BY <2>2, <3>1
  <2>4. CASE Panic(w) /\ work[w].stmt = NoStmt
    <3>1. \A h \in Stmt : holder[h] # w
      BY <2>4, <1>a DEF UseInv
    <3>2. UNCHANGED poisoned
      BY <2>4, <3>1 DEF Panic
    <3>3. state' = state
      BY <1>b, <3>2, StateKept
    <3> QED
      BY <2>2, <3>3
  <2>5. CASE Panic(w) /\ work[w].stmt # NoStmt
    <3>1. PICK h \in Stmt : h = work[w].stmt
      BY <2>5, <1>a DEF Job
    <3>2. Uses(w) = h
      BY <2>5, <3>1 DEF Uses, Panic
    <3>3. state' = [state EXCEPT ![h] = "spoiled"]
      BY <2>5, <3>1, PanicUse
    <3>4. StatementPromise!Break(w)
      BY <1>a, <2>1, <3>2, <3>3 DEF StatementPromise!Break
    <3> QED
      BY <3>4 DEF StatementPromise!Next
  <2> QED
    BY <1>3, <2>3, <2>4, <2>5
<1> QED
  BY <1>1, <1>2, <1>3 DEF WorkerStep

\* Cache, locks, workers and client together keep the promise about statements.
THEOREM StatementUseImplemented == Spec => ImplementsStatementUse
<1>1. Init => StatementPromise!Init
  <2> SUFFICES ASSUME Init PROVE StatementPromise!Init
    OBVIOUS
  <2>1. \A w \in Worker : work[w].pc = "none" /\ Uses(w) = NoStmt
    BY DEF Init, Uses
  <2>2. \A h \in Stmt : StatementState(h) = "none"
    BY BoundsAssumption DEF Init, StatementState, Stmt
  <2> QED
    BY <2>1, <2>2 DEF StatementPromise!Init
<1>2. IInv /\ UseInv /\ [Next]_vars => [StatementPromise!Next]_(StatementPromise!vars)
  BY ClientUse, WorkerUse
<1> QED
  BY <1>1, <1>2, Inductive, LocksAreHeldInUse, PTL
     DEF Spec, ImplementsStatementUse, StatementPromise!Spec

-----------------------------------------------------------------------------
(* Executions end: the other half of what the liveness properties rest on. *)

\* The steps an execution has left, at most; starting it is one of them.
StepsLeft(w) ==
  CASE work[w].pc = "none" -> MaxItems + 3
    [] work[w].pc \in {"alloc", "lock"} -> MaxItems + 2
    [] work[w].pc \in {"running", "refused"} -> work[w].left + 1
    [] work[w].pc = "done" -> 0

\* Every step of an execution brings it closer to its end, and nothing the
\* client or another execution does takes it back: none is retried or restarted.
ExecutionsShrink ==
  \A w \in Worker :
    /\ StepsLeft(w) \in Nat /\ StepsLeft(w)' <= StepsLeft(w)
    /\ WorkerStep(w) \/ Panic(w) => StepsLeft(w)' < StepsLeft(w)

LEMMA StepsBound ==
  ASSUME TypeOK, NEW w \in Worker
  PROVE  /\ work[w].left \in 0..MaxItems /\ MaxItems \in Nat \ {0}
         /\ StepsLeft(w) \in Nat
<1>1. work[w] \in Job /\ MaxItems \in Nat \ {0}
  BY BoundsAssumption DEF TypeOK, Job
<1>2. /\ work[w].left \in 0..MaxItems
      /\ work[w].pc \in {"none", "alloc", "lock", "running", "refused", "done"}
  BY <1>1 DEF Job
<1> QED
  BY <1>1, <1>2 DEF StepsLeft

\* The steps of one execution.
LEMMA WorkerShrinks ==
  ASSUME IInv, UseInv, NEW w \in Worker, WorkerStep(w) \/ Panic(w)
  PROVE  /\ StepsLeft(w)' < StepsLeft(w)
         /\ \A v \in Worker \ {w} : StepsLeft(v)' = StepsLeft(v)
<1>a. /\ TypeOK /\ LockInv /\ work \in [Worker -> Job]
      /\ work[w].left \in 0..MaxItems /\ MaxItems \in Nat \ {0}
  BY StepsBound DEF IInv, TypeOK, Job
<1>b. \A v \in Worker \ {w} : work'[v] = work[v]
  BY <1>a, WorkerFacts
<1>c. \A v \in Worker \ {w} : StepsLeft(v)' = StepsLeft(v)
  BY <1>b DEF StepsLeft
<1>1. CASE Start(w)
  <2>1. PICK n \in 1..MaxItems : work' = Runs(w, n)
    BY <1>1 DEF Start
  <2>2. work'[w].pc = "running" /\ work'[w].left = n /\ work[w].pc \in {"lock", "alloc"}
    BY <1>1, <1>a, <2>1 DEF Start, Runs
  <2>3. StepsLeft(w)' = n + 1 /\ StepsLeft(w) = MaxItems + 2
    BY <2>2 DEF StepsLeft
  <2> QED
    BY <1>a, <1>c, <2>3
<1>2. CASE Refuse(w)
  <2>1. work'[w].pc = "refused" /\ work'[w].left = 1 /\ work[w].pc = "lock"
    BY <1>2, <1>a DEF Refuse
  <2>2. StepsLeft(w)' = 2 /\ StepsLeft(w) = MaxItems + 2
    BY <2>1 DEF StepsLeft
  <2> QED
    BY <1>a, <1>c, <2>2
<1>3. CASE Send(w)
  <2>1. /\ work'[w].pc = work[w].pc /\ work[w].pc \in {"running", "refused"}
        /\ work'[w].left = work[w].left - 1
    BY <1>3, <1>a DEF Send, Sending, Job
  <2>2. StepsLeft(w)' = work[w].left /\ StepsLeft(w) = work[w].left + 1
    <3>1. StepsLeft(w)' = work'[w].left + 1 /\ StepsLeft(w) = work[w].left + 1
      BY <2>1 DEF StepsLeft
    <3> QED
      BY <1>a, <2>1, <3>1
  <2> QED
    BY <1>a, <1>c, <2>2
<1>4. CASE Finish(w) \/ Panic(w)
  <2>1. StepsLeft(w)' = 0 /\ StepsLeft(w) = work[w].left + 1
    BY <1>4, EndedUse DEF StepsLeft
  <2> QED
    BY <1>a, <1>c, <2>1
<1> QED
  BY <1>1, <1>2, <1>3, <1>4 DEF WorkerStep

LEMMA ExecutionsStep == ASSUME IInv, UseInv, [Next]_vars PROVE ExecutionsShrink
<1>a. /\ TypeOK /\ issued \in Nat
      /\ \A w \in Worker : StepsLeft(w) \in Nat
  BY StepsBound, BoundsAssumption DEF IInv, TypeOK
<1>1. CASE \E w \in Worker : WorkerStep(w) \/ Panic(w)
  <2> SUFFICES ASSUME NEW v \in Worker
               PROVE  /\ StepsLeft(v)' <= StepsLeft(v)
                      /\ WorkerStep(v) \/ Panic(v) => StepsLeft(v)' < StepsLeft(v)
    BY <1>a DEF ExecutionsShrink
  <2>1. WorkerStep(v) \/ Panic(v) => StepsLeft(v)' < StepsLeft(v)
    BY WorkerShrinks
  <2>2. PICK w \in Worker : WorkerStep(w) \/ Panic(w)
    BY <1>1
  <2>3. StepsLeft(v)' = StepsLeft(v) \/ StepsLeft(v)' < StepsLeft(v)
    BY <2>2, WorkerShrinks
  <2>4. StepsLeft(v)' <= StepsLeft(v)
    <3>1. StepsLeft(v) \in Nat
      BY <1>a
    <3>2. CASE StepsLeft(v)' = StepsLeft(v)
      BY <3>1, <3>2
    <3>3. CASE StepsLeft(v)' < StepsLeft(v)
      <4>1. TypeOK'
        BY TypeStep
      <4>2. StepsLeft(v)' \in Nat
        <5>1. /\ work'[v].left \in Nat /\ MaxItems \in Nat
              /\ work'[v].pc \in {"none", "alloc", "lock", "running", "refused", "done"}
          BY <4>1, BoundsAssumption DEF TypeOK
        <5> QED
          BY <5>1 DEF StepsLeft
      <4> QED
        BY <3>1, <3>3, <4>2
    <3> QED
      BY <2>3, <3>2, <3>3
  <2> QED
    BY <2>1, <2>4
<1>2. CASE ~\E w \in Worker : WorkerStep(w) \/ Panic(w)
  <2> SUFFICES ASSUME NEW v \in Worker PROVE StepsLeft(v)' <= StepsLeft(v)
    BY <1>2, <1>a DEF ExecutionsShrink
  <2>1. CASE work'[v] = work[v]
    <3>1. StepsLeft(v)' = StepsLeft(v)
      BY <2>1 DEF StepsLeft
    <3> QED
      BY <1>a, <3>1
  <2>2. CASE v = issued + 1 /\ work'[v].pc \in {"alloc", "lock"}
    <3>1. work[v].pc = "none"
      BY <1>a, <2>2 DEF UseInv
    <3>2. StepsLeft(v)' = MaxItems + 2 /\ StepsLeft(v) = MaxItems + 3
      BY <2>2, <3>1 DEF StepsLeft
    <3> QED
      BY <3>2, BoundsAssumption
  <2>3. work'[v] = work[v] \/ (v = issued + 1 /\ work'[v].pc \in {"alloc", "lock"})
    BY <1>2, ClientChange
  <2> QED
    BY <2>1, <2>2, <2>3
<1> QED
  BY <1>1, <1>2

\* Together with WaitsEnd: an execution that something waits for has finitely
\* many steps left before it lets go of its statement.
THEOREM ExecutionsAreFinite == Spec => [][ExecutionsShrink]_vars
<1>1. IInv /\ UseInv /\ [Next]_vars => [ExecutionsShrink]_vars
  BY ExecutionsStep
<1> QED
  BY <1>1, Inductive, LocksAreHeldInUse, PTL DEF Spec

-----------------------------------------------------------------------------
(* Each worker, with the client's part in its stream, is one execution as  *)
(* ExecuteStream follows it.                                               *)

Seen(w) ==
  [stage |-> CASE work[w].pc = "none" -> "none"
               [] work[w].pc \in {"alloc", "lock"} -> "waiting"
               [] work[w].pc = "running" -> "using"
               [] work[w].pc = "refused" -> "left"
               [] work[w].pc = "done" -> "closed",
   open  |-> Held(w),
   depth |-> IF Held(w) THEN queued ELSE 0]

SeenSteps == \A w \in Worker : ExecutionStep(Seen(w), Seen(w)', ChanSize)

LEMMA SeenKept ==
  ASSUME NEW w, work'[w] = work[w], Held(w)' = Held(w), Held(w) => queued' = queued
  PROVE  ExecutionStep(Seen(w), Seen(w)', ChanSize)
<1>1. Seen(w)' = Seen(w)
  BY DEF Seen
<1> QED
  BY <1>1 DEF ExecutionStep

\* The client holds one stream at most.
LEMMA OneStream ==
  ASSUME NEW v, NEW w, v # w, Held(v)
  PROVE  ~Held(w)
BY DEF Held

\* A new execution: nobody else's stream is held before or after.
LEMMA SeenSpawn ==
  ASSUME IInv, UseInv, client = Idle, NEW h, NEW pc \in {"alloc", "lock"}, Spawn(pc, h)
  PROVE  SeenSteps
<1>a. issued \in Nat /\ issued + 1 \in Worker
  BY BoundsAssumption DEF IInv, TypeOK, Spawn, Worker
<1>1. \A v \in Worker : ~Held(v) /\ (Held(v)' <=> v = issued + 1)
  BY <1>a DEF Held, Idle, Spawn
<1>2. /\ work' = [work EXCEPT ![issued + 1] = [pc |-> pc, stmt |-> h, left |-> 0]]
      /\ queued' = 0
  BY DEF Spawn
<1>3. work'[issued + 1].pc = pc /\ \A v \in Worker \ {issued + 1} : work'[v] = work[v]
  BY <1>a, <1>2 DEF IInv, TypeOK
<1>4. work[issued + 1].pc = "none"
  BY <1>a DEF UseInv
<1>5. PICK n \in Worker : n = issued + 1
  BY <1>a
<1>6. ExecutionStep(Seen(n), Seen(n)', ChanSize)
  <2>1. Seen(n).stage = "none"
    BY <1>4, <1>5 DEF Seen
  <2>2. Held(n)' = TRUE /\ work'[n].pc \in {"alloc", "lock"}
    BY <1>1, <1>3, <1>5
  <2>3. Seen(n)' = [stage |-> "waiting", open |-> TRUE, depth |-> 0]
    BY <1>2, <2>2 DEF Seen
  <2> QED
    BY <2>1, <2>3 DEF ExecutionStep, Issued
<1>7. ASSUME NEW v \in Worker, v # n
      PROVE  ExecutionStep(Seen(v), Seen(v)', ChanSize)
  <2>1. work'[v] = work[v] /\ ~Held(v) /\ ~Held(v)'
    BY <1>1, <1>3, <1>5, <1>7
  <2>2. Held(v)' = Held(v)
    BY <2>1 DEF Held
  <2> QED
    BY <2>1, <2>2, SeenKept
<1> QED
  BY <1>6, <1>7 DEF SeenSteps

\* The client reads its stream or lets it go.
LEMMA SeenClient ==
  ASSUME IInv, NEW w \in Worker, Poll \/ StreamEnds \/ DropStream
  PROVE  ExecutionStep(Seen(w), Seen(w)', ChanSize)
<1>a. client \in [at: {"idle", "prepare", "stream", "closed"}, on: Nat] /\ queued \in Nat
  BY ChanSizeAssumption DEF IInv, TypeOK
<1>1. client.at = "stream" /\ UNCHANGED work
  BY DEF Poll, StreamEnds, DropStream
<1>2. Seen(w)'.stage = Seen(w).stage
  <2>1. work'[w].pc = work[w].pc
    BY <1>1
  <2>2. work[w].pc \in {"none", "alloc", "lock", "running", "refused", "done"}
    BY DEF IInv, TypeOK
  <2> QED
    BY <2>1, <2>2 DEF Seen
<1>3. CASE Held(w)
  <2>1. Seen(w).open = TRUE /\ Seen(w).depth = queued
    BY <1>3 DEF Seen
  <2>2. CASE Poll
    <3>1. Held(w)' /\ queued' = queued - 1 /\ queued > 0
      BY <1>3, <2>2 DEF Poll, Held
    <3>2. Seen(w)'.open = TRUE /\ Seen(w)'.depth = queued - 1
      BY <3>1 DEF Seen
    <3> QED
      BY <1>2, <2>1, <3>1, <3>2 DEF ExecutionStep, Taken
  <2>3. CASE StreamEnds \/ DropStream
    <3>1. ~Held(w)'
      BY <2>3 DEF StreamEnds, DropStream, Held, Idle
    <3>2. Seen(w)'.open = FALSE /\ Seen(w)'.depth = 0
      BY <3>1 DEF Seen
    <3> QED
      BY <1>2, <2>1, <3>2 DEF ExecutionStep, Dropped
  <2> QED
    BY <2>2, <2>3
<1>4. CASE ~Held(w)
  <2>1. ~Held(w)'
    BY <1>4 DEF Poll, StreamEnds, DropStream, Held, Idle
  <2>2. work'[w] = work[w] /\ Held(w)' = Held(w)
    BY <1>1, <1>4, <2>1 DEF Held
  <2> QED
    BY <1>4, <2>2, SeenKept
<1> QED
  BY <1>3, <1>4

\* A step of a worker moves its execution on or puts an item into its stream.
LEMMA SeenWorker ==
  ASSUME IInv, UseInv, NEW w \in Worker, WorkerStep(w) \/ Panic(w)
  PROVE  SeenSteps
<1>a. /\ TypeOK /\ LockInv /\ work \in [Worker -> Job] /\ queued \in Nat
      /\ UNCHANGED client /\ \A v \in Worker \ {w} : work'[v] = work[v]
  BY WorkerFacts, ChanSizeAssumption DEF IInv, TypeOK, Job
<1>b. \A v \in Worker : Held(v)' = Held(v)
  BY <1>a DEF Held
<1>1. CASE Send(w)
  <2>1. /\ work[w].pc \in {"running", "refused"} /\ work'[w].pc = work[w].pc
        /\ Held(w) /\ queued < ChanSize /\ queued' = queued + 1
    BY <1>1, <1>a DEF Send, Sending, Job
  <2>2. ExecutionStep(Seen(w), Seen(w)', ChanSize)
    <3>1. /\ Seen(w).stage \in {"using", "left"} /\ Seen(w)'.stage = Seen(w).stage
          /\ Seen(w).depth = queued /\ Seen(w).open = Held(w)
      BY <2>1 DEF Seen
    <3>2. Seen(w)'.open = TRUE /\ Seen(w)'.depth = queued + 1
      BY <2>1, <1>b DEF Seen
    <3> QED
      BY <2>1, <3>1, <3>2 DEF ExecutionStep, Put
  <2>3. ASSUME NEW v \in Worker, v # w PROVE ExecutionStep(Seen(v), Seen(v)', ChanSize)
    <3>1. work'[v] = work[v] /\ Held(v)' = Held(v) /\ ~Held(v)
      BY <2>1, <2>3, <1>a, <1>b, OneStream
    <3> QED
      BY <3>1, SeenKept
  <2> QED
    BY <2>2, <2>3 DEF SeenSteps
<1>2. CASE Start(w) \/ Refuse(w) \/ Finish(w) \/ Panic(w)
  <2>1. queued' = queued
    BY <1>2 DEF Start, Refuse, Finish, Panic
  <2>2. \/ work[w].pc \in {"lock", "alloc"} /\ work'[w].pc \in {"running", "refused"}
        \/ work[w].pc \in {"running", "refused"} /\ work'[w].pc = "done"
    <3>1. CASE Start(w)
      BY <3>1, StartedUse
    <3>2. CASE Refuse(w)
      BY <3>2, <1>a DEF Refuse
    <3>3. CASE Finish(w) \/ Panic(w)
      BY <3>3, EndedUse
    <3> QED
      BY <1>2, <3>1, <3>2, <3>3
  <2>3. /\ \/ Seen(w).stage = "waiting" /\ Seen(w)'.stage \in {"using", "left"}
           \/ Seen(w).stage \in {"using", "left"} /\ Seen(w)'.stage = "closed"
        /\ Seen(w)'.open = Seen(w).open /\ Seen(w)'.depth = Seen(w).depth
    BY <1>b, <2>1, <2>2 DEF Seen
  <2>4. ExecutionStep(Seen(w), Seen(w)', ChanSize)
    BY <2>3 DEF ExecutionStep, Moved
  <2>5. ASSUME NEW v \in Worker, v # w PROVE ExecutionStep(Seen(v), Seen(v)', ChanSize)
    BY <2>1, <2>5, <1>a, <1>b, SeenKept
  <2> QED
    BY <2>4, <2>5 DEF SeenSteps
<1> QED
  BY <1>1, <1>2 DEF WorkerStep

LEMMA SeenStep == ASSUME IInv, UseInv, [Next]_vars PROVE SeenSteps
<1>1. CASE \E w \in Worker : WorkerStep(w) \/ Panic(w)
  BY <1>1, SeenWorker
<1>2. CASE Poll \/ StreamEnds \/ DropStream
  BY <1>2, SeenClient DEF SeenSteps
<1>3. ASSUME UNCHANGED work, \A v \in Worker : ~Held(v) /\ ~Held(v)'
      PROVE  SeenSteps
  <2> SUFFICES ASSUME NEW v \in Worker PROVE ExecutionStep(Seen(v), Seen(v)', ChanSize)
    BY DEF SeenSteps
  <2>1. work'[v] = work[v] /\ Held(v)' = Held(v) /\ ~Held(v)
    BY <1>3 DEF Held
  <2> QED
    BY <2>1, SeenKept
<1>4. CASE PrepareReturns \/ ClearCachedStatements \/ Close
  <2>1. client.at # "stream" /\ client'.at # "stream" /\ UNCHANGED work
    BY <1>4 DEF PrepareReturns, ClearCachedStatements, Close, Idle
  <2> QED
    BY <1>3, <2>1 DEF Held
<1>5. CASE \E sql \in Sql : PrepareCached(sql) \/ PrepareNew(sql)
  <2>1. client.at # "stream" /\ client'.at # "stream" /\ UNCHANGED work
    BY <1>5 DEF PrepareCached, PrepareNew, Idle
  <2> QED
    BY <1>3, <2>1 DEF Held
<1>6. CASE \E sql \in Sql, persistent, arguments \in BOOLEAN :
             \/ ExecuteUnprepared(sql, persistent, arguments)
             \/ ExecuteCached(sql, persistent)
             \/ ExecuteNew(sql, persistent, arguments)
  <2>1. PICK sql \in Sql, persistent \in BOOLEAN, arguments \in BOOLEAN :
             \/ ExecuteUnprepared(sql, persistent, arguments)
             \/ ExecuteCached(sql, persistent)
             \/ ExecuteNew(sql, persistent, arguments)
    BY <1>6
  <2>2. CASE ExecuteUnprepared(sql, persistent, arguments)
    BY <2>2, SeenSpawn DEF ExecuteUnprepared
  <2>3. CASE ExecuteCached(sql, persistent)
    BY <2>3, SeenSpawn DEF ExecuteCached
  <2>4. CASE ExecuteNew(sql, persistent, arguments)
    <3>1. CASE Spawn("lock", prepared + 1)
      BY <2>4, <3>1, SeenSpawn DEF ExecuteNew
    <3>2. CASE UNCHANGED <<work, client>>
      <4>1. client.at # "stream"
        BY <2>4 DEF ExecuteNew, Idle
      <4> QED
        BY <1>3, <3>2, <4>1 DEF Held
    <3> QED
      BY <2>4, <3>1, <3>2 DEF ExecuteNew
  <2> QED
    BY <2>1, <2>2, <2>3, <2>4
<1>7. CASE Done \/ UNCHANGED vars
  <2>1. UNCHANGED <<work, client, queued>>
    BY <1>7 DEF Done, vars
  <2>2. \A v \in Worker : work'[v] = work[v] /\ Held(v)' = Held(v)
    BY <2>1 DEF Held
  <2> QED
    BY <2>1, <2>2, SeenKept DEF SeenSteps
<1> QED
  BY <1>1, <1>2, <1>4, <1>5, <1>6, <1>7 DEF Next

\* What is counted here for each worker is an execution, as is the query that
\* ExecuteStream follows item by item.
THEOREM WorkersAreExecutions == Spec => [][SeenSteps]_vars
<1>1. IInv /\ UseInv /\ [Next]_vars => [SeenSteps]_vars
  BY SeenStep
<1> QED
  BY <1>1, Inductive, LocksAreHeldInUse, PTL DEF Spec
=============================================================================
