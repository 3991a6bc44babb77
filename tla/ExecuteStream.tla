--------------------------- MODULE ExecuteStream ---------------------------
(***************************************************************************)
(* One query: execute_receiver on the client's side, the detached worker   *)
(* thread that runs execute_sql_to_channel and stream_result_sets, the     *)
(* bounded channel between them, and the stream or fetch_optional future   *)
(* through which the client reads the channel.                             *)
(*                                                                         *)
(* What the driver answers is a script, one entry per channel item it      *)
(* gives rise to: "row" for a row, "end" for the end of a result set with  *)
(* columns, "nocols" for a result without columns, or "count" for a first  *)
(* result that opens no cursor.                                            *)
(***************************************************************************)
EXTENDS Naturals, Sequences

CONSTANTS
  Scripts,    \* the driver answers to consider
  Capacity,   \* bound of the channel (64 in execute_receiver)
  BatchSize   \* OdbcBufferSettings::batch_size, asserted positive

\* A cursor is opened on a result with columns, and its rows are followed by
\* the end of their result set.
IsScript(s) ==
  /\ s \in Seq({"row", "end", "nocols", "count"})
  /\ s # <<>> /\ s[1] # "nocols" /\ s[Len(s)] # "row"
  /\ \A i \in 1..Len(s) : s[i] = "count" => i = 1
  /\ \A i \in 1..(Len(s) - 1) : s[i] = "row" => s[i + 1] # "nocols"

ASSUME ScriptsAssumption == \A s \in Scripts : IsScript(s)
ASSUME CapacityAssumption == Capacity \in Nat \ {0}
ASSUME BatchSizeAssumption == BatchSize \in Nat \ {0}

VARIABLES
  query,      \* what is executed and how it is read; never changes
  pc,         \* control state of the worker
  pos,        \* script entries the worker is past
  batch,      \* rows fetched and converted, not yet sent
  owns,       \* the worker holds the statement (lock or allocation)
  chan,       \* the channel
  rx,         \* the client's end of it: "open", "ended" or "dropped"
  received    \* items the client received

workerVars == <<pos, batch, owns>>
clientVars == <<rx, received>>
vars == <<query, pc, workerVars, chan, clientVars>>

\* unmapped: the client is AnyConnection, and the rows have a column of a type
\* for which AnyTypeInfo has no kind.
Queries ==
  [script: Scripts, prepared: BOOLEAN, buffered: BOOLEAN, optional: BOOLEAN,
   unmapped: BOOLEAN]

script == query.script
RowSet == IF query.buffered THEN BatchSize ELSE 1

ItemAt(i) == [kind |-> script[i], at |-> i]
Err == [kind |-> "err", at |-> 0]

Init ==
  /\ query \in Queries
  /\ pc = "call"
  /\ pos = 0 /\ batch = 0 /\ owns = FALSE
  /\ chan = <<>>
  /\ rx = "open" /\ received = <<>>

-----------------------------------------------------------------------------
(* Sending: a full channel blocks the sender while the receiver lives; a   *)
(* send to a dropped receiver returns an error.                            *)

\* Mutant: an unbounded channel.
SentUnbounded(item) == rx = "open" /\ chan' = Append(chan, item)

\* Mutant: try_send, losing the item when the channel is full.
SentOrLost(item) ==
  /\ rx = "open"
  /\ chan' = IF Len(chan) < Capacity THEN Append(chan, item) ELSE chan

Sent(item) == rx = "open" /\ Len(chan) < Capacity /\ chan' = Append(chan, item)

\* Mutant: the worker keeps a receiver alive, so a send never fails.
NeverRefused == FALSE

Refused == rx # "open" /\ UNCHANGED chan

-----------------------------------------------------------------------------
(* execute_receiver: prepare on the client's thread, then detach a worker. *)

ExecuteReceiver ==
  /\ pc = "call"
  /\ \/ pc' = (IF query.prepared THEN "lock" ELSE "alloc") /\ UNCHANGED chan
     \/ /\ chan' = <<Err>>        \* encoding or preparing failed: no worker
        /\ pc' = "exit"
  /\ UNCHANGED <<query, workerVars, clientVars>>

-----------------------------------------------------------------------------
(* The worker.                                                             *)

Goto(next) == pc' = next

\* Lock the cached statement, or allocate one.
Acquire ==
  /\ pc \in {"lock", "alloc"}
  /\ owns' = TRUE
  /\ Goto("execute")
  /\ UNCHANGED <<query, pos, batch, chan, clientVars>>

Execute ==
  /\ pc = "execute"
  /\ Goto(IF script[1] = "count" THEN "count" ELSE "head")
  /\ UNCHANGED <<query, workerVars, chan, clientVars>>

\* row_count, then send_rows_affected.
Count ==
  /\ pc = "count"
  /\ Goto("sendCount")
  /\ UNCHANGED <<query, workerVars, chan, clientVars>>

\* send_done ignores whether the receiver is still there.
SendDone(from, next) ==
  /\ pc = from
  /\ Sent(ItemAt(pos + 1)) \/ Refused
  /\ pos' = pos + 1
  /\ Goto(next)
  /\ UNCHANGED <<query, batch, owns, clientVars>>

SendCount == SendDone("sendCount", "close")

\* The top of the loop of stream_result_sets.
LoopHead ==
  /\ pc = "head"
  /\ Goto(IF script[pos + 1] = "nocols" THEN "sendNoCols" ELSE "bind")
  /\ UNCHANGED <<query, workerVars, chan, clientVars>>

SendNoCols == SendDone("sendNoCols", "more")

\* collect_columns, and bind_buffer in buffered mode.
Bind ==
  /\ pc = "bind"
  /\ Goto("fetch")
  /\ UNCHANGED <<query, workerVars, chan, clientVars>>

\* One row, or one row set of up to batch_size rows: all of its values are
\* converted before any of its rows is sent.
Fetch ==
  /\ pc = "fetch"
  /\ \/ \E n \in 1..RowSet :
          /\ pos + n < Len(script)
          /\ \A i \in (pos + 1)..(pos + n) : script[i] = "row"
          /\ n < RowSet => script[pos + n + 1] # "row"
          /\ batch' = n
          /\ Goto("send")
     \/ script[pos + 1] = "end" /\ Goto("sendEnd") /\ UNCHANGED batch
  /\ UNCHANGED <<query, pos, owns, chan, clientVars>>

\* Mutant: the result of send_row is ignored like that of send_done.
SendRowIgnoringResult ==
  /\ pc = "send"
  /\ Sent(ItemAt(pos + 1)) \/ Refused
  /\ pos' = pos + 1
  /\ batch' = batch - 1
  /\ Goto(IF batch = 1 THEN "fetch" ELSE "send")
  /\ UNCHANGED <<query, owns, clientVars>>

SendRow ==
  /\ pc = "send"
  /\ \/ /\ Sent(ItemAt(pos + 1))
        /\ pos' = pos + 1
        /\ batch' = batch - 1
        /\ Goto(IF batch = 1 THEN "fetch" ELSE "send")
     \/ /\ Refused
        /\ batch' = 0
        /\ Goto(IF query.buffered THEN "unbindClosed" ELSE "close")
        /\ UNCHANGED pos
  /\ UNCHANGED <<query, owns, clientVars>>

SendEnd == SendDone("sendEnd", IF query.buffered THEN "unbind" ELSE "more")

\* Unbind after the last row, or after a refused row.
Unbind ==
  /\ pc \in {"unbind", "unbindClosed"}
  /\ Goto(IF pc = "unbind" THEN "more" ELSE "close")
  /\ UNCHANGED <<query, workerVars, chan, clientVars>>

\* Mutant: only the first result set is streamed.
FirstResultOnly ==
  /\ pc = "more"
  /\ Goto("close")
  /\ UNCHANGED <<query, workerVars, chan, clientVars>>

MoreResults ==
  /\ pc = "more"
  /\ Goto(IF pos < Len(script) THEN "head" ELSE "close")
  /\ UNCHANGED <<query, workerVars, chan, clientVars>>

\* Any driver call, conversion or lock may fail: the ? operator leaves
\* execute_sql_to_channel.
FalliblePoints ==
  {"lock", "alloc", "execute", "count", "head", "bind", "fetch",
   "unbind", "unbindClosed", "more"}

\* Mutant: an error ends the worker without being sent.
CallFailsSilently ==
  /\ pc \in FalliblePoints
  /\ Goto("close")
  /\ UNCHANGED <<query, workerVars, chan, clientVars>>

CallFails ==
  /\ pc \in FalliblePoints
  /\ Goto("fail")
  /\ UNCHANGED <<query, workerVars, chan, clientVars>>

\* Mutant: the error is sent while the statement is still locked.
ReturnHoldingStatement ==
  /\ pc \in {"close", "fail"}
  /\ owns' = (pc = "fail")
  /\ batch' = 0
  /\ Goto(IF pc = "fail" THEN "sendErr" ELSE "dropTx")
  /\ UNCHANGED <<query, pos, chan, clientVars>>

\* execute_sql_to_channel returns: cursor closed, statement released.
Return ==
  /\ pc \in {"close", "fail"}
  /\ owns' = FALSE
  /\ batch' = 0
  /\ Goto(IF pc = "fail" THEN "sendErr" ELSE "dropTx")
  /\ UNCHANGED <<query, pos, chan, clientVars>>

SendErr ==
  /\ pc = "sendErr"
  /\ Sent(Err) \/ Refused
  /\ Goto("dropTx")
  /\ UNCHANGED <<query, workerVars, clientVars>>

\* Mutant: a copy of the sender outlives the worker.
SenderKept == FALSE

DropSender ==
  /\ pc = "dropTx"
  /\ Goto("exit")
  /\ UNCHANGED <<query, workerVars, chan, clientVars>>

Worker ==
  \/ Acquire \/ Execute \/ Count \/ SendCount
  \/ LoopHead \/ SendNoCols \/ Bind \/ Fetch \/ SendRow \/ SendEnd
  \/ Unbind \/ MoreResults
  \/ CallFails \/ Return \/ SendErr \/ DropSender

-----------------------------------------------------------------------------
(* The client.                                                             *)

\* Mutant: fetch_optional skips errors like query results.
LeavesAtRowOnly(item) == query.optional /\ item.kind = "row"

\* fetch_optional returns at the first row or error, dropping the receiver;
\* the stream of fetch_many goes on.
Leaves(item) == query.optional /\ item.kind \in {"row", "err"}

\* What the client sees of an item: AnyRow::map_from fails for a row without a
\* mapping, and the stream goes on behind that error.
Delivered(item) ==
  IF query.unmapped /\ item.kind = "row" THEN [kind |-> "unmapped", at |-> item.at]
                                         ELSE item

Receive ==
  /\ rx = "open" /\ chan # <<>>
  /\ received' = Append(received, Delivered(Head(chan)))
  /\ IF Leaves(Head(chan))
       THEN rx' = "dropped" /\ chan' = <<>>
       ELSE UNCHANGED rx /\ chan' = Tail(chan)
  /\ UNCHANGED <<query, pc, workerVars>>

\* The sender is gone and the channel drained: the stream ends, and
\* fetch_optional returns None.
EndOfStream ==
  /\ rx = "open" /\ chan = <<>> /\ pc = "exit"
  /\ rx' = "ended"
  /\ UNCHANGED <<query, pc, workerVars, chan, received>>

DropReceiver ==
  /\ rx = "open" /\ pc # "call"
  /\ rx' = "dropped"
  /\ chan' = <<>>
  /\ UNCHANGED <<query, pc, workerVars, received>>

\* Nothing is left to do.
Done ==
  /\ pc = "exit" /\ rx # "open"
  /\ UNCHANGED vars

Next ==
  \/ ExecuteReceiver \/ Worker
  \/ Receive \/ EndOfStream \/ DropReceiver
  \/ Done

Spec == Init /\ [][Next]_vars

\* A thread is scheduled and every driver call returns; the client promises
\* nothing.
LiveSpec == Spec /\ WF_vars(ExecuteReceiver \/ Worker)

-----------------------------------------------------------------------------
(* Properties.                                                             *)

States ==
  {"call", "lock", "alloc", "execute", "count", "sendCount", "head",
   "sendNoCols", "bind", "fetch", "send", "sendEnd", "unbind", "unbindClosed",
   "more", "close", "fail", "sendErr", "dropTx", "exit"}

Item == {ItemAt(i) : i \in 1..Len(script)} \cup {Err}

Deliverable == {Delivered(item) : item \in Item}

\* What the code makes of the driver's answer: a first result without a cursor
\* ends the execution, and further results are never asked for.
Answered == IF script[1] = "count" THEN 1 ELSE Len(script)

\* Every variable has its type; the channel never exceeds its bound.
TypeOK ==
  /\ query \in Queries
  /\ pc \in States
  /\ pos \in 0..Len(script)
  /\ batch \in 0..BatchSize
  /\ owns \in BOOLEAN
  /\ chan \in Seq(Item) /\ Len(chan) <= Capacity
  /\ rx \in {"open", "ended", "dropped"}
  /\ received \in Seq(Deliverable)

Failed == received # <<>> /\ received[Len(received)] = Err

\* The client gets the items of the results in order, each once, and nothing
\* after an error of the worker, through batches, blocked sends and refused
\* ones; a row that cannot be mapped is an error in its place and no more.
InOrder ==
  \A i \in 1..Len(received) :
    \/ i <= Answered /\ received[i] = Delivered(ItemAt(i))
    \/ i = Len(received) /\ received[i] = Err

\* The channel closes in the same way after an error, after the last item and
\* after a worker gave up: an end without an error still means completeness,
\* up to what follows a first result without a cursor.
NoSilentTruncation ==
  rx = "ended" => Failed \/ Len(received) = Answered

\* A client that saw the end of its stream, or an error, may use the
\* connection: the cursor is closed and the statement lock is free.
EndMeansReleased == rx = "ended" \/ Failed => ~owns

\* fetch_optional returns None only for a query without any row in any of
\* the result sets it looks at, never in place of an error.
NoneMeansNoRow ==
  query.optional /\ rx = "ended" => \A i \in 1..Answered : script[i] # "row"

\* Once the receiver is dropped the worker passes no further row: it leaves
\* a large result instead of draining it.
AbandonedRowsNotRead ==
  [][rx = "dropped" /\ pos' > pos => script[pos'] # "row"]_vars

\* A worker never hangs, except on a full channel whose client neither reads
\* nor drops it.
WorkerFinishesUnlessHeld ==
  []<>(pc = "exit" \/ (rx = "open" /\ Len(chan) = Capacity))

\* Dropping the stream is enough to get the statement back, also when the
\* worker was blocked on the full channel.
DropReleases == rx = "dropped" ~> pc = "exit" /\ ~owns

\* A client that keeps polling gets to the end of its stream (or drops it).
PollingEnds == WF_vars(Receive \/ EndOfStream) => <>(rx # "open")

-----------------------------------------------------------------------------

Stream == INSTANCE RowStream
            WITH output    <- [i \in 1..Answered |-> Delivered(ItemAt(i))],
                 delivered <- received,
                 status    <- rx,
                 busy      <- pc \notin {"sendErr", "dropTx", "exit"}

\* The channel, the worker and the client together implement RowStream.
ImplementsRowStream == Stream!Spec
=============================================================================
