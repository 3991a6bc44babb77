------------------------ MODULE ExecuteStreamProofs ------------------------
(***************************************************************************)
(* The safety properties of ExecuteStream, and that it implements          *)
(* RowStream, for all driver answers, channel bounds and batch sizes.      *)
(***************************************************************************)
EXTENDS ExecuteStream, ExecutionSteps, WellFoundedInduction, TLAPS

-----------------------------------------------------------------------------
(* The inductive invariant.                                                *)

\* Where the worker owns the statement.
Holding ==
  {"execute", "count", "sendCount", "head", "sendNoCols", "bind", "fetch",
   "send", "sendEnd", "unbind", "unbindClosed", "more", "close", "fail"}

\* Where it walks over result sets, a first one with a cursor.
Streaming ==
  {"head", "sendNoCols", "bind", "fetch", "send", "sendEnd", "unbind",
   "unbindClosed", "more"}

\* What each control state knows of the position in the script.
ControlInv ==
  /\ owns => pc \in Holding
  /\ pc \in {"call", "lock", "alloc", "execute", "count", "sendCount"} => pos = 0
  /\ pc \in {"count", "sendCount"} => script[1] = "count"
  /\ pc \in Streaming => script[1] # "count"
  /\ pc = "sendNoCols" => script[pos + 1] = "nocols"
  /\ pc = "sendEnd" => script[pos + 1] = "end"
  /\ pos <= Answered
  /\ pc \in {"sendNoCols", "head", "bind", "fetch", "sendEnd"} => pos < Len(script)
  /\ pc = "send" => batch >= 1 /\ pos + batch < Len(script)
  /\ pc = "unbindClosed" => rx = "dropped"
  /\ rx = "ended" => pc = "exit"

\* The i-th item put into the channel: beyond pos only the error remains.
Expected(i) == IF i <= pos THEN ItemAt(i) ELSE Err

\* While the receiver lives, what was received and what is in the channel are
\* together the items sent so far.
ChannelInv ==
  rx # "dropped" =>
    /\ \/ Len(received) + Len(chan) = pos
       \/ Len(received) + Len(chan) = pos + 1 /\ pc \in {"dropTx", "exit"}
    /\ \A i \in 1..Len(received) : received[i] = Delivered(Expected(i))
    /\ \A j \in 1..Len(chan) : chan[j] = Expected(Len(received) + j)

\* A worker gets to its end without an error only past all that is answered.
CompleteInv ==
  /\ pc \in {"close", "dropTx", "exit"} /\ rx # "dropped" =>
       pos = Answered \/ Len(received) + Len(chan) = pos + 1
  /\ rx = "ended" => chan = <<>>

\* What stays true of the received items after the receiver is dropped.
ReceivedInv ==
  /\ InOrder
  /\ Failed => pc \in {"dropTx", "exit"}
  /\ query.optional /\ rx # "dropped" =>
       \A i \in 1..Len(received) : received[i].kind \notin {"row", "unmapped", "err"}

IInv == TypeOK /\ ControlInv /\ ChannelInv /\ CompleteInv /\ ReceivedInv

-----------------------------------------------------------------------------

LEMMA QueryFixed == ASSUME [Next]_vars PROVE query' = query
<1>1. CASE ExecuteReceiver
  BY <1>1 DEF ExecuteReceiver, Goto
<1>2. CASE Acquire
  BY <1>2 DEF Acquire, Goto
<1>3. CASE Execute
  BY <1>3 DEF Execute, Goto
<1>4. CASE Count
  BY <1>4 DEF Count, Goto
<1>5. CASE SendCount
  BY <1>5 DEF SendCount, SendDone, Sent, Refused, Goto
<1>6. CASE LoopHead
  BY <1>6 DEF LoopHead, Goto
<1>7. CASE SendNoCols
  BY <1>7 DEF SendNoCols, SendDone, Sent, Refused, Goto
<1>8. CASE Bind
  BY <1>8 DEF Bind, Goto
<1>9. CASE Fetch
  BY <1>9 DEF Fetch, Goto
<1>10. CASE SendRow
  BY <1>10 DEF SendRow, Sent, Refused, Goto
<1>11. CASE SendEnd
  BY <1>11 DEF SendEnd, SendDone, Sent, Refused, Goto
<1>12. CASE Unbind
  BY <1>12 DEF Unbind, Goto
<1>13. CASE MoreResults
  BY <1>13 DEF MoreResults, Goto
<1>14. CASE CallFails
  BY <1>14 DEF CallFails, FalliblePoints, Goto
<1>15. CASE Return
  BY <1>15 DEF Return, Goto
<1>16. CASE SendErr
  BY <1>16 DEF SendErr, Sent, Refused, Goto
<1>17. CASE DropSender
  BY <1>17 DEF DropSender, Goto
<1>18. CASE Receive
  BY <1>18 DEF Receive, Leaves
<1>19. CASE EndOfStream
  BY <1>19 DEF EndOfStream
<1>20. CASE DropReceiver
  BY <1>20 DEF DropReceiver
<1>21. CASE Done
  BY <1>21 DEF Done, vars
<1>22. CASE UNCHANGED vars
  BY <1>22 DEF vars
<1> QED
  BY <1>1, <1>2, <1>3, <1>4, <1>5, <1>6, <1>7, <1>8, <1>9, <1>10, <1>11,
     <1>12, <1>13, <1>14, <1>15, <1>16, <1>17, <1>18, <1>19, <1>20, <1>21, <1>22
     DEF Next, Worker

LEMMA ScriptFacts ==
  ASSUME TypeOK
  PROVE  IsScript(script) /\ Len(script) \in Nat \ {0} /\ RowSet \in 1..BatchSize
BY ScriptsAssumption, BatchSizeAssumption
   DEF TypeOK, Queries, script, IsScript, RowSet

\* Items of the script are never taken for the error.
LEMMA ItemFacts ==
  ASSUME TypeOK
  PROVE  /\ \A i \in 1..Len(script) : ItemAt(i) \in Item /\ ItemAt(i) # Err
         /\ Err \in Item
<1>1. \A i \in 1..Len(script) : script[i] # "err"
  BY ScriptFacts DEF IsScript
<1>2. QED
  BY <1>1 DEF Item, ItemAt, Err

LEMMA AnsweredFacts ==
  ASSUME TypeOK
  PROVE  Answered \in 1..Len(script)
BY ScriptFacts DEF Answered

\* Mapping a row neither makes nor hides an error of the worker.
LEMMA DeliveredFacts ==
  ASSUME TypeOK
  PROVE  /\ Delivered(Err) = Err
         /\ \A i \in 1..Len(script) : Delivered(ItemAt(i)) # Err
         /\ \A item \in Item : item.kind \notin {"row", "err"} => Delivered(item) = item
<1>1. \A i \in 1..Len(script) : ItemAt(i) # Err
  BY ItemFacts
<1>2. \A item : Delivered(item) # item => Delivered(item).kind = "unmapped"
  BY DEF Delivered
<1>3. Err.kind = "err"
  BY DEF Err
<1>4. Delivered(Err) = Err
  BY <1>3 DEF Delivered
<1>5. \A i \in 1..Len(script) : Delivered(ItemAt(i)) # Err
  BY <1>1, <1>2, <1>3
<1>6. \A item \in Item : item.kind \notin {"row", "err"} => Delivered(item) = item
  BY DEF Delivered
<1> QED
  BY <1>4, <1>5, <1>6

\* What a send that got through does to the channel.
LEMMA SentFacts ==
  ASSUME TypeOK, NEW item, Sent(item)
  PROVE  /\ rx = "open" /\ Len(chan) \in Nat /\ Len(chan') = Len(chan) + 1
         /\ chan'[Len(chan) + 1] = item
         /\ \A j \in 1..Len(chan) : chan'[j] = chan[j]
BY DEF TypeOK, Sent

\* What taking the first item does to the channel and to the received items.
LEMMA TakenFacts ==
  ASSUME TypeOK, chan # <<>>, chan' = Tail(chan),
         received' = Append(received, Delivered(Head(chan)))
  PROVE  /\ Len(chan) \in Nat /\ Len(received) \in Nat
         /\ Len(chan') = Len(chan) - 1 /\ Len(received') = Len(received) + 1
         /\ \A j \in 1..Len(chan') : chan'[j] = chan[j + 1]
         /\ \A i \in 1..Len(received) : received'[i] = received[i]
         /\ received'[Len(received) + 1] = Delivered(chan[1])
BY DEF TypeOK

LEMMA ControlStep ==
  ASSUME TypeOK, ControlInv, ChannelInv, CompleteInv, [Next]_vars
  PROVE  ControlInv'
<1> USE DEF ControlInv, Holding, Streaming, workerVars, clientVars
<1>a. IsScript(script) /\ Len(script) \in Nat \ {0} /\ RowSet \in 1..BatchSize
  BY ScriptFacts
<1>b. query' = query /\ script' = script /\ Answered' = Answered
  BY QueryFixed DEF script, Answered
<1>c. /\ Answered \in Nat
      /\ script[1] = "count" => Answered = 1
      /\ script[1] # "count" => Answered = Len(script)
  BY AnsweredFacts DEF Answered
<1>d. pos \in 0..Len(script) /\ batch \in 0..BatchSize /\ pc \in States
  BY DEF TypeOK
<1> USE <1>b, <1>c, <1>d
<1>1. CASE ExecuteReceiver
  BY <1>1 DEF ExecuteReceiver, Goto
<1>2. CASE Acquire
  BY <1>2 DEF Acquire, Goto
<1>3. CASE Execute
  BY <1>3, <1>a DEF Execute, Goto, IsScript
<1>4. CASE Count
  BY <1>4 DEF Count, Goto
<1>5. CASE SendCount
  BY <1>5 DEF SendCount, SendDone, Sent, Refused, Goto
<1>6. CASE LoopHead
  BY <1>6 DEF LoopHead, Goto
<1>7. CASE SendNoCols
  BY <1>7 DEF SendNoCols, SendDone, Sent, Refused, Goto
<1>8. CASE Bind
  BY <1>8 DEF Bind, Goto
<1>9. CASE Fetch
  BY <1>9, <1>a DEF Fetch, Goto, IsScript
<1>10. CASE SendRow
  <2>1. pc = "send" /\ owns' = owns /\ rx' = rx /\ batch >= 1 /\ pos + batch < Len(script)
    BY <1>10 DEF SendRow
  <2>2. CASE Sent(ItemAt(pos + 1)) /\ pos' = pos + 1 /\ batch' = batch - 1
             /\ pc' = IF batch = 1 THEN "fetch" ELSE "send"
    BY <2>1, <2>2, <1>a
  <2>3. CASE Refused /\ pos' = pos /\ pc' = IF query.buffered THEN "unbindClosed" ELSE "close"
    <3>1. rx = "dropped"
      BY <2>1, <2>3 DEF Refused, TypeOK
    <3>2. QED
      BY <2>1, <2>3, <3>1, <1>a
  <2>4. QED
    BY <1>10, <2>2, <2>3 DEF SendRow, Goto
<1>11. CASE SendEnd
  BY <1>11 DEF SendEnd, SendDone, Sent, Refused, Goto
<1>12. CASE Unbind
  BY <1>12 DEF Unbind, Goto
<1>13. CASE MoreResults
  BY <1>13 DEF MoreResults, Goto
<1>14. CASE CallFails
  BY <1>14 DEF CallFails, FalliblePoints, Goto
<1>15. CASE Return
  BY <1>15 DEF Return, Goto
<1>16. CASE SendErr
  BY <1>16 DEF SendErr, Sent, Refused, Goto
<1>17. CASE DropSender
  BY <1>17 DEF DropSender, Goto
<1>18. CASE Receive
  BY <1>18 DEF Receive, Leaves
<1>19. CASE EndOfStream
  BY <1>19 DEF EndOfStream
<1>20. CASE DropReceiver
  BY <1>20 DEF DropReceiver
<1>21. CASE Done
  BY <1>21 DEF Done, vars
<1>22. CASE UNCHANGED vars
  BY <1>22 DEF vars
<1> QED
  BY <1>1, <1>2, <1>3, <1>4, <1>5, <1>6, <1>7, <1>8, <1>9, <1>10, <1>11,
     <1>12, <1>13, <1>14, <1>15, <1>16, <1>17, <1>18, <1>19, <1>20, <1>21, <1>22
     DEF Next, Worker

LEMMA TypeStep ==
  ASSUME TypeOK, ControlInv, [Next]_vars
  PROVE  TypeOK'
<1> USE CapacityAssumption, BatchSizeAssumption DEF TypeOK, States, workerVars, clientVars
<1>a. IsScript(script) /\ Len(script) \in Nat \ {0} /\ RowSet \in 1..BatchSize
  BY ScriptFacts
<1>b. query' = query /\ script' = script
  BY QueryFixed DEF script
<1>c. Item' = Item /\ Deliverable' = Deliverable
  BY <1>b DEF Item, ItemAt, Delivered, Deliverable
<1>d. \A i \in 1..Len(script) : ItemAt(i) \in Item
  BY ItemFacts
<1>e. Err \in Item
  BY ItemFacts
<1> USE <1>a, <1>b, <1>c
<1>1. CASE ExecuteReceiver
  <2>1. chan' \in Seq(Item) /\ Len(chan') <= Capacity
    <3>1. CASE chan' = <<Err>>
      BY <3>1, <1>e
    <3>2. CASE chan' = chan
      BY <3>2
    <3> QED
      BY <1>1, <3>1, <3>2 DEF ExecuteReceiver
  <2> QED
    BY <1>1, <2>1 DEF ExecuteReceiver, Goto
<1>2. CASE Acquire
  BY <1>2 DEF Acquire, Goto
<1>3. CASE Execute
  BY <1>3 DEF Execute, Goto
<1>4. CASE Count
  BY <1>4 DEF Count, Goto
<1>5. CASE SendCount
  <2>1. pos < Len(script) /\ pos + 1 \in 1..Len(script)
    BY <1>5 DEF ControlInv, SendCount, SendDone
  <2>2. ItemAt(pos + 1) \in Item
    BY <2>1, <1>d
  <2>3. chan' \in Seq(Item) /\ Len(chan') <= Capacity
    BY <1>5, <2>2 DEF SendCount, SendDone, Sent, Refused
  <2> QED
    BY <1>5, <2>1, <2>3 DEF SendCount, SendDone, Goto
<1>6. CASE LoopHead
  BY <1>6 DEF LoopHead, Goto
<1>7. CASE SendNoCols
  <2>1. pos < Len(script) /\ pos + 1 \in 1..Len(script)
    BY <1>7 DEF ControlInv, SendNoCols, SendDone
  <2>2. ItemAt(pos + 1) \in Item
    BY <2>1, <1>d
  <2>3. chan' \in Seq(Item) /\ Len(chan') <= Capacity
    BY <1>7, <2>2 DEF SendNoCols, SendDone, Sent, Refused
  <2> QED
    BY <1>7, <2>1, <2>3 DEF SendNoCols, SendDone, Goto
<1>8. CASE Bind
  BY <1>8 DEF Bind, Goto
<1>9. CASE Fetch
  BY <1>9 DEF Fetch, Goto
<1>10. CASE SendRow
  <2>1. pos < Len(script) /\ pos + 1 \in 1..Len(script) /\ batch >= 1
    BY <1>10 DEF ControlInv, SendRow
  <2>2. ItemAt(pos + 1) \in Item
    BY <2>1, <1>d
  <2>3. CASE Sent(ItemAt(pos + 1)) /\ pos' = pos + 1 /\ batch' = batch - 1
             /\ pc' = IF batch = 1 THEN "fetch" ELSE "send"
    <3>1. chan' \in Seq(Item) /\ Len(chan') <= Capacity
      BY <2>2, <2>3 DEF Sent
    <3>2. pos' \in 0..Len(script) /\ batch' \in 0..BatchSize /\ pc' \in States
      BY <2>1, <2>3
    <3> QED
      BY <1>10, <3>1, <3>2 DEF SendRow
  <2>4. CASE Refused /\ batch' = 0 /\ pos' = pos
             /\ pc' = IF query.buffered THEN "unbindClosed" ELSE "close"
    BY <1>10, <2>4 DEF SendRow, Refused
  <2> QED
    BY <1>10, <2>3, <2>4 DEF SendRow, Goto
<1>11. CASE SendEnd
  <2>1. pos < Len(script) /\ pos + 1 \in 1..Len(script)
    BY <1>11 DEF ControlInv, SendEnd, SendDone
  <2>2. ItemAt(pos + 1) \in Item
    BY <2>1, <1>d
  <2>3. chan' \in Seq(Item) /\ Len(chan') <= Capacity
    BY <1>11, <2>2 DEF SendEnd, SendDone, Sent, Refused
  <2> QED
    BY <1>11, <2>1, <2>3 DEF SendEnd, SendDone, Goto
<1>12. CASE Unbind
  BY <1>12 DEF Unbind, Goto
<1>13. CASE MoreResults
  BY <1>13 DEF MoreResults, Goto
<1>14. CASE CallFails
  BY <1>14 DEF CallFails, FalliblePoints, Goto
<1>15. CASE Return
  <2>1. pc' \in States
    BY <1>15 DEF Return, Goto
  <2>2. batch' \in 0..BatchSize
    BY <1>15 DEF Return
  <2>3. owns' \in BOOLEAN
    BY <1>15 DEF Return
  <2> QED
    BY <1>15, <2>1, <2>2, <2>3 DEF Return
<1>16. CASE SendErr
  <2>1. chan' \in Seq(Item) /\ Len(chan') <= Capacity
    BY <1>16, <1>e DEF SendErr, Sent, Refused
  <2> QED
    BY <1>16, <2>1 DEF SendErr, Goto
<1>17. CASE DropSender
  BY <1>17 DEF DropSender, Goto
<1>18. CASE Receive
  <2>1. Head(chan) \in Item /\ Tail(chan) \in Seq(Item) /\ Len(Tail(chan)) <= Capacity
    BY <1>18 DEF Receive
  <2>2. received' \in Seq(Deliverable)
    <3>1. Delivered(Head(chan)) \in Deliverable
      BY <2>1 DEF Deliverable
    <3> QED
      BY <1>18, <3>1 DEF Receive
  <2>3. CASE Leaves(Head(chan))
    <3>1. rx' = "dropped" /\ chan' = <<>> /\ UNCHANGED <<query, pc, pos, batch, owns>>
      BY <1>18, <2>3 DEF Receive
    <3> QED
      BY <2>2, <3>1
  <2>4. CASE ~Leaves(Head(chan))
    <3>1. chan' = Tail(chan) /\ UNCHANGED <<rx, query, pc, pos, batch, owns>>
      BY <1>18, <2>4 DEF Receive
    <3> QED
      BY <2>1, <2>2, <3>1
  <2> QED
    BY <2>3, <2>4
<1>19. CASE EndOfStream
  BY <1>19 DEF EndOfStream
<1>20. CASE DropReceiver
  BY <1>20 DEF DropReceiver
<1>21. CASE Done
  BY <1>21 DEF Done, vars
<1>22. CASE UNCHANGED vars
  BY <1>22 DEF vars
<1> QED
  BY <1>1, <1>2, <1>3, <1>4, <1>5, <1>6, <1>7, <1>8, <1>9, <1>10, <1>11,
     <1>12, <1>13, <1>14, <1>15, <1>16, <1>17, <1>18, <1>19, <1>20, <1>21, <1>22
     DEF Next, Worker

\* Sending the next item of the script, or the error instead of it, extends
\* the items sent so far.
LEMMA SentKeepsChannel ==
  ASSUME TypeOK, ChannelInv, pc \notin {"dropTx", "exit"}, NEW item, Sent(item),
         UNCHANGED <<query, rx, received>>,
         \/ item = ItemAt(pos + 1) /\ pos' = pos + 1
         \/ item = Err /\ pos' = pos /\ pc' = "dropTx"
  PROVE  ChannelInv'
<1>1. /\ rx = "open" /\ Len(chan) \in Nat /\ Len(chan') = Len(chan) + 1
      /\ chan'[Len(chan) + 1] = item
      /\ \A j \in 1..Len(chan) : chan'[j] = chan[j]
  BY SentFacts
<1>2. pos \in Nat /\ Len(received) \in Nat /\ Len(received) + Len(chan) = pos
  BY <1>1 DEF TypeOK, ChannelInv
<1>a. \A i : ItemAt(i)' = ItemAt(i)
  BY DEF ItemAt, script
<1>3. \A i \in 1..pos : Expected(i)' = Expected(i)
  BY <1>2, <1>a DEF Expected
<1>4. \A i \in Nat : i = pos + 1 => Expected(i)' = item
  BY <1>2, <1>a DEF Expected
<1>5. \A i \in 1..Len(received') : received'[i] = Delivered(Expected(i))'
  BY <1>1, <1>2, <1>3 DEF ChannelInv, Delivered
<1>6. \A j \in 1..Len(chan') : chan'[j] = Expected(Len(received) + j)'
  <2> SUFFICES ASSUME NEW j \in 1..Len(chan')
               PROVE  chan'[j] = Expected(Len(received) + j)'
    OBVIOUS
  <2>1. CASE j <= Len(chan)
    <3>1. Len(received) + j \in 1..pos /\ j \in 1..Len(chan)
      BY <1>1, <1>2, <2>1
    <3>2. chan'[j] = chan[j] /\ chan[j] = Expected(Len(received) + j)
      BY <1>1, <3>1 DEF ChannelInv
    <3> QED
      BY <1>3, <3>1, <3>2
  <2>2. CASE j = Len(chan) + 1
    <3>1. Len(received) + j = pos + 1 /\ Len(received) + j \in Nat
      BY <1>1, <1>2, <2>2
    <3> QED
      BY <1>1, <1>4, <2>2, <3>1
  <2> QED
    BY <1>1, <2>1, <2>2
<1>7. \/ Len(received') + Len(chan') = pos'
      \/ Len(received') + Len(chan') = pos' + 1 /\ pc' \in {"dropTx", "exit"}
  BY <1>1, <1>2
<1> QED
  BY <1>5, <1>6, <1>7 DEF ChannelInv

LEMMA ChannelStep ==
  ASSUME TypeOK, ControlInv, ChannelInv, [Next]_vars
  PROVE  ChannelInv'
<1> USE DEF ChannelInv, workerVars, clientVars
<1>a. query' = query /\ script' = script /\ \A i : ItemAt(i)' = ItemAt(i)
  BY QueryFixed DEF script, ItemAt
<1>d. \A item : Delivered(item)' = Delivered(item)
  BY <1>a DEF Delivered
<1>b. /\ pos \in Nat /\ chan \in Seq(Item) /\ Len(received) \in Nat
      /\ rx \in {"open", "ended", "dropped"} /\ pc \in States
  BY DEF TypeOK
<1>c. rx = "ended" => pc = "exit"
  BY DEF ControlInv
<1> USE <1>a, <1>b, <1>c, <1>d DEF Expected
<1>1. CASE ExecuteReceiver
  <2>1. pos = 0 /\ pos' = pos /\ UNCHANGED <<rx, received>> /\ pc = "call"
    BY <1>1 DEF ExecuteReceiver, ControlInv
  <2>2. CASE chan' = chan
    BY <2>1, <2>2
  <2>3. CASE chan' = <<Err>> /\ pc' = "exit"
    BY <2>1, <2>3
  <2> QED
    BY <1>1, <2>2, <2>3 DEF ExecuteReceiver
<1>2. CASE Acquire
  BY <1>2 DEF Acquire, Goto
<1>3. CASE Execute
  BY <1>3 DEF Execute, Goto
<1>4. CASE Count
  BY <1>4 DEF Count, Goto
<1>5. CASE SendCount
  <2>1. pc \notin {"dropTx", "exit"} /\ pos' = pos + 1 /\ UNCHANGED <<rx, received>>
    BY <1>5 DEF SendCount, SendDone
  <2>2. CASE Sent(ItemAt(pos + 1))
    BY <2>1, <2>2, SentKeepsChannel
  <2>3. CASE Refused
    BY <2>1, <2>3 DEF Refused
  <2> QED
    BY <1>5, <2>2, <2>3 DEF SendCount, SendDone
<1>6. CASE LoopHead
  BY <1>6 DEF LoopHead, Goto
<1>7. CASE SendNoCols
  <2>1. pc \notin {"dropTx", "exit"} /\ pos' = pos + 1 /\ UNCHANGED <<rx, received>>
    BY <1>7 DEF SendNoCols, SendDone
  <2>2. CASE Sent(ItemAt(pos + 1))
    BY <2>1, <2>2, SentKeepsChannel
  <2>3. CASE Refused
    BY <2>1, <2>3 DEF Refused
  <2> QED
    BY <1>7, <2>2, <2>3 DEF SendNoCols, SendDone
<1>8. CASE Bind
  BY <1>8 DEF Bind, Goto
<1>9. CASE Fetch
  BY <1>9 DEF Fetch, Goto
<1>10. CASE SendRow
  <2>1. pc = "send" /\ UNCHANGED <<rx, received>>
    BY <1>10 DEF SendRow
  <2>2. CASE Sent(ItemAt(pos + 1)) /\ pos' = pos + 1
    BY <2>1, <2>2, SentKeepsChannel
  <2>3. CASE Refused
    BY <2>1, <2>3 DEF Refused
  <2> QED
    BY <1>10, <2>2, <2>3 DEF SendRow
<1>11. CASE SendEnd
  <2>1. pc \notin {"dropTx", "exit"} /\ pos' = pos + 1 /\ UNCHANGED <<rx, received>>
    BY <1>11 DEF SendEnd, SendDone
  <2>2. CASE Sent(ItemAt(pos + 1))
    BY <2>1, <2>2, SentKeepsChannel
  <2>3. CASE Refused
    BY <2>1, <2>3 DEF Refused
  <2> QED
    BY <1>11, <2>2, <2>3 DEF SendEnd, SendDone
<1>12. CASE Unbind
  BY <1>12 DEF Unbind, Goto
<1>13. CASE MoreResults
  BY <1>13 DEF MoreResults, Goto
<1>14. CASE CallFails
  BY <1>14 DEF CallFails, FalliblePoints, Goto
<1>15. CASE Return
  BY <1>15 DEF Return, Goto
<1>16. CASE SendErr
  <2>1. pc = "sendErr" /\ pc' = "dropTx" /\ pos' = pos /\ UNCHANGED <<rx, received>>
    BY <1>16 DEF SendErr, Goto
  <2>2. CASE Sent(Err)
    BY <2>1, <2>2, SentKeepsChannel
  <2>3. CASE Refused
    BY <2>1, <2>3 DEF Refused
  <2> QED
    BY <1>16, <2>2, <2>3 DEF SendErr
<1>17. CASE DropSender
  BY <1>17 DEF DropSender, Goto
<1>18. CASE Receive
  <2>1. CASE Leaves(Head(chan))
    BY <1>18, <2>1 DEF Receive
  <2>2. CASE ~Leaves(Head(chan))
    <3>1. /\ chan # <<>> /\ chan' = Tail(chan) /\ UNCHANGED <<rx, pos, pc>>
          /\ received' = Append(received, Delivered(Head(chan)))
      BY <1>18, <2>2 DEF Receive
    <3>2. rx # "dropped" => Len(received') + Len(chan') = Len(received) + Len(chan)
      BY <3>1, TakenFacts
    <3>3. rx # "dropped" => \A i \in 1..Len(received') : received'[i] = Delivered(Expected(i))
      BY <3>1, TakenFacts
    <3>4. rx # "dropped" => \A j \in 1..Len(chan') : chan'[j] = Expected(Len(received') + j)
      <4> SUFFICES ASSUME rx # "dropped", NEW j \in 1..Len(chan')
                   PROVE  chan'[j] = Expected(Len(received') + j)
        OBVIOUS
      <4>1. j + 1 \in 1..Len(chan) /\ chan'[j] = chan[j + 1]
        BY <3>1, TakenFacts
      <4>2. chan[j + 1] = Expected(Len(received) + (j + 1))
        BY <4>1
      <4>3. Len(received) + (j + 1) = Len(received') + j
        BY <3>1, TakenFacts
      <4> QED
        BY <4>1, <4>2, <4>3
    <3> QED
      BY <3>1, <3>2, <3>3, <3>4
  <2> QED
    BY <2>1, <2>2
<1>19. CASE EndOfStream
  BY <1>19 DEF EndOfStream
<1>20. CASE DropReceiver
  BY <1>20 DEF DropReceiver
<1>21. CASE Done
  BY <1>21 DEF Done, vars
<1>22. CASE UNCHANGED vars
  BY <1>22 DEF vars
<1> QED
  BY <1>1, <1>2, <1>3, <1>4, <1>5, <1>6, <1>7, <1>8, <1>9, <1>10, <1>11,
     <1>12, <1>13, <1>14, <1>15, <1>16, <1>17, <1>18, <1>19, <1>20, <1>21, <1>22
     DEF Next, Worker

LEMMA CompleteStep ==
  ASSUME TypeOK, ControlInv, ChannelInv, CompleteInv, [Next]_vars
  PROVE  CompleteInv'
<1> USE DEF CompleteInv, workerVars, clientVars
<1>a. Answered' = Answered
  BY QueryFixed DEF script, Answered
<1>b. /\ pos \in 0..Len(script) /\ chan \in Seq(Item) /\ Len(received) \in Nat
      /\ rx \in {"open", "ended", "dropped"} /\ pc \in States
      /\ Len(script) \in Nat
  BY ScriptFacts DEF TypeOK
<1>c. rx = "ended" => pc = "exit"
  BY DEF ControlInv
<1> USE <1>a, <1>b, <1>c
<1>1. CASE ExecuteReceiver
  <2>1. pos = 0 /\ pos' = pos /\ UNCHANGED <<rx, received>> /\ pc = "call"
    BY <1>1 DEF ExecuteReceiver, ControlInv
  <2>2. received = <<>>  \/ rx = "dropped"
    BY <2>1 DEF ChannelInv
  <2>3. CASE chan' = <<Err>> /\ pc' = "exit"
    BY <2>1, <2>2, <2>3
  <2>4. CASE chan' = chan /\ pc' = IF query.prepared THEN "lock" ELSE "alloc"
    BY <2>1, <2>4
  <2> QED
    BY <1>1, <2>3, <2>4 DEF ExecuteReceiver
<1>2. CASE Acquire
  BY <1>2 DEF Acquire, Goto
<1>3. CASE Execute
  BY <1>3 DEF Execute, Goto
<1>4. CASE Count
  BY <1>4 DEF Count, Goto
<1>5. CASE SendCount
  <2>1. pos' = Answered /\ UNCHANGED rx /\ pc = "sendCount"
    BY <1>5 DEF SendCount, SendDone, ControlInv, Answered
  <2> QED
    BY <1>5, <2>1 DEF SendCount, SendDone
<1>6. CASE LoopHead
  BY <1>6 DEF LoopHead, Goto
<1>7. CASE SendNoCols
  BY <1>7 DEF SendNoCols, SendDone, Sent, Refused, Goto
<1>8. CASE Bind
  BY <1>8 DEF Bind, Goto
<1>9. CASE Fetch
  BY <1>9 DEF Fetch, Goto
<1>10. CASE SendRow
  <2>1. UNCHANGED rx /\ pc = "send"
    BY <1>10 DEF SendRow
  <2>2. CASE Refused
    BY <2>1, <2>2 DEF Refused
  <2>3. CASE pc' \in {"fetch", "send"}
    BY <2>1, <2>3
  <2> QED
    BY <1>10, <2>2, <2>3 DEF SendRow, Goto
<1>11. CASE SendEnd
  BY <1>11 DEF SendEnd, SendDone, Sent, Refused, Goto
<1>12. CASE Unbind
  BY <1>12 DEF Unbind, Goto, ControlInv
<1>13. CASE MoreResults
  <2>1. pc = "more" /\ script[1] # "count"
    BY <1>13 DEF MoreResults, ControlInv, Streaming
  <2>2. Answered = Len(script)
    BY <2>1 DEF Answered
  <2> QED
    BY <1>13, <2>2 DEF MoreResults, Goto
<1>14. CASE CallFails
  BY <1>14 DEF CallFails, FalliblePoints, Goto
<1>15. CASE Return
  BY <1>15 DEF Return, Goto
<1>16. CASE SendErr
  <2>1. pc = "sendErr" /\ pos' = pos /\ UNCHANGED <<rx, received>>
    BY <1>16 DEF SendErr
  <2>2. CASE Sent(Err)
    <3>1. Len(received) + Len(chan) = pos /\ Len(received) \in Nat
      BY <2>1, <2>2 DEF ChannelInv, Sent
    <3>2. Len(received') + Len(chan') = pos' + 1
      BY <2>1, <2>2, <3>1, SentFacts
    <3>3. rx' = "open"
      BY <2>1, <2>2 DEF Sent
    <3> QED
      BY <3>2, <3>3
  <2>3. CASE Refused
    BY <2>1, <2>3 DEF Refused
  <2> QED
    BY <1>16, <2>2, <2>3 DEF SendErr
<1>17. CASE DropSender
  BY <1>17 DEF DropSender, Goto
<1>18. CASE Receive
  <2>1. CASE Leaves(Head(chan))
    BY <1>18, <2>1 DEF Receive
  <2>2. CASE ~Leaves(Head(chan))
    <3>1. /\ chan # <<>> /\ chan' = Tail(chan) /\ UNCHANGED <<rx, pos, pc>>
          /\ received' = Append(received, Delivered(Head(chan))) /\ rx = "open"
      BY <1>18, <2>2 DEF Receive
    <3>2. Len(received') + Len(chan') = Len(received) + Len(chan)
      BY <3>1, TakenFacts
    <3> QED
      BY <3>1, <3>2
  <2> QED
    BY <2>1, <2>2
<1>19. CASE EndOfStream
  BY <1>19 DEF EndOfStream
<1>20. CASE DropReceiver
  BY <1>20 DEF DropReceiver
<1>21. CASE Done
  BY <1>21 DEF Done, vars
<1>22. CASE UNCHANGED vars
  BY <1>22 DEF vars
<1> QED
  BY <1>1, <1>2, <1>3, <1>4, <1>5, <1>6, <1>7, <1>8, <1>9, <1>10, <1>11,
     <1>12, <1>13, <1>14, <1>15, <1>16, <1>17, <1>18, <1>19, <1>20, <1>21, <1>22
     DEF Next, Worker

LEMMA ReceivedStep ==
  ASSUME TypeOK, ControlInv, ChannelInv, ReceivedInv, [Next]_vars
  PROVE  ReceivedInv'
<1> USE DEF ReceivedInv, InOrder, Failed, workerVars, clientVars
<1>a. query' = query /\ script' = script /\ \A i : ItemAt(i)' = ItemAt(i)
  BY QueryFixed DEF script, ItemAt
<1>b. /\ pos \in 0..Len(script) /\ chan \in Seq(Item) /\ Len(received) \in Nat
      /\ received \in Seq(Deliverable)
      /\ Len(script) \in Nat
  BY ScriptFacts DEF TypeOK
<1>c. Answered' = Answered /\ Answered \in Nat
  BY <1>a, AnsweredFacts DEF Answered
<1>d. \A item : Delivered(item)' = Delivered(item)
  BY <1>a DEF Delivered
<1> USE <1>a, <1>b, <1>c, <1>d
<1>1. CASE ExecuteReceiver
  BY <1>1 DEF ExecuteReceiver, Goto
<1>2. CASE Acquire
  BY <1>2 DEF Acquire, Goto
<1>3. CASE Execute
  BY <1>3 DEF Execute, Goto
<1>4. CASE Count
  BY <1>4 DEF Count, Goto
<1>5. CASE SendCount
  BY <1>5 DEF SendCount, SendDone, Sent, Refused, Goto
<1>6. CASE LoopHead
  BY <1>6 DEF LoopHead, Goto
<1>7. CASE SendNoCols
  BY <1>7 DEF SendNoCols, SendDone, Sent, Refused, Goto
<1>8. CASE Bind
  BY <1>8 DEF Bind, Goto
<1>9. CASE Fetch
  BY <1>9 DEF Fetch, Goto
<1>10. CASE SendRow
  BY <1>10 DEF SendRow, Sent, Refused, Goto
<1>11. CASE SendEnd
  BY <1>11 DEF SendEnd, SendDone, Sent, Refused, Goto
<1>12. CASE Unbind
  BY <1>12 DEF Unbind, Goto
<1>13. CASE MoreResults
  BY <1>13 DEF MoreResults, Goto
<1>14. CASE CallFails
  BY <1>14 DEF CallFails, FalliblePoints, Goto
<1>15. CASE Return
  BY <1>15 DEF Return, Goto
<1>16. CASE SendErr
  BY <1>16 DEF SendErr, Sent, Refused, Goto
<1>17. CASE DropSender
  BY <1>17 DEF DropSender, Goto
<1>18. CASE Receive
  <2>1. /\ chan # <<>> /\ rx = "open" /\ UNCHANGED <<pos, pc>>
        /\ received' = Append(received, Delivered(Head(chan)))
    BY <1>18 DEF Receive
  <2>2. /\ Len(received') = Len(received) + 1
        /\ \A i \in 1..Len(received) : received'[i] = received[i]
        /\ received'[Len(received) + 1] = Delivered(chan[1])
    BY <2>1
  <2>3. /\ chan[1] = Expected(Len(received) + 1)
        /\ \A i \in 1..Len(received) : received[i] = Delivered(Expected(i))
        /\ Len(received) + 1 <= pos + 1
        /\ Len(received) + 1 = pos + 1 => pc \in {"dropTx", "exit"}
    BY <2>1 DEF ChannelInv
  <2>4. InOrder'
    <3>1. pos <= Answered
      BY DEF ControlInv
    <3>2. \A i \in 1..(Len(received) + 1) : received'[i] = Delivered(Expected(i))
      BY <2>2, <2>3
    <3>3. \A i \in 1..(Len(received) + 1) : i <= pos => received'[i] = Delivered(ItemAt(i))
      BY <3>2 DEF Expected
    <3>4. \A i \in 1..(Len(received) + 1) : i > pos =>
            i = Len(received) + 1 /\ received'[i] = Err
      BY <2>3, <3>2, DeliveredFacts DEF Expected
    <3> QED
      BY <2>2, <3>1, <3>3, <3>4
  <2>5. Failed' => pc' \in {"dropTx", "exit"}
    <3>1. CASE Len(received) + 1 <= pos
      <4>1. Delivered(chan[1]) # Err
        BY <3>1, <2>3, DeliveredFacts DEF Expected
      <4> QED
        BY <2>2, <4>1
    <3>2. CASE Len(received) + 1 = pos + 1
      BY <3>2, <2>1, <2>3
    <3> QED
      BY <2>3, <3>1, <3>2
  <2>6. query.optional /\ rx' # "dropped" =>
          \A i \in 1..Len(received') : received'[i].kind \notin {"row", "unmapped", "err"}
    <3>1. query.optional /\ rx' # "dropped" => chan[1].kind \notin {"row", "err"}
      BY <1>18, <2>1 DEF Receive, Leaves
    <3>2. chan[1] \in Item /\ chan[1].kind # "unmapped"
      <4>1. chan[1] \in Item
        BY <2>1
      <4>2. \A i \in 1..Len(script) : ItemAt(i).kind # "unmapped"
        BY ScriptFacts DEF ItemAt, IsScript
      <4> QED
        BY <4>1, <4>2 DEF Item, Err
    <3>3. query.optional /\ rx' # "dropped" =>
            Delivered(chan[1]).kind \notin {"row", "unmapped", "err"}
      BY <3>1, <3>2, DeliveredFacts
    <3> QED
      BY <2>1, <2>2, <3>3
  <2> QED
    BY <2>4, <2>5, <2>6
<1>19. CASE EndOfStream
  BY <1>19 DEF EndOfStream
<1>20. CASE DropReceiver
  BY <1>20 DEF DropReceiver
<1>21. CASE Done
  BY <1>21 DEF Done, vars
<1>22. CASE UNCHANGED vars
  BY <1>22 DEF vars
<1> QED
  BY <1>1, <1>2, <1>3, <1>4, <1>5, <1>6, <1>7, <1>8, <1>9, <1>10, <1>11,
     <1>12, <1>13, <1>14, <1>15, <1>16, <1>17, <1>18, <1>19, <1>20, <1>21, <1>22
     DEF Next, Worker

\* The inductive invariant holds in every reachable state.
THEOREM Inductive == Spec => []IInv
<1>1. Init => IInv
  <2> SUFFICES ASSUME Init PROVE IInv
    OBVIOUS
  <2>1. TypeOK
    <3>1. IsScript(script)
      BY ScriptsAssumption DEF Init, Queries, script
    <3>2. Len(script) \in Nat
      BY <3>1 DEF IsScript
    <3>3. <<>> \in Seq(Item) /\ Len(<<>>) <= Capacity
      BY CapacityAssumption
    <3>4. pos \in 0..Len(script) /\ batch \in 0..BatchSize
      BY <3>2, BatchSizeAssumption DEF Init
    <3>5. chan \in Seq(Item) /\ Len(chan) <= Capacity /\ received \in Seq(Deliverable)
      BY <3>3 DEF Init
    <3> QED
      BY <3>4, <3>5 DEF Init, TypeOK, States
  <2>2. Len(script) \in Nat \ {0} /\ Answered \in 1..Len(script)
    BY <2>1, ScriptFacts, AnsweredFacts
  <2> QED
    BY <2>1, <2>2 DEF Init, IInv, ControlInv, ChannelInv, CompleteInv, ReceivedInv,
                      InOrder, Failed, Holding, Streaming
<1>2. IInv /\ [Next]_vars => IInv'
  BY TypeStep, ControlStep, ChannelStep, CompleteStep, ReceivedStep DEF IInv
<1> QED
  BY <1>1, <1>2, PTL DEF Spec

-----------------------------------------------------------------------------
(* The safety properties.                                                  *)

\* Types, and the bound of the channel.
THEOREM Typing == Spec => []TypeOK
<1>1. IInv => TypeOK
  BY DEF IInv
<1> QED
  BY <1>1, Inductive, PTL

\* Items arrive in order, once, with nothing after an error.
THEOREM OrderSafe == Spec => []InOrder
<1>1. IInv => InOrder
  BY DEF IInv, ReceivedInv
<1> QED
  BY <1>1, Inductive, PTL

\* Where a stream ends, its client holds everything or a final error.
LEMMA EndFacts ==
  ASSUME IInv, rx # "dropped", pc = "exit", chan = <<>>
  PROVE  \/ Failed
         \/ /\ Len(received) = Answered
            /\ \A i \in 1..Len(received) : received[i] = Delivered(ItemAt(i))
<1>1. /\ Len(received) \in Nat /\ pos \in Nat /\ Len(chan) = 0
      /\ \A i \in 1..Len(received) : received[i] = Delivered(Expected(i))
      /\ Len(received) = pos \/ Len(received) = pos + 1
      /\ Len(received) = pos => pos = Answered
  BY DEF IInv, TypeOK, ChannelInv, CompleteInv
<1>2. CASE Len(received) = pos
  BY <1>1, <1>2 DEF Expected
<1>3. CASE Len(received) = pos + 1
  <2>1. received[Len(received)] = Err /\ received # <<>>
    BY <1>1, <1>3, DeliveredFacts DEF Expected, IInv
  <2> QED
    BY <2>1 DEF Failed
<1> QED
  BY <1>1, <1>2, <1>3

\* The end of a stream is never mistaken for completeness.
THEOREM CompleteSafe == Spec => []NoSilentTruncation
<1>1. IInv => NoSilentTruncation
  BY EndFacts DEF IInv, NoSilentTruncation, ControlInv, CompleteInv
<1> QED
  BY <1>1, Inductive, PTL

\* The statement is free once the client saw an end or an error.
THEOREM ReleaseSafe == Spec => []EndMeansReleased
<1>1. IInv => EndMeansReleased
  BY DEF IInv, EndMeansReleased, ControlInv, ReceivedInv, Holding
<1> QED
  BY <1>1, Inductive, PTL

\* None is the truth about every result set the code looks at.
THEOREM OptionalSafe == Spec => []NoneMeansNoRow
<1>1. IInv => NoneMeansNoRow
  <2> SUFFICES ASSUME IInv, query.optional, rx = "ended",
                      NEW i \in 1..Answered
               PROVE  script[i] # "row"
    BY DEF NoneMeansNoRow
  <2>1. \A j \in 1..Len(received) : received[j].kind \notin {"row", "unmapped", "err"}
    BY DEF IInv, ReceivedInv
  <2>2. ~Failed
    BY <2>1 DEF IInv, TypeOK, Failed, Err
  <2>3. Len(received) = Answered /\ received[i] = Delivered(ItemAt(i))
    BY <2>2, EndFacts DEF IInv, ControlInv, CompleteInv
  <2>4. script[i] = "row" => received[i].kind \in {"row", "unmapped"}
    BY <2>3 DEF ItemAt, Delivered
  <2> QED
    BY <2>1, <2>3, <2>4
<1> QED
  BY <1>1, Inductive, PTL

\* A worker whose receiver is gone gets past the ends of results, never past
\* a row.
LEMMA AbandonStep ==
  ASSUME IInv, [Next]_vars
  PROVE  rx = "dropped" /\ pos' > pos => script[pos'] # "row"
<1> SUFFICES ASSUME rx = "dropped", pos' > pos
             PROVE  script[pos'] # "row"
  OBVIOUS
<1>a. pos \in Nat /\ ControlInv
  BY DEF IInv, TypeOK
<1> USE <1>a DEF workerVars, clientVars
<1>1. CASE ExecuteReceiver
  BY <1>1 DEF ExecuteReceiver
<1>2. CASE Acquire \/ Execute \/ Count \/ LoopHead \/ Bind \/ Fetch \/ Unbind
  BY <1>2 DEF Acquire, Execute, Count, LoopHead, Bind, Fetch, Unbind
<1>3. CASE SendCount
  BY <1>3 DEF SendCount, SendDone, ControlInv
<1>4. CASE SendNoCols
  BY <1>4 DEF SendNoCols, SendDone, ControlInv
<1>5. CASE SendRow
  BY <1>5 DEF SendRow, Sent
<1>6. CASE SendEnd
  BY <1>6 DEF SendEnd, SendDone, ControlInv
<1>7. CASE MoreResults \/ CallFails \/ Return \/ SendErr \/ DropSender
  BY <1>7 DEF MoreResults, CallFails, Return, SendErr, DropSender
<1>8. CASE Receive \/ EndOfStream \/ DropReceiver
  BY <1>8 DEF Receive, EndOfStream, DropReceiver
<1>9. CASE Done \/ UNCHANGED vars
  BY <1>9 DEF Done, vars
<1> QED
  BY <1>1, <1>2, <1>3, <1>4, <1>5, <1>6, <1>7, <1>8, <1>9 DEF Next, Worker

\* An abandoned result is not drained.
THEOREM AbandonSafe == Spec => AbandonedRowsNotRead
<1>1. IInv /\ [Next]_vars => [rx = "dropped" /\ pos' > pos => script[pos'] # "row"]_vars
  BY AbandonStep
<1> QED
  BY <1>1, Inductive, PTL DEF Spec, AbandonedRowsNotRead

-----------------------------------------------------------------------------
(* The refinement.                                                         *)

LEMMA StreamStep ==
  ASSUME IInv, [Next]_vars
  PROVE  [Stream!Next]_(Stream!vars)
<1> DEFINE Output == [i \in 1..Answered |-> Delivered(ItemAt(i))]
<1> USE DEF workerVars, clientVars
<1>a. Output' = Output
  BY QueryFixed DEF script, ItemAt, Answered, Delivered
<1> USE <1>a
<1>b. Answered \in 1..Len(script) /\ Len(script) \in Nat /\ Len(Output) = Answered
  BY AnsweredFacts, ScriptFacts DEF IInv
<1> HIDE DEF Output
<1>1. CASE ExecuteReceiver
  <2>1. CASE pc' = "exit"
    BY <1>1, <2>1 DEF ExecuteReceiver, Output, Stream!Next, Stream!Release
  <2>2. CASE pc' # "exit"
    BY <1>1, <2>2 DEF ExecuteReceiver, Output, Stream!vars
  <2> QED
    BY <2>1, <2>2
<1>2. CASE Acquire
  BY <1>2 DEF Stream!vars, Output, Acquire, Goto
<1>3. CASE Execute
  BY <1>3 DEF Stream!vars, Output, Execute, Goto
<1>4. CASE Count
  BY <1>4 DEF Stream!vars, Output, Count, Goto
<1>5. CASE SendCount
  BY <1>5 DEF Stream!vars, Output, SendCount, SendDone, Sent, Refused, Goto
<1>6. CASE LoopHead
  BY <1>6 DEF Stream!vars, Output, LoopHead, Goto
<1>7. CASE SendNoCols
  BY <1>7 DEF Stream!vars, Output, SendNoCols, SendDone, Sent, Refused, Goto
<1>8. CASE Bind
  BY <1>8 DEF Stream!vars, Output, Bind, Goto
<1>9. CASE Fetch
  BY <1>9 DEF Stream!vars, Output, Fetch, Goto
<1>10. CASE SendRow
  BY <1>10 DEF Stream!vars, Output, SendRow, Sent, Refused, Goto
<1>11. CASE SendEnd
  BY <1>11 DEF Stream!vars, Output, SendEnd, SendDone, Sent, Refused, Goto
<1>12. CASE Unbind
  BY <1>12 DEF Stream!vars, Output, Unbind, Goto
<1>13. CASE MoreResults
  BY <1>13 DEF Stream!vars, Output, MoreResults, Goto
<1>14. CASE CallFails
  BY <1>14 DEF Stream!vars, Output, CallFails, FalliblePoints, Goto
<1>15. CASE Return
  BY <1>15 DEF Return, Goto, Output, Stream!Next, Stream!Release
<1>16. CASE SendErr
  BY <1>16 DEF Stream!vars, Output, SendErr, Sent, Refused, Goto
<1>17. CASE DropSender
  BY <1>17 DEF Stream!vars, Output, DropSender, Goto
<1>18. CASE Receive
  <2>1. /\ chan # <<>> /\ rx = "open" /\ rx' \in {"open", "dropped"}
        /\ received' = Append(received, Delivered(chan[1])) /\ UNCHANGED <<query, pc>>
    BY <1>18 DEF Receive, IInv, TypeOK
  <2>2. /\ chan[1] = Expected(Len(received) + 1)
        /\ \A i \in 1..Len(received) : received[i] = Delivered(Expected(i))
        /\ Len(received) \in Nat /\ pos \in 0..Len(script) /\ pos <= Answered
        /\ Len(received) <= pos
        /\ Len(received) = pos => pc \in {"dropTx", "exit"}
    BY <2>1 DEF IInv, TypeOK, ChannelInv, ControlInv
  <2>3. ~Stream!Failed
    <3>1. \A i \in 1..Len(received) : received[i] # Err
      BY <2>2, DeliveredFacts DEF IInv, Expected
    <3> QED
      BY <2>2, <3>1 DEF IInv, TypeOK, Stream!Failed
  <2>4. CASE Len(received) < pos
    <3>1. Len(received) < Answered /\ Delivered(chan[1]) = Output[Len(received) + 1]
      BY <2>2, <2>4, <1>b DEF Expected, Output
    <3>2. Stream!DeliverNext
      BY <2>1, <2>3, <3>1, <1>b DEF Stream!DeliverNext, Stream!Deliver, Output
    <3> QED
      BY <3>2 DEF Stream!Next
  <2>5. CASE Len(received) = pos
    <3>1. Delivered(chan[1]) = Err
      BY <2>2, <2>5, DeliveredFacts DEF Expected, IInv
    <3>2. Stream!DeliverError
      BY <2>1, <2>2, <2>3, <2>5, <3>1 DEF Stream!DeliverError, Stream!Deliver, Output
    <3> QED
      BY <3>2 DEF Stream!Next
  <2> QED
    BY <2>2, <2>4, <2>5
<1>19. CASE EndOfStream
  <2>1. Failed \/ received = Output
    <3>1. CASE Failed
      BY <3>1
    <3>2. CASE /\ Len(received) = Answered
               /\ \A i \in 1..Len(received) : received[i] = Delivered(ItemAt(i))
      BY <3>2 DEF Output, IInv, TypeOK
    <3> QED
      BY <1>19, <3>1, <3>2, EndFacts DEF EndOfStream
  <2> QED
    BY <1>19, <2>1 DEF EndOfStream, Output, Failed, Stream!Next, Stream!End, Stream!Failed
<1>20. CASE DropReceiver
  BY <1>20 DEF DropReceiver, Output, Stream!Next, Stream!Drop
<1>21. CASE Done
  BY <1>21 DEF Done, vars, Stream!vars, Output
<1>22. CASE UNCHANGED vars
  BY <1>22 DEF vars, Stream!vars, Output
<1> QED
  BY <1>1, <1>2, <1>3, <1>4, <1>5, <1>6, <1>7, <1>8, <1>9, <1>10, <1>11,
     <1>12, <1>13, <1>14, <1>15, <1>16, <1>17, <1>18, <1>19, <1>20, <1>21, <1>22
     DEF Next, Worker

\* The worker, its channel and the client implement the stream they promise.
THEOREM StreamImplemented == Spec => ImplementsRowStream
<1>1. Init => Stream!Init
  BY DEF Init, Stream!Init
<1>2. IInv /\ [Next]_vars => [Stream!Next]_(Stream!vars)
  BY StreamStep
<1> QED
  BY <1>1, <1>2, Inductive, PTL DEF Spec, ImplementsRowStream, Stream!Spec

-----------------------------------------------------------------------------
(* The work of a query is finite: the safety half of                       *)
(* WorkerFinishesUnlessHeld, DropReleases and PollingEnds.                 *)

\* How far a control state is from the exit if the script goes no further.
Distance ==
  CASE pc = "call" -> 15
    [] pc \in {"lock", "alloc"} -> 14
    [] pc = "execute" -> 13
    [] pc \in {"count", "unbind"} -> 12
    [] pc \in {"sendCount", "more"} -> 11
    [] pc = "head" -> 10
    [] pc = "bind" -> 9
    [] pc = "fetch" -> 8
    [] pc = "send" -> 7
    [] pc \in {"sendNoCols", "sendEnd"} -> 6
    [] pc = "unbindClosed" -> 5
    [] pc \in {"close", "fail"} -> 4
    [] pc = "sendErr" -> 3
    [] pc = "dropTx" -> 2
    [] pc = "exit" -> 0

\* The steps a query has left, at most.
WorkLeft == 16 * (Len(script) - pos) + Distance

\* Each step of the worker, a failing, a refused and a sending one alike, leaves
\* less to do; the client can neither add work nor undo any.
WorkShrinks ==
  /\ WorkLeft \in Nat
  /\ ExecuteReceiver \/ Worker => WorkLeft' < WorkLeft
  /\ Receive \/ EndOfStream \/ DropReceiver => WorkLeft' = WorkLeft

LEMMA DistanceBound == ASSUME TypeOK PROVE Distance \in 0..15
BY DEF TypeOK, States, Distance

\* A step in place, and a step past an entry of the script.
LEMMA WorkCompared ==
  ASSUME NEW len \in Nat, NEW p \in 0..len, NEW q \in 0..len,
         NEW d \in 0..15, NEW e \in 0..15
  PROVE  /\ 16 * (len - p) + d \in Nat
         /\ q = p /\ e < d => 16 * (len - q) + e < 16 * (len - p) + d
         /\ q = p + 1 => 16 * (len - q) + e < 16 * (len - p) + d
OBVIOUS

LEMMA WorkStep == ASSUME IInv, IInv', [Next]_vars PROVE WorkShrinks
<1>a. /\ Len(script) \in Nat /\ pos \in 0..Len(script) /\ pos' \in 0..Len(script)
      /\ script' = script /\ Distance \in 0..15 /\ Distance' \in 0..15
      /\ ControlInv /\ TypeOK
  <2>1. TypeOK /\ TypeOK' /\ ControlInv
    BY DEF IInv
  <2>2. script' = script
    BY QueryFixed DEF script
  <2>3. pos \in 0..Len(script) /\ pos' \in 0..Len(script)
    BY <2>1, <2>2 DEF TypeOK
  <2>4. Distance \in 0..15
    BY <2>1, DistanceBound
  <2>5. Distance' \in 0..15
    BY <2>1 DEF TypeOK, States, Distance
  <2> QED
    BY <2>1, <2>2, <2>3, <2>4, <2>5, ScriptFacts
<1>b. WorkLeft' = 16 * (Len(script) - pos') + Distance'
  BY <1>a DEF WorkLeft
<1>c. ASSUME pos' = pos, Distance' < Distance PROVE WorkLeft' < WorkLeft
  BY <1>a, <1>b, <1>c, WorkCompared DEF WorkLeft
<1>d. ASSUME pos' = pos + 1 PROVE WorkLeft' < WorkLeft
  BY <1>a, <1>b, <1>d, WorkCompared DEF WorkLeft
<1>1. ExecuteReceiver \/ Worker => WorkLeft' < WorkLeft
  <2> SUFFICES ASSUME ExecuteReceiver \/ Worker PROVE WorkLeft' < WorkLeft
    OBVIOUS
  <2> USE DEF workerVars, clientVars, Goto
  <2>1. CASE ExecuteReceiver
    BY <2>1, <1>c DEF ExecuteReceiver, Distance
  <2>2. CASE Acquire
    BY <2>2, <1>c DEF Acquire, Distance
  <2>3. CASE Execute
    BY <2>3, <1>c DEF Execute, Distance
  <2>4. CASE Count
    BY <2>4, <1>c DEF Count, Distance
  <2>5. CASE SendCount \/ SendNoCols \/ SendEnd
    BY <2>5, <1>d DEF SendCount, SendNoCols, SendEnd, SendDone
  <2>6. CASE LoopHead
    BY <2>6, <1>c DEF LoopHead, Distance
  <2>7. CASE Bind
    BY <2>7, <1>c DEF Bind, Distance
  <2>8. CASE Fetch
    BY <2>8, <1>c DEF Fetch, Distance
  <2>9. CASE SendRow
    <3>1. CASE pos' = pos + 1
      BY <3>1, <1>d
    <3>2. CASE UNCHANGED pos /\ pc' \in {"unbindClosed", "close"} /\ pc = "send"
      BY <3>2, <1>c DEF Distance
    <3> QED
      BY <2>9, <3>1, <3>2 DEF SendRow
  <2>10. CASE Unbind
    BY <2>10, <1>c DEF Unbind, Distance
  <2>11. CASE MoreResults
    BY <2>11, <1>c DEF MoreResults, Distance
  <2>12. CASE CallFails
    BY <2>12, <1>c DEF CallFails, FalliblePoints, Distance
  <2>13. CASE Return
    BY <2>13, <1>c DEF Return, Distance
  <2>14. CASE SendErr
    BY <2>14, <1>c DEF SendErr, Distance
  <2>15. CASE DropSender
    BY <2>15, <1>c DEF DropSender, Distance
  <2> QED
    BY <2>1, <2>2, <2>3, <2>4, <2>5, <2>6, <2>7, <2>8, <2>9, <2>10, <2>11, <2>12,
       <2>13, <2>14, <2>15 DEF Worker
<1>2. Receive \/ EndOfStream \/ DropReceiver => WorkLeft' = WorkLeft
  <2> SUFFICES ASSUME Receive \/ EndOfStream \/ DropReceiver PROVE WorkLeft' = WorkLeft
    OBVIOUS
  <2>1. pc' = pc /\ pos' = pos
    BY DEF Receive, EndOfStream, DropReceiver, workerVars
  <2>2. Distance' = Distance
    BY <2>1 DEF Distance
  <2> QED
    BY <1>a, <1>b, <2>1, <2>2 DEF WorkLeft
<1>3. WorkLeft \in Nat
  BY <1>a, WorkCompared DEF WorkLeft
<1> QED
  BY <1>1, <1>2, <1>3 DEF WorkShrinks

\* A worker takes no more than 16 steps for each entry of its script and 15 more,
\* whatever fails and whenever its client leaves.
THEOREM WorkIsFinite == Spec => [][WorkShrinks]_vars
<1>1. IInv /\ IInv' /\ [Next]_vars => [WorkShrinks]_vars
  BY WorkStep
<1> QED
  BY <1>1, Inductive, PTL DEF Spec

-----------------------------------------------------------------------------
(* A worker that fetches can take what the driver has, so that it need not *)
(* fail to get on: neither WorkShrinks nor the liveness properties hold    *)
(* only because CallFails is always possible.                              *)

\* Rows and the ends of their results are all that a cursor ever meets.
FetchInv ==
  /\ pc \in {"bind", "fetch"} => script[pos + 1] \in {"row", "end"}
  /\ pc = "send" => \A i \in (pos + 1)..(pos + batch) : script[i] = "row"

\* The next entry ends the result set, or some rows fill a row set or are all
\* there are before that end.
FetchAnswered ==
  pc = "fetch" =>
    \/ script[pos + 1] = "end"
    \/ \E n \in 1..RowSet :
         /\ pos + n < Len(script)
         /\ \A i \in (pos + 1)..(pos + n) : script[i] = "row"
         /\ n < RowSet => script[pos + n + 1] # "row"

LEMMA Smallest ==
  ASSUME NEW T, T \subseteq Nat, T # {}
  PROVE  \E m \in T : \A k \in T : m <= k
<1>1. IsWellFoundedOn({p \in Nat \X Nat : p[1] < p[2]}, Nat)
  BY NatLessThanWellFounded DEF OpToRel
<1>2. PICK m \in T : \A k \in T : ~(<<k, m>> \in {p \in Nat \X Nat : p[1] < p[2]})
  BY <1>1, WFMin
<1>3. ASSUME NEW k \in T PROVE m <= k
  <2>1. <<k, m>> \in Nat \X Nat
    OBVIOUS
  <2>2. ~(k < m)
    BY <1>2, <2>1
  <2> QED
    BY <2>2
<1> QED
  BY <1>3

\* What follows a row in a script, or stands where a cursor was opened.
LEMMA AfterRow ==
  ASSUME TypeOK, NEW i \in 1..(Len(script) - 1), script[i] = "row"
  PROVE  script[i + 1] \in {"row", "end"}
<1>1. /\ IsScript(script) /\ Len(script) \in Nat
      /\ i + 1 \in 2..Len(script)
  BY ScriptFacts
<1>2. script[i + 1] \in {"row", "end", "nocols", "count"}
  BY <1>1 DEF IsScript
<1> QED
  BY <1>1, <1>2 DEF IsScript

LEMMA AtHead ==
  ASSUME TypeOK, ControlInv, pc = "head", script[pos + 1] # "nocols"
  PROVE  script[pos + 1] \in {"row", "end"}
<1>1. /\ IsScript(script) /\ Len(script) \in Nat /\ pos \in Nat
      /\ pos + 1 \in 1..Len(script) /\ script[1] # "count"
  BY ScriptFacts DEF TypeOK, ControlInv, Streaming
<1>2. script[pos + 1] \in {"row", "end", "nocols", "count"}
  BY <1>1 DEF IsScript
<1> QED
  BY <1>1, <1>2 DEF IsScript

LEMMA FetchStep == ASSUME IInv, FetchInv, [Next]_vars PROVE FetchInv'
<1>a. /\ TypeOK /\ ControlInv /\ script' = script /\ Len(script) \in Nat
      /\ pos \in 0..Len(script) /\ batch \in Nat
  BY QueryFixed, ScriptFacts, BatchSizeAssumption DEF IInv, TypeOK, script
<1>b. ASSUME pc' \notin {"bind", "fetch", "send"} PROVE FetchInv'
  BY <1>b DEF FetchInv
<1>c. ASSUME UNCHANGED <<pc, pos, batch>> PROVE FetchInv'
  BY <1>a, <1>c DEF FetchInv
<1> USE DEF workerVars, clientVars, Goto
<1>1. CASE ExecuteReceiver \/ Acquire \/ Execute \/ Count
  BY <1>1, <1>b DEF ExecuteReceiver, Acquire, Execute, Count
<1>2. CASE SendCount \/ SendNoCols \/ SendEnd
  BY <1>2, <1>b DEF SendCount, SendNoCols, SendEnd, SendDone
<1>3. CASE LoopHead
  BY <1>3, <1>a, AtHead DEF LoopHead, FetchInv
<1>4. CASE Bind
  BY <1>4, <1>a DEF Bind, FetchInv
<1>5. CASE Fetch
  <2>1. CASE pc' = "send"
    BY <1>5, <2>1, <1>a DEF Fetch, FetchInv
  <2>2. CASE pc' = "sendEnd"
    BY <2>2, <1>b
  <2> QED
    BY <1>5, <2>1, <2>2 DEF Fetch
<1>6. CASE SendRow
  <2>1. CASE pc' \in {"unbindClosed", "close"}
    BY <2>1, <1>b
  <2>2. CASE /\ pc = "send" /\ pos' = pos + 1 /\ batch' = batch - 1
             /\ pc' = IF batch = 1 THEN "fetch" ELSE "send"
    <3>1. batch >= 1 /\ pos + batch < Len(script) /\ pos + 1 \in 1..(Len(script) - 1)
      BY <2>2, <1>a DEF ControlInv
    <3>2. CASE batch = 1
      <4>1. script[pos + 1] = "row"
        BY <2>2, <3>1, <3>2 DEF FetchInv
      <4>2. script[pos' + 1] \in {"row", "end"} /\ pc' = "fetch"
        BY <2>2, <3>1, <3>2, <4>1, <1>a, AfterRow
      <4> QED
        BY <4>2, <1>a DEF FetchInv
    <3>3. CASE batch # 1
      <4>1. pc' = "send" /\ (pos' + 1)..(pos' + batch') \subseteq (pos + 1)..(pos + batch)
        BY <2>2, <3>1, <3>3, <1>a
      <4> QED
        BY <2>2, <4>1, <1>a DEF FetchInv
    <3> QED
      BY <3>2, <3>3
  <2> QED
    BY <1>6, <2>1, <2>2 DEF SendRow
<1>7. CASE Unbind \/ MoreResults \/ CallFails \/ Return \/ SendErr \/ DropSender
  BY <1>7, <1>b DEF Unbind, MoreResults, CallFails, Return, SendErr, DropSender
<1>8. CASE Receive \/ EndOfStream \/ DropReceiver
  BY <1>8, <1>c DEF Receive, EndOfStream, DropReceiver
<1>9. CASE Done \/ UNCHANGED vars
  BY <1>9, <1>c DEF Done, vars
<1> QED
  BY <1>1, <1>2, <1>3, <1>4, <1>5, <1>6, <1>7, <1>8, <1>9 DEF Next, Worker

LEMMA FetchReady == ASSUME IInv, FetchInv PROVE FetchAnswered
<1> SUFFICES ASSUME pc = "fetch", script[pos + 1] # "end"
             PROVE  \E n \in 1..RowSet :
                      /\ pos + n < Len(script)
                      /\ \A i \in (pos + 1)..(pos + n) : script[i] = "row"
                      /\ n < RowSet => script[pos + n + 1] # "row"
  BY DEF FetchAnswered
<1>1. /\ Len(script) \in Nat /\ pos \in Nat /\ pos < Len(script)
      /\ RowSet \in Nat \ {0} /\ script[Len(script)] # "row"
  BY ScriptFacts, BatchSizeAssumption DEF IInv, TypeOK, ControlInv, IsScript
<1>2. script[pos + 1] = "row" /\ pos + 1 < Len(script)
  <2>1. script[pos + 1] = "row"
    BY DEF FetchInv
  <2> QED
    BY <1>1, <2>1
<1> DEFINE room == Len(script) - pos - 1
           Ends(n) == n = RowSet \/ script[pos + n + 1] # "row"
           T == {n \in 1..room : Ends(n)}
<1>a. room \in Nat \ {0} /\ pos + room + 1 = Len(script)
  BY <1>1, <1>2
<1> HIDE DEF room
<1>3. T \subseteq Nat /\ room \in T
  <2>1. room \in 1..room /\ Ends(room)
    BY <1>1, <1>a
  <2> QED
    BY <1>a, <2>1
<1>4. PICK m \in T : \A k \in T : m <= k
  <2> HIDE DEF T
  <2> QED
    BY <1>3, Smallest
<1>5. m \in 1..room /\ Ends(m)
  BY <1>4
<1>6. \A k \in 1..(m - 1) : k # RowSet /\ script[pos + k + 1] = "row"
  <2> SUFFICES ASSUME NEW k \in 1..(m - 1) PROVE ~Ends(k)
    OBVIOUS
  <2>1. k \in 1..room /\ ~(m <= k)
    BY <1>a, <1>5
  <2> QED
    BY <1>4, <2>1
<1>7. m \in 1..RowSet
  <2>1. m \in Nat \ {0} /\ RowSet \in Nat \ {0}
    BY <1>1, <1>5, <1>a
  <2>2. RowSet \notin 1..(m - 1)
    BY <1>6
  <2> QED
    BY <2>1, <2>2
<1>8. ASSUME NEW i \in (pos + 1)..(pos + m) PROVE script[i] = "row"
  <2>1. CASE i = pos + 1
    BY <1>2, <2>1
  <2>2. CASE i # pos + 1
    <3>1. i - pos - 1 \in 1..(m - 1) /\ pos + (i - pos - 1) + 1 = i
      BY <1>1, <1>a, <1>5, <1>8, <2>2
    <3> QED
      BY <1>6, <3>1
  <2> QED
    BY <2>1, <2>2
<1>9. pos + m < Len(script) /\ (m < RowSet => script[pos + m + 1] # "row")
  BY <1>1, <1>a, <1>5, <1>7
<1> QED
  BY <1>7, <1>8, <1>9

\* No answer of the driver leaves the worker without a next step.
THEOREM FetchIsNeverStuck == Spec => []FetchAnswered
<1>1. Init => FetchInv
  BY DEF Init, FetchInv
<1>2. IInv /\ FetchInv /\ [Next]_vars => FetchInv'
  BY FetchStep
<1>3. IInv /\ FetchInv => FetchAnswered
  BY FetchReady
<1> QED
  BY <1>1, <1>2, <1>3, Inductive, PTL DEF Spec

-----------------------------------------------------------------------------
(* The query is one execution as OdbcConnection has many of.               *)

Seen ==
  [stage |-> CASE pc = "call" -> "none"
               [] pc \in {"lock", "alloc"} -> "waiting"
               [] pc = "exit" -> "closed"
               [] OTHER -> IF owns THEN "using" ELSE "left",
   open  |-> rx = "open" /\ pc # "call",
   depth |-> Len(chan)]

\* Before the call returns there is no stream yet.
CallInv == pc = "call" => rx = "open" /\ chan = <<>>

Inside == States \ {"call", "lock", "alloc", "exit"}

\* A step of the worker inside the execution that sends nothing.
LEMMA QuietStep ==
  ASSUME TypeOK, TypeOK', pc \in Inside, pc' \in Inside, UNCHANGED <<rx, chan>>,
         owns' = owns \/ owns' = FALSE
  PROVE  ExecutionStep(Seen, Seen', Capacity)
<1>1. /\ Seen'.stage = IF owns' THEN "using" ELSE "left"
      /\ Seen'.open = (rx = "open") /\ Seen'.depth = Len(chan)
  BY DEF Seen, Inside
<1>2. /\ Seen.stage = IF owns THEN "using" ELSE "left"
      /\ Seen.open = (rx = "open") /\ Seen.depth = Len(chan)
  BY DEF Seen, Inside
<1>3. CASE owns' = owns
  <2>1. Seen' = Seen
    BY <1>3 DEF Seen, Inside
  <2> QED
    BY <2>1 DEF ExecutionStep
<1>4. CASE owns /\ owns' = FALSE
  BY <1>1, <1>2, <1>4 DEF ExecutionStep, Moved
<1>5. owns \in BOOLEAN
  BY DEF TypeOK
<1> QED
  BY <1>3, <1>4, <1>5

\* A step of the worker inside the execution that sends an item, or finds the
\* receiver gone.
LEMMA SendingStep ==
  ASSUME TypeOK, pc \in Inside, pc' \in Inside, UNCHANGED <<rx, owns>>,
         NEW item, Sent(item) \/ Refused
  PROVE  ExecutionStep(Seen, Seen', Capacity)
<1>1. /\ Seen.stage = IF owns THEN "using" ELSE "left"
      /\ Seen.open = (rx = "open") /\ Seen.depth = Len(chan)
  BY DEF Seen, Inside
<1>2. /\ Seen'.stage = IF owns THEN "using" ELSE "left"
      /\ Seen'.open = (rx = "open") /\ Seen'.depth = Len(chan')
  BY DEF Seen, Inside
<1>3. CASE Sent(item)
  <2>1. /\ rx = "open" /\ Len(chan) < Capacity
        /\ Len(chan') = Len(chan) + 1
    BY <1>3 DEF Sent, TypeOK
  <2> QED
    BY <1>1, <1>2, <2>1 DEF ExecutionStep, Put
<1>4. CASE Refused
  <2>1. Seen' = Seen
    BY <1>4 DEF Refused, Seen, Inside
  <2> QED
    BY <2>1 DEF ExecutionStep
<1> QED
  BY <1>3, <1>4

LEMMA SeenStep ==
  ASSUME IInv, IInv', CallInv, [Next]_vars
  PROVE  ExecutionStep(Seen, Seen', Capacity) /\ CallInv'
<1>a. /\ TypeOK /\ TypeOK' /\ ControlInv
  BY DEF IInv
<1> USE DEF workerVars, clientVars, Goto
<1>b. ASSUME pc \in Inside, pc' \in Inside, UNCHANGED <<rx, chan>>,
             owns' = owns \/ owns' = FALSE
      PROVE  ExecutionStep(Seen, Seen', Capacity) /\ CallInv'
  BY <1>a, <1>b, QuietStep DEF CallInv, Inside
<1>c. ASSUME pc \in Inside, pc' \in Inside, UNCHANGED <<rx, owns>>,
             NEW item, Sent(item) \/ Refused
      PROVE  ExecutionStep(Seen, Seen', Capacity) /\ CallInv'
  BY <1>a, <1>c, SendingStep DEF CallInv, Inside
<1>1. CASE ExecuteReceiver
  <2>1. /\ pc = "call" /\ rx = "open" /\ chan = <<>> /\ rx' = rx
        /\ \/ pc' \in {"lock", "alloc"} /\ chan' = chan
           \/ pc' = "exit" /\ chan' = <<Err>>
    BY <1>1 DEF ExecuteReceiver, CallInv
  <2>2. Seen.stage = "none" /\ Seen'.open = TRUE
    BY <2>1 DEF Seen
  <2>3. CASE pc' \in {"lock", "alloc"} /\ chan' = chan
    <3>1. Seen'.stage = "waiting" /\ Seen'.depth = 0
      BY <2>1, <2>3 DEF Seen
    <3> QED
      BY <2>2, <2>3, <3>1 DEF ExecutionStep, Issued, CallInv
  <2>4. CASE pc' = "exit" /\ chan' = <<Err>>
    <3>1. Seen'.stage = "closed" /\ Seen'.depth = 1
      BY <2>1, <2>4 DEF Seen
    <3> QED
      BY <2>2, <2>4, <3>1 DEF ExecutionStep, Issued, CallInv
  <2> QED
    BY <2>1, <2>3, <2>4
<1>2. CASE Acquire
  <2>1. Seen.stage = "waiting" /\ Seen'.stage = "using" /\ CallInv'
        /\ Seen'.open = Seen.open /\ Seen'.depth = Seen.depth
    BY <1>2 DEF Acquire, Seen, CallInv
  <2> QED
    BY <2>1 DEF ExecutionStep, Moved
<1>3. CASE Execute \/ Count
  BY <1>3, <1>b DEF Execute, Count, Inside, States
<1>4. CASE SendCount \/ SendNoCols \/ SendEnd
  <2>1. /\ pc \in Inside /\ pc' \in Inside /\ UNCHANGED <<rx, owns>>
        /\ Sent(ItemAt(pos + 1)) \/ Refused
    BY <1>4 DEF SendCount, SendNoCols, SendEnd, SendDone, Inside, States
  <2> QED
    BY <2>1, <1>c
<1>5. CASE LoopHead \/ Bind
  BY <1>5, <1>b DEF LoopHead, Bind, Inside, States
<1>6. CASE Fetch
  BY <1>6, <1>b DEF Fetch, Inside, States
<1>7. CASE SendRow
  <2>1. /\ pc \in Inside /\ pc' \in Inside /\ UNCHANGED <<rx, owns>>
        /\ Sent(ItemAt(pos + 1)) \/ Refused
    BY <1>7 DEF SendRow, Inside, States
  <2> QED
    BY <2>1, <1>c
<1>8. CASE Unbind \/ MoreResults
  BY <1>8, <1>b DEF Unbind, MoreResults, Inside, States
<1>9. CASE CallFails
  <2>1. CASE pc \in {"lock", "alloc"}
    <3>1. ~owns
      BY <1>a, <2>1 DEF ControlInv, Holding
    <3>2. Seen.stage = "waiting" /\ Seen'.stage = "left" /\ CallInv'
          /\ Seen'.open = Seen.open /\ Seen'.depth = Seen.depth
      BY <1>9, <2>1, <3>1 DEF CallFails, Seen, CallInv
    <3> QED
      BY <3>2 DEF ExecutionStep, Moved
  <2>2. CASE pc \notin {"lock", "alloc"}
    BY <1>9, <2>2, <1>b DEF CallFails, FalliblePoints, Inside, States
  <2> QED
    BY <2>1, <2>2
<1>10. CASE Return
  BY <1>10, <1>b DEF Return, Inside, States
<1>11. CASE SendErr
  <2>1. /\ pc \in Inside /\ pc' \in Inside /\ UNCHANGED <<rx, owns>>
        /\ Sent(Err) \/ Refused
    BY <1>11 DEF SendErr, Inside, States
  <2> QED
    BY <2>1, <1>c
<1>12. CASE DropSender
  <2>1. ~owns
    BY <1>12, <1>a DEF DropSender, ControlInv, Holding
  <2>2. Seen.stage = "left" /\ Seen'.stage = "closed" /\ CallInv'
        /\ Seen'.open = Seen.open /\ Seen'.depth = Seen.depth
    BY <1>12, <2>1 DEF DropSender, Seen, CallInv
  <2> QED
    BY <2>2 DEF ExecutionStep, Moved
<1>13. CASE Receive
  <2>1. /\ pc # "call" /\ rx = "open" /\ Len(chan) > 0
        /\ UNCHANGED <<pc, owns>>
    BY <1>13, <1>a DEF Receive, CallInv, TypeOK
  <2>2. \/ rx' = "dropped" /\ Len(chan') = 0
        \/ rx' = rx /\ Len(chan') = Len(chan) - 1
    BY <1>13, <1>a DEF Receive, TypeOK
  <2>3. Seen'.stage = Seen.stage /\ Seen'.depth = Len(chan') /\ CallInv'
        /\ Seen.depth = Len(chan)
        /\ Seen.open = TRUE /\ Seen'.open = (rx' = "open")
    BY <2>1 DEF Seen, CallInv
  <2> QED
    BY <2>1, <2>2, <2>3 DEF ExecutionStep, Taken, Dropped
<1>14. CASE EndOfStream \/ DropReceiver
  <2>1. /\ pc # "call" /\ rx = "open" /\ rx' # "open" /\ Len(chan') = 0
        /\ UNCHANGED <<pc, owns>>
    BY <1>14 DEF EndOfStream, DropReceiver
  <2>2. Seen'.stage = Seen.stage /\ Seen'.depth = 0 /\ CallInv'
        /\ Seen.open = TRUE /\ Seen'.open = FALSE
    BY <2>1 DEF Seen, CallInv
  <2> QED
    BY <2>2 DEF ExecutionStep, Dropped
<1>15. CASE Done \/ UNCHANGED vars
  <2>1. Seen' = Seen /\ CallInv'
    BY <1>15 DEF Done, vars, Seen, CallInv
  <2> QED
    BY <2>1 DEF ExecutionStep
<1> QED
  BY <1>1, <1>2, <1>3, <1>4, <1>5, <1>6, <1>7, <1>8, <1>9, <1>10, <1>11, <1>12,
     <1>13, <1>14, <1>15 DEF Next, Worker

\* Every step of the query is a step of an execution as ExecutionSteps has it.
THEOREM QueryIsExecution == Spec => [][ExecutionStep(Seen, Seen', Capacity)]_vars
<1>1. Init => CallInv
  BY DEF Init, CallInv
<1>2. IInv /\ IInv' /\ CallInv /\ [Next]_vars => CallInv'
  BY SeenStep
<1>3. IInv /\ IInv' /\ CallInv /\ [Next]_vars => [ExecutionStep(Seen, Seen', Capacity)]_vars
  BY SeenStep
<1> QED
  BY <1>1, <1>2, <1>3, Inductive, PTL DEF Spec
=============================================================================
