----------------------------- MODULE RowStream -----------------------------
(***************************************************************************)
(* What the stream returned for one query promises its client: the items   *)
(* of the query's results in order, each once; at most one error, after    *)
(* which nothing follows; and an end that is announced only when all items *)
(* or an error were delivered and the statement is no longer in use.       *)
(* ExecuteStream implements this module.                                   *)
(***************************************************************************)
EXTENDS Naturals, Sequences

CONSTANT Err

VARIABLES
  output,     \* every item the query's results consist of; never changes
  delivered,  \* the items the client received
  status,     \* "open", "ended" or "dropped"
  busy        \* the query may still use its statement

vars == <<output, delivered, status, busy>>

Failed == delivered # <<>> /\ delivered[Len(delivered)] = Err

Init == delivered = <<>> /\ status = "open" /\ busy = TRUE

\* A client may leave with the item it receives (fetch_optional).
Deliver(item) ==
  /\ status = "open" /\ ~Failed
  /\ delivered' = Append(delivered, item)
  /\ status' \in {"open", "dropped"}
  /\ UNCHANGED <<output, busy>>

DeliverNext ==
  /\ Len(delivered) < Len(output)
  /\ Deliver(output[Len(delivered) + 1])

DeliverError == ~busy /\ Deliver(Err)

Release == busy /\ busy' = FALSE /\ UNCHANGED <<output, delivered, status>>

End ==
  /\ status = "open" /\ ~busy
  /\ Failed \/ delivered = output
  /\ status' = "ended"
  /\ UNCHANGED <<output, delivered, busy>>

Drop ==
  /\ status = "open"
  /\ status' = "dropped"
  /\ UNCHANGED <<output, delivered, busy>>

Next == DeliverNext \/ DeliverError \/ Release \/ End \/ Drop

Spec == Init /\ [][Next]_vars
=============================================================================
