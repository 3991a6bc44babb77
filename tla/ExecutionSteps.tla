--------------------------- MODULE ExecutionSteps ---------------------------
(***************************************************************************)
(* What one execution does, seen from outside: its stage, whether the      *)
(* client still holds its stream, and how many items are in its channel.   *)
(* ExecuteStream follows one execution through all of its items,           *)
(* OdbcConnection counts the items of many; this module says what both     *)
(* take an execution to be.  It relates a view s to the next view t.       *)
(***************************************************************************)
EXTENDS Naturals

Stage == {"none", "waiting", "using", "left", "closed"}

View == [stage: Stage, open: BOOLEAN, depth: Nat]

\* The client gets a stream, whose worker is about to wait for its statement,
\* or which is one error.
Issued(s, t) ==
  /\ s.stage = "none" /\ t.open
  /\ \/ t.stage = "waiting" /\ t.depth = 0
     \/ t.stage = "closed" /\ t.depth = 1

\* The worker has its statement once, lets it go and never comes back to it.
Moved(s, t) ==
  /\ t.open = s.open /\ t.depth = s.depth
  /\ \/ s.stage = "waiting" /\ t.stage \in {"using", "left"}
     \/ s.stage = "using" /\ t.stage \in {"left", "closed"}
     \/ s.stage = "left" /\ t.stage = "closed"

\* Nothing is put into a full channel or one that nobody reads, or by a worker
\* that waits or has ended.
Put(s, t, capacity) ==
  /\ s.stage \in {"using", "left"} /\ s.open /\ s.depth < capacity
  /\ t.stage = s.stage /\ t.open /\ t.depth = s.depth + 1

Taken(s, t) ==
  /\ s.open /\ s.depth > 0
  /\ t.stage = s.stage /\ t.open /\ t.depth = s.depth - 1

\* The client lets its stream go, at the end or before.
Dropped(s, t) ==
  /\ s.open
  /\ t.stage = s.stage /\ ~t.open /\ t.depth = 0

ExecutionStep(s, t, capacity) ==
  \/ Issued(s, t) \/ Moved(s, t)
  \/ Put(s, t, capacity) \/ Taken(s, t)
  \/ Dropped(s, t)
  \/ t = s
=============================================================================
