---------------------------- MODULE BoundedFifo ----------------------------
(***************************************************************************)
(* What the two queues of null/ promise their callers: items are accepted  *)
(* in some order, delivered exactly once and in that order, never more     *)
(* than Capacity of them are accepted and not yet delivered, and nothing   *)
(* is accepted once the queue is closed.  A call that returns false or     *)
(* nullopt is a stuttering step.                                           *)
(***************************************************************************)
EXTENDS Integers, Sequences

CONSTANTS Capacity, Items

VARIABLES
  accepted,     \* every item a push took, in the order they were taken
  delivered,    \* every item a pop handed out, in the order of the pops
  closed

vars == <<accepted, delivered, closed>>

InQueue == Len(accepted) - Len(delivered)

Init ==
  /\ accepted = <<>>
  /\ delivered = <<>>
  /\ closed = FALSE

Push(item) ==
  /\ ~closed
  /\ InQueue < Capacity
  /\ accepted' = Append(accepted, item)
  /\ UNCHANGED <<delivered, closed>>

Pop ==
  /\ InQueue > 0
  /\ delivered' = Append(delivered, accepted[Len(delivered) + 1])
  /\ UNCHANGED <<accepted, closed>>

Close ==
  /\ closed' = TRUE
  /\ UNCHANGED <<accepted, delivered>>

Next ==
  \/ \E item \in Items : Push(item)
  \/ Pop
  \/ Close

Spec == Init /\ [][Next]_vars
============================================================================
