--------------------------- MODULE WatchedSession ---------------------------
(***************************************************************************)
(* What a session of any of the servers under asio/ promises, without      *)
(* sockets, timers and handlers: it is open until it has a cause to end,   *)
(* which is an operation that failed or a peer that has been idle for too  *)
(* long; a cause that lasts does end it; and once it is ending it goes     *)
(* away, which frees the object and its sockets.                           *)
(***************************************************************************)
CONSTANT Peers   \* those whose idleness ends the session

VARIABLES
  state,    \* "open", "failing" (an operation has failed), "ending", "gone"
  due       \* the peers that have been idle for as long as is tolerated

vars == <<state, due>>

Init == state = "open" /\ due = {}

Fails == state = "open" /\ state' = "failing"

\* A session may find out that a peer is due in the step that ends it.
Ends ==
  /\ state = "failing" \/ (state = "open" /\ due \cup due' # {})
  /\ state' \in {"ending", "gone"}

Leaves == state = "ending" /\ state' = "gone"

Next ==
  /\ Fails \/ Ends \/ Leaves \/ UNCHANGED state
  /\ due' \in SUBSET Peers

Spec == Init /\ [][Next]_vars

(***************************************************************************)
(* Liveness, said of states and not of enabled actions, so that it can be  *)
(* checked of a session that takes many steps for one of these.            *)
(***************************************************************************)
FailureEnds  == state = "failing" ~> state \in {"ending", "gone"}
IdlenessEnds == \A p \in Peers : []<>~(state = "open" /\ p \in due)
EndingEnds   == state = "ending" ~> state = "gone"

FairSpec == Spec /\ FailureEnds /\ IdlenessEnds /\ EndingEnds
=============================================================================
