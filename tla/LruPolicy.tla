------------------------------ MODULE LruPolicy ------------------------------
(***************************************************************************)
(* What an LRU cache promises, without a cache: all keys ever put are kept *)
(* in the order of their last use with their last value, and a get finds a *)
(* key exactly when it is among the Capacity most recently used ones.      *)
(***************************************************************************)
EXTENDS Integers, Sequences

CONSTANTS Capacity, Keys, Values, NoValue

VARIABLES
  order,      \* the keys put so far, the most recently used first
  latest,     \* key -> the value of its last put
  result      \* what the last call returned, NoValue for nullptr and for put

vars == <<order, latest, result>>

Used(k) == \E i \in 1 .. Len(order) : order[i] = k

\* order with k first, once: the place it had closes.
MoveToFront(k) ==
  IF Used(k)
  THEN LET p == CHOOSE i \in 1 .. Len(order) : order[i] = k
       IN  <<k>> \o (SubSeq(order, 1, p - 1) \o SubSeq(order, p + 1, Len(order)))
  ELSE <<k>> \o order

Cached(k) == \E i \in 1 .. Len(order) : i <= Capacity /\ order[i] = k

Init ==
  /\ order = <<>>
  /\ latest = [k \in Keys |-> NoValue]
  /\ result = NoValue

Hit(k) ==
  /\ Cached(k)
  /\ order' = MoveToFront(k)
  /\ result' = latest[k]
  /\ UNCHANGED latest

Miss(k) ==
  /\ ~Cached(k)
  /\ result' = NoValue
  /\ UNCHANGED <<order, latest>>

Put(k, v) ==
  /\ order' = MoveToFront(k)
  /\ latest' = [latest EXCEPT ![k] = v]
  /\ result' = NoValue

Next == \E k \in Keys : Hit(k) \/ Miss(k) \/ \E v \in Values : Put(k, v)

Spec == Init /\ [][Next]_vars
============================================================================
