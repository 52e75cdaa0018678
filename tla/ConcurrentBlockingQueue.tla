----------------------- MODULE ConcurrentBlockingQueue -----------------------
(***************************************************************************)
(* null/concurrent_blocking_queue.h: a bounded queue shared by any number  *)
(* of threads, guarded by mutex_ and two condition variables.  What a      *)
(* thread does between locking and unlocking mutex_ is one step; close ()  *)
(* takes three, because it notifies after it has unlocked.  A thread that  *)
(* waits is in the wait set of its condition variable (not_full_cv_ for    *)
(* the pushes, not_empty_cv_ for the pops) until it is notified, wakes     *)
(* spuriously, or its deadline has passed; then it must lock again and     *)
(* re-evaluate its predicate.  A copy or a move of T, or the allocation of *)
(* the deque, may throw while the lock is held.                            *)
(***************************************************************************)
EXTENDS Integers, Sequences, FiniteSets

CONSTANTS
  Threads,
  Items,        \* the values of T
  NoItem,       \* the argument of a call that takes none
  Capacity,     \* the constructor's argument
  MaxCalls,     \* bound: calls begun by all threads together
  MaxThrows     \* bound: exceptions, of pushes and of pops each

ASSUME QueueAssumption ==
  /\ IsFiniteSet(Threads)
  /\ Capacity \in Nat /\ MaxCalls \in Nat /\ MaxThrows \in Nat

VARIABLES
  queue_, closed_,
  pc,           \* where each thread is in its call
  call, item,   \* the call it is in, or was in last, and its argument
  expired,      \* threads whose wait_for has passed its deadline
  calls,        \* calls begun so far
  pushThrows, popThrows,    \* pushes and pops left by an exception
  accepted, delivered,      \* history: items put into and taken off queue_
  ended         \* history: some pop () has returned nullopt

vars == <<queue_, closed_, pc, call, item, expired, calls, pushThrows, popThrows,
          accepted, delivered, ended>>

Pushes == {"push", "try_push"}
Pops   == {"pop", "try_pop"}
Timed  == {"try_push", "try_pop"}
Calls  == Pushes \cup Pops \cup {"close"}

\* The threads blocked in not_full_cv_ and in not_empty_cv_.
AsleepIn(ops) == {t \in Threads : pc[t] = "asleep" /\ call[t] \in ops}

\* The threads that will evaluate their predicate without further notification.
AwakeIn(ops) == {t \in Threads : pc[t] \in {"enter", "woken"} /\ call[t] \in ops}

PushReady == Len(queue_) < Capacity \/ closed_
PopReady  == queue_ # <<>> \/ closed_

Init ==
  /\ queue_ = <<>> /\ closed_ = FALSE
  /\ pc = [t \in Threads |-> "idle"]
  /\ call = [t \in Threads |-> "close"]
  /\ item = [t \in Threads |-> NoItem]
  /\ expired = {}
  /\ calls = 0 /\ pushThrows = 0 /\ popThrows = 0
  /\ accepted = <<>> /\ delivered = <<>> /\ ended = FALSE

Begin(t, op, x) ==
  /\ pc[t] = "idle" /\ calls < MaxCalls
  /\ pc' = [pc EXCEPT ![t] = "enter"]
  /\ call' = [call EXCEPT ![t] = op]
  /\ item' = [item EXCEPT ![t] = x]
  /\ calls' = calls + 1
  /\ UNCHANGED <<queue_, closed_, expired, pushThrows, popThrows, accepted,
                 delivered, ended>>

\* Faulty variant: every wakeup starts a new wait of the full timeout.
WaitAgain(t) ==
  /\ pc' = [pc EXCEPT ![t] = "asleep"] /\ UNCHANGED expired
  /\ UNCHANGED <<queue_, closed_, pushThrows, popThrows, accepted, delivered, ended>>

(***************************************************************************)
(* The predicate is false: the thread sleeps, or, when wait_for was woken  *)
(* after its deadline, the call gives up.                                  *)
(***************************************************************************)
WaitOrGiveUp(t) ==
  /\ IF pc[t] = "woken" /\ t \in expired
     THEN pc' = [pc EXCEPT ![t] = "idle"] /\ expired' = expired \ {t}
     ELSE pc' = [pc EXCEPT ![t] = "asleep"] /\ UNCHANGED expired
  /\ UNCHANGED <<queue_, closed_, pushThrows, popThrows, accepted, delivered, ended>>

\* The call returns, after notify_one () on the condition variable of waiters.
ReturnNotifying(t, waiters) ==
  /\ expired' = expired \ {t}
  /\ \/ waiters = {} /\ pc' = [pc EXCEPT ![t] = "idle"]
     \/ \E w \in waiters : pc' = [pc EXCEPT ![t] = "idle", ![w] = "woken"]

\* The call returns false or nullopt, or throws: nobody is notified.
Return(t) ==
  /\ expired' = expired \ {t}
  /\ pc' = [pc EXCEPT ![t] = "idle"]
  /\ UNCHANGED <<queue_, closed_, accepted, delivered>>

(***************************************************************************)
(* push () and try_push (), from the lock to the unlock or the wait.       *)
(***************************************************************************)
PushRefused(t) ==
  /\ closed_
  /\ Return(t)
  /\ UNCHANGED <<pushThrows, popThrows, ended>>

\* Faulty variants: notify only when the queue was empty; accept when closed.
NotifiedFirst == IF queue_ = <<>> THEN AsleepIn(Pops) ELSE {}

Notified == AsleepIn(Pops)

Always == TRUE

Accepting == ~closed_

PushAccepted(t) ==
  /\ Accepting
  /\ queue_' = Append(queue_, item[t])
  /\ accepted' = Append(accepted, item[t])
  /\ ReturnNotifying(t, Notified)
  /\ UNCHANGED <<closed_, pushThrows, popThrows, delivered, ended>>

PushThrows(t) ==
  /\ ~closed_ /\ pushThrows < MaxThrows
  /\ pushThrows' = pushThrows + 1
  /\ Return(t)
  /\ UNCHANGED <<popThrows, ended>>

Push(t) ==
  /\ t \in AwakeIn(Pushes)
  /\ IF PushReady
     THEN PushRefused(t) \/ PushAccepted(t) \/ PushThrows(t)
     ELSE WaitOrGiveUp(t)
  /\ UNCHANGED <<call, item, calls>>

(***************************************************************************)
(* pop () and try_pop ().                                                  *)
(***************************************************************************)
\* Faulty variant: closed means the end, whatever is still queued.
Closed == closed_

Drained == queue_ = <<>> /\ closed_

PopEnds(t) ==
  /\ Drained
  /\ ended' = (ended \/ call[t] = "pop")
  /\ Return(t)
  /\ UNCHANGED <<pushThrows, popThrows>>

PopDelivers(t) ==
  /\ queue_ # <<>>
  /\ queue_' = Tail(queue_)
  /\ delivered' = Append(delivered, Head(queue_))
  /\ ReturnNotifying(t, AsleepIn(Pushes))
  /\ UNCHANGED <<closed_, pushThrows, popThrows, accepted, ended>>

PopThrows(t) ==
  /\ queue_ # <<>> /\ popThrows < MaxThrows
  /\ popThrows' = popThrows + 1
  /\ Return(t)
  /\ UNCHANGED <<pushThrows, ended>>

Pop(t) ==
  /\ t \in AwakeIn(Pops)
  /\ IF PopReady
     THEN PopEnds(t) \/ PopDelivers(t) \/ PopThrows(t)
     ELSE WaitOrGiveUp(t)
  /\ UNCHANGED <<call, item, calls>>

(***************************************************************************)
(* close (): closed_ is set under the lock, the two notify_all () follow   *)
(* without it.                                                             *)
(***************************************************************************)
CloseSet(t) ==
  /\ pc[t] = "enter" /\ call[t] = "close"
  /\ closed_' = TRUE
  /\ pc' = [pc EXCEPT ![t] = "notifyEmpty"]
  /\ UNCHANGED <<queue_, call, item, expired, calls, pushThrows, popThrows, accepted,
                 delivered, ended>>

\* notify_all (): every waiter wakes, and t goes on to next.
NotifyAll(t, waiters, next) ==
  /\ pc' = [u \in Threads |-> IF u = t THEN next
                              ELSE IF u \in waiters THEN "woken" ELSE pc[u]]
  /\ UNCHANGED <<queue_, closed_, call, item, expired, calls, pushThrows, popThrows,
                 accepted, delivered, ended>>

CloseNotifyEmpty(t) ==
  pc[t] = "notifyEmpty" /\ NotifyAll(t, AsleepIn(Pops), "notifyFull")

\* Faulty variant: the wrong condition variable notified twice.
CloseNotifyEmptyTwice(t) ==
  pc[t] = "notifyFull" /\ NotifyAll(t, AsleepIn(Pops), "idle")

CloseNotifyFull(t) ==
  pc[t] = "notifyFull" /\ NotifyAll(t, AsleepIn(Pushes), "idle")

(***************************************************************************)
(* What the condition variables do on their own.  wait_for looks at the    *)
(* clock when it has woken, so a deadline that passes at any time after    *)
(* the call began counts.                                                  *)
(***************************************************************************)
Deadline(t) ==
  /\ pc[t] \in {"enter", "asleep", "woken"} /\ call[t] \in Timed /\ t \notin expired
  /\ expired' = expired \cup {t}
  /\ UNCHANGED <<queue_, closed_, pc, call, item, calls, pushThrows, popThrows,
                 accepted, delivered, ended>>

Wake(t) ==
  /\ pc[t] = "asleep"
  /\ pc' = [pc EXCEPT ![t] = "woken"]
  /\ UNCHANGED <<queue_, closed_, call, item, expired, calls, pushThrows, popThrows,
                 accepted, delivered, ended>>

TimeoutWake(t) == t \in expired /\ Wake(t)
SpuriousWake(t) == t \notin expired /\ Wake(t)

Step(t) ==
  Push(t) \/ Pop(t) \/ CloseSet(t) \/ CloseNotifyEmpty(t) \/ CloseNotifyFull(t)

Next ==
  \E t \in Threads :
    \/ \E op \in Pushes, x \in Items : Begin(t, op, x)
    \/ \E op \in Pops \cup {"close"} : Begin(t, op, NoItem)
    \/ Step(t)
    \/ Deadline(t)
    \/ TimeoutWake(t)
    \/ SpuriousWake(t)

Spec == Init /\ [][Next]_vars

(***************************************************************************)
(* A thread that is not asleep gets the lock and moves on (the calls that  *)
(* compete for it are finitely many); clocks advance, and a wait whose     *)
(* deadline has passed ends.  Nothing obliges a thread to call, a deadline *)
(* wait to be notified, or a condition variable to wake spuriously.        *)
(***************************************************************************)
Fairness ==
  \A t \in Threads :
    WF_vars(Step(t)) /\ WF_vars(Deadline(t)) /\ WF_vars(TimeoutWake(t))

FairSpec == Spec /\ Fairness

----------------------------------------------------------------------------
TypeOK ==
  /\ queue_ \in Seq(Items) /\ Len(queue_) <= Capacity
  /\ closed_ \in BOOLEAN /\ ended \in BOOLEAN
  /\ pc \in [Threads -> {"idle", "enter", "asleep", "woken", "notifyEmpty", "notifyFull"}]
  /\ call \in [Threads -> Calls]
  /\ item \in [Threads -> Items \cup {NoItem}]
  /\ \A t \in Threads :
       /\ pc[t] # "idle" /\ call[t] \in Pushes => item[t] \in Items
       /\ pc[t] \in {"asleep", "woken"} => call[t] # "close"
       /\ pc[t] \in {"notifyEmpty", "notifyFull"} => call[t] = "close"
  /\ expired \subseteq {t \in Threads : pc[t] # "idle" /\ call[t] \in Timed}
  /\ calls \in 0 .. MaxCalls
  /\ pushThrows \in 0 .. MaxThrows /\ popThrows \in 0 .. MaxThrows
  /\ accepted \in Seq(Items) /\ delivered \in Seq(Items)

\* One notify_one () per item is enough: while a pop sleeps, every queued item
\* has an awake pop coming for it, and while a push sleeps every free place has
\* an awake push coming for it.  A call that throws after it was notified
\* notifies nobody in turn, so each exception costs at most one wakeup
\* (concurrent_blocking_queue.h:39-40, 57-58, 72-74, 90-92).
NoLostWakeup ==
  /\ TypeOK
  /\ AsleepIn(Pops) # {} =>
       Len(queue_) <= Cardinality(AwakeIn(Pops)) + popThrows
  /\ AsleepIn(Pushes) # {} /\ ~closed_ =>
       Capacity - Len(queue_) <= Cardinality(AwakeIn(Pushes)) + pushThrows

\* The nullopt of pop () means the end: everything a push ever accepted has been
\* taken, and nothing will be accepted later (concurrent_blocking_queue.h:69-70).
NulloptIsFinal == ended => closed_ /\ delivered = accepted

\* Items leave once and in the order they came, at most Capacity are queued, and
\* none is accepted after close (): a bounded queue, at the steps under the lock.
Fifo == INSTANCE BoundedFifo WITH closed <- closed_

ImplementsFifo == Fifo!Spec

\* After close () every call that is blocked or under way returns.
CloseReleasesAll ==
  \A t \in Threads : closed_ /\ pc[t] # "idle" ~> pc[t] = "idle"

\* try_push () and try_pop () return, whatever the other threads do.
TimedCallsReturn ==
  \A t \in Threads :
    pc[t] # "idle" /\ call[t] \in {"try_push", "try_pop"} ~> pc[t] = "idle"
============================================================================
