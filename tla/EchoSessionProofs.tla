------------------------- MODULE EchoSessionProofs -------------------------
(***************************************************************************)
(* Proofs about the two echo sessions, for every timeout and both ways of  *)
(* noticing that a session is idle.                                        *)
(*                                                                         *)
(* EchoSession comes first.  Its inductive invariant says who is going to  *)
(* start the next operation and the next wait when none is outstanding,    *)
(* how far the accepting thread can be while the strand already works, and *)
(* that the time left until a deadline and the time the session has been   *)
(* idle make up at least the timeout.                                      *)
(*                                                                         *)
(* EchoCoSession follows; it shares EchoTimer with EchoSession.            *)
(***************************************************************************)
EXTENDS EchoSession, EchoCoSession, TLAPS

\* An open session has an operation, or someone about to start one or to stop.
Underway ==
  open => operations # {} \/ Starting # {} \/ \E a \in Actors : pc[a] = "close"

\* The steps that lead to a new wait, or to stop.
Arming(a) ==
  \/ pc[a] \in {"check", "expires", "wait", "close"}
  \/ pc[a] \in Kinds \cup {"clock", "store"} /\ (withTimeout \/ a = "acceptor")

\* An open session has a wait, or someone on the way to start one or to stop.
Armed ==
  open => waits \cap {"pending", "fired"} # {} \/ \E a \in Actors : Arming(a)

\* How far the two threads can be.
Control ==
  /\ \A a \in Actors : pc[a] = "cancel" => ~open
  /\ pc["acceptor"] \in Kinds => operations = {} /\ waits = {} /\ pc["strand"] = "rest"
  /\ ~withTimeout /\ pc["acceptor"] # "rest" =>
       waits = {} /\ pc["strand"] \notin {"check", "expires", "wait"}
  /\ withTimeout => \A a \in Actors : pc[a] \notin {"clock", "store", "check"}

\* The deadlines of the watchdog.  Between the steps named the strand has
\* started an operation and not yet stored the deadline that goes with it.
Storing == pc["strand"] \in {"clock", "store"}

Deadlines ==
  /\ pc["strand"] = "store" => idle + reading["strand"] >= Timeout
  /\ pc["acceptor"] = "store" /\ ~Storing =>
       idle + reading["acceptor"] >= Timeout \/ idle + deadline >= Timeout
  /\ /\ ~withTimeout /\ pc["acceptor"] \notin Kinds \cup {"clock", "store"}
     /\ ~Storing /\ ~overwritten
     => idle + deadline >= Timeout

\* The expiry of a timeout, unless the strand has started an operation and has
\* the timer to set.
Expiries ==
  /\ withTimeout /\ pc["strand"] # "expires"
  /\ "pending" \in waits \/ \E a \in Actors : pc[a] = "wait"
  => idle + expiry >= Timeout

IInv == TypeOK /\ OneOperation /\ Underway /\ Armed /\ Control /\ Deadlines /\ Expiries

----------------------------------------------------------------------------
\* The steps of Next one by one, for proofs by cases.
LEMMA Steps ==
  ASSUME [Next]_vars
  PROVE  \/ \E a \in Actors : Begin(a) \/ ReadClock(a) \/ StoreDeadline(a)
         \/ \E a \in Actors : CheckDeadline(a) \/ SetExpiry(a) \/ AsyncWait(a)
         \/ \E a \in Actors : Close(a) \/ CancelTimer(a)
         \/ \E o \in OperationsIn({"ok", "error"}) : HandleOperation(o)
         \/ \E w \in {"fired", "aborted"} : HandleWait(w)
         \/ \E o \in OperationsIn({"pending"}), outcome \in {"ok", "error"} : Completes(o, outcome)
         \/ TimerFires \/ Tick \/ UNCHANGED vars
BY DEF Next, Step

\* Every call and every handler keeps the types of the members.
LEMMA TypeStep == IInv /\ [Next]_vars => TypeOK'
<1> SUFFICES ASSUME IInv, [Next]_vars PROVE TypeOK'
  OBVIOUS
<1> USE EchoAssumption DEF IInv, TypeOK, Actors, Kinds, Results, WaitStates, OperationsIn, Operation
<1>1. ASSUME NEW a \in Actors, Begin(a) PROVE TypeOK'
  BY <1>1 DEF Begin, Goes
<1>2. ASSUME NEW a \in Actors, ReadClock(a) PROVE TypeOK'
  BY <1>2 DEF ReadClock, Goes
<1>3. ASSUME NEW a \in Actors, StoreDeadline(a) PROVE TypeOK'
  BY <1>3 DEF StoreDeadline, Stored, Goes
<1>4. ASSUME NEW a \in Actors, CheckDeadline(a) PROVE TypeOK'
  BY <1>4 DEF CheckDeadline, Goes
<1>5. ASSUME NEW a \in Actors, SetExpiry(a) PROVE TypeOK'
  BY <1>5 DEF SetExpiry, Goes, Cancelled
<1>6. ASSUME NEW a \in Actors, AsyncWait(a) PROVE TypeOK'
  BY <1>6 DEF AsyncWait, Goes
<1>7. ASSUME NEW a \in Actors, Close(a) PROVE TypeOK'
  <2>1. \A p \in OperationsIn(Results) :
           [p EXCEPT !.result = "error"] \in OperationsIn({"ok", "error"})
    OBVIOUS
  <2>2. operations' \subseteq OperationsIn(Results) /\ \A o \in operations' : o.result # "pending"
    BY <1>7, <2>1 DEF Close, Failing
  <2>3. pc' \in [Actors -> Kinds \cup {"clock", "store", "check", "expires", "wait",
                                     "close", "cancel", "rest"}]
    BY <1>7 DEF Close, Failing, Goes
  <2> QED BY <1>7, <2>2, <2>3 DEF Close
<1>8. ASSUME NEW a \in Actors, CancelTimer(a) PROVE TypeOK'
  BY <1>8 DEF CancelTimer, Goes, Cancelled
<1>9. ASSUME NEW o \in OperationsIn({"ok", "error"}), HandleOperation(o) PROVE TypeOK'
  <2>1. pc' \in [Actors -> Kinds \cup {"clock", "store", "check", "expires", "wait",
                                     "close", "cancel", "rest"}]
    BY <1>9 DEF HandleOperation, Left, Goes, After
  <2>2. waits' \subseteq WaitStates
    BY <1>9 DEF HandleOperation, Cancelled
  <2> QED BY <1>9, <2>1, <2>2 DEF HandleOperation, Left
<1>10. ASSUME NEW w \in {"fired", "aborted"}, HandleWait(w) PROVE TypeOK'
  BY <1>10 DEF HandleWait, AfterWait, Goes
<1>11. ASSUME NEW o \in OperationsIn({"pending"}), NEW outcome \in {"ok", "error"}, Completes(o, outcome)
       PROVE  TypeOK'
  BY <1>11 DEF Completes
<1>12. CASE TimerFires
  BY <1>12 DEF TimerFires
<1>13. CASE Tick
  BY <1>13 DEF Tick, LessOne
<1>14. CASE UNCHANGED vars
  BY <1>14 DEF vars
<1> QED
  BY <1>1, <1>2, <1>3, <1>4, <1>5, <1>6, <1>7, <1>8, <1>9, <1>10, <1>11, <1>12, <1>13, <1>14, Steps

\* No call and no handler starts an operation beside another.
LEMMA OneOperationStep == IInv /\ [Next]_vars => OneOperation'
<1> SUFFICES ASSUME IInv, [Next]_vars PROVE OneOperation'
  OBVIOUS
<1> USE EchoAssumption DEF IInv, TypeOK, OneOperation, Starting, Control, Actors, Kinds, OperationsIn, Operation
<1>1. ASSUME NEW a \in Actors, Begin(a) PROVE OneOperation'
  BY <1>1 DEF Begin, Goes
<1>2. ASSUME NEW a \in Actors, ReadClock(a) PROVE OneOperation'
  BY <1>2 DEF ReadClock, Goes
<1>3. ASSUME NEW a \in Actors, StoreDeadline(a) PROVE OneOperation'
  BY <1>3 DEF StoreDeadline, Stored, Goes
<1>4. ASSUME NEW a \in Actors, CheckDeadline(a) PROVE OneOperation'
  BY <1>4 DEF CheckDeadline, Goes
<1>5. ASSUME NEW a \in Actors, SetExpiry(a) PROVE OneOperation'
  BY <1>5 DEF SetExpiry, Goes
<1>6. ASSUME NEW a \in Actors, AsyncWait(a) PROVE OneOperation'
  BY <1>6 DEF AsyncWait, Goes
<1>7. ASSUME NEW a \in Actors, Close(a) PROVE OneOperation'
  BY <1>7 DEF Close, Failing, Goes
<1>8. ASSUME NEW a \in Actors, CancelTimer(a) PROVE OneOperation'
  BY <1>8 DEF CancelTimer, Goes
<1>9. ASSUME NEW o \in OperationsIn({"ok", "error"}), HandleOperation(o) PROVE OneOperation'
  BY <1>9 DEF HandleOperation, Left, Goes, After
<1>10. ASSUME NEW w \in {"fired", "aborted"}, HandleWait(w) PROVE OneOperation'
  BY <1>10 DEF HandleWait, AfterWait, Goes
<1>11. ASSUME NEW o \in OperationsIn({"pending"}), NEW outcome \in {"ok", "error"}, Completes(o, outcome)
       PROVE  OneOperation'
  BY <1>11 DEF Completes
<1>12. CASE TimerFires
  BY <1>12 DEF TimerFires
<1>13. CASE Tick
  BY <1>13 DEF Tick
<1>14. CASE UNCHANGED vars
  BY <1>14 DEF vars
<1> QED
  BY <1>1, <1>2, <1>3, <1>4, <1>5, <1>6, <1>7, <1>8, <1>9, <1>10, <1>11, <1>12, <1>13, <1>14, Steps

\* A handler that takes an operation starts the next one or stops the session.
LEMMA UnderwayStep == IInv /\ [Next]_vars => Underway'
<1> SUFFICES ASSUME IInv, [Next]_vars PROVE Underway'
  OBVIOUS
<1> USE EchoAssumption DEF IInv, TypeOK, Underway, Starting, Actors, Kinds, OperationsIn, Operation
<1>1. ASSUME NEW a \in Actors, Begin(a) PROVE Underway'
  BY <1>1 DEF Begin, Goes
<1>2. ASSUME NEW a \in Actors, ReadClock(a) PROVE Underway'
  BY <1>2 DEF ReadClock, Goes
<1>3. ASSUME NEW a \in Actors, StoreDeadline(a) PROVE Underway'
  BY <1>3 DEF StoreDeadline, Stored, Goes
<1>4. ASSUME NEW a \in Actors, CheckDeadline(a) PROVE Underway'
  BY <1>4 DEF CheckDeadline, Goes
<1>5. ASSUME NEW a \in Actors, SetExpiry(a) PROVE Underway'
  BY <1>5 DEF SetExpiry, Goes
<1>6. ASSUME NEW a \in Actors, AsyncWait(a) PROVE Underway'
  BY <1>6 DEF AsyncWait, Goes
<1>7. ASSUME NEW a \in Actors, Close(a) PROVE Underway'
  BY <1>7 DEF Close, Failing, Goes
<1>8. ASSUME NEW a \in Actors, CancelTimer(a) PROVE Underway'
  BY <1>8 DEF CancelTimer, Goes
<1>9. ASSUME NEW o \in OperationsIn({"ok", "error"}), HandleOperation(o) PROVE Underway'
  BY <1>9 DEF HandleOperation, Left, Goes, After
<1>10. ASSUME NEW w \in {"fired", "aborted"}, HandleWait(w) PROVE Underway'
  BY <1>10 DEF HandleWait, AfterWait, Goes
<1>11. ASSUME NEW o \in OperationsIn({"pending"}), NEW outcome \in {"ok", "error"}, Completes(o, outcome)
       PROVE  Underway'
  <2>1. operations' # {} /\ UNCHANGED <<open, pc>>
    BY <1>11 DEF Completes
  <2> QED BY <2>1
<1>12. CASE TimerFires
  BY <1>12 DEF TimerFires
<1>13. CASE Tick
  BY <1>13 DEF Tick
<1>14. CASE UNCHANGED vars
  BY <1>14 DEF vars
<1> QED
  BY <1>1, <1>2, <1>3, <1>4, <1>5, <1>6, <1>7, <1>8, <1>9, <1>10, <1>11, <1>12, <1>13, <1>14, Steps

\* A handler that takes a wait, or cancels one, starts another or stops the
\* session, and start gets as far as the first wait.
LEMMA ArmedStep == IInv /\ [Next]_vars => Armed'
<1> SUFFICES ASSUME IInv, [Next]_vars PROVE Armed'
  OBVIOUS
<1> USE EchoAssumption DEF IInv, TypeOK, Armed, Arming, Control, Actors, Kinds, OperationsIn, Operation
<1>1. ASSUME NEW a \in Actors, Begin(a) PROVE Armed'
  BY <1>1 DEF Begin, Goes
<1>2. ASSUME NEW a \in Actors, ReadClock(a) PROVE Armed'
  BY <1>2 DEF ReadClock, Goes
<1>3. ASSUME NEW a \in Actors, StoreDeadline(a) PROVE Armed'
  BY <1>3 DEF StoreDeadline, Stored, Goes
<1>4. ASSUME NEW a \in Actors, CheckDeadline(a) PROVE Armed'
  BY <1>4 DEF CheckDeadline, Goes
<1>5. ASSUME NEW a \in Actors, SetExpiry(a) PROVE Armed'
  BY <1>5 DEF SetExpiry, Goes, Cancelled
<1>6. ASSUME NEW a \in Actors, AsyncWait(a) PROVE Armed'
  BY <1>6 DEF AsyncWait, Goes
<1>7. ASSUME NEW a \in Actors, Close(a) PROVE Armed'
  BY <1>7 DEF Close, Failing, Goes
<1>8. ASSUME NEW a \in Actors, CancelTimer(a) PROVE Armed'
  BY <1>8 DEF CancelTimer, Goes, Cancelled
<1>9. ASSUME NEW o \in OperationsIn({"ok", "error"}), HandleOperation(o) PROVE Armed'
  BY <1>9 DEF HandleOperation, Left, Goes, Cancelled, After
<1>10. ASSUME NEW w \in {"fired", "aborted"}, HandleWait(w) PROVE Armed'
  BY <1>10 DEF HandleWait, AfterWait, Goes
<1>11. ASSUME NEW o \in OperationsIn({"pending"}), NEW outcome \in {"ok", "error"}, Completes(o, outcome)
       PROVE  Armed'
  BY <1>11 DEF Completes
<1>12. CASE TimerFires
  BY <1>12 DEF TimerFires
<1>13. CASE Tick
  BY <1>13 DEF Tick
<1>14. CASE UNCHANGED vars
  BY <1>14 DEF vars
<1> QED
  BY <1>1, <1>2, <1>3, <1>4, <1>5, <1>6, <1>7, <1>8, <1>9, <1>10, <1>11, <1>12, <1>13, <1>14, Steps

\* What the strand can do before start has returned.
LEMMA ControlStep == IInv /\ [Next]_vars => Control'
<1> SUFFICES ASSUME IInv, [Next]_vars PROVE Control'
  OBVIOUS
<1> USE EchoAssumption DEF IInv, TypeOK, Control, Actors, Kinds, OperationsIn, Operation
<1>1. ASSUME NEW a \in Actors, Begin(a) PROVE Control'
  BY <1>1 DEF Begin, Goes
<1>2. ASSUME NEW a \in Actors, ReadClock(a) PROVE Control'
  BY <1>2 DEF ReadClock, Goes
<1>3. ASSUME NEW a \in Actors, StoreDeadline(a) PROVE Control'
  BY <1>3 DEF StoreDeadline, Stored, Goes
<1>4. ASSUME NEW a \in Actors, CheckDeadline(a) PROVE Control'
  BY <1>4 DEF CheckDeadline, Goes
<1>5. ASSUME NEW a \in Actors, SetExpiry(a) PROVE Control'
  BY <1>5 DEF SetExpiry, Goes, Cancelled
<1>6. ASSUME NEW a \in Actors, AsyncWait(a) PROVE Control'
  BY <1>6 DEF AsyncWait, Goes
<1>7. ASSUME NEW a \in Actors, Close(a) PROVE Control'
  BY <1>7 DEF Close, Failing, Goes
<1>8. ASSUME NEW a \in Actors, CancelTimer(a) PROVE Control'
  BY <1>8 DEF CancelTimer, Goes, Cancelled
<1>9. ASSUME NEW o \in OperationsIn({"ok", "error"}), HandleOperation(o) PROVE Control'
  BY <1>9 DEF HandleOperation, Left, Goes, Cancelled, After
<1>10. ASSUME NEW w \in {"fired", "aborted"}, HandleWait(w) PROVE Control'
  BY <1>10 DEF HandleWait, AfterWait, Goes
<1>11. ASSUME NEW o \in OperationsIn({"pending"}), NEW outcome \in {"ok", "error"}, Completes(o, outcome)
       PROVE  Control'
  BY <1>11 DEF Completes
<1>12. CASE TimerFires
  BY <1>12 DEF TimerFires
<1>13. CASE Tick
  BY <1>13 DEF Tick
<1>14. CASE UNCHANGED vars
  BY <1>14 DEF vars
<1> QED
  BY <1>1, <1>2, <1>3, <1>4, <1>5, <1>6, <1>7, <1>8, <1>9, <1>10, <1>11, <1>12, <1>13, <1>14, Steps

\* Time passing adds to idle what it takes from a deadline, and a deadline that
\* is stored is at least as late as one that counts, or marked.
LEMMA DeadlinesStep == IInv /\ [Next]_vars => Deadlines'
<1> SUFFICES ASSUME IInv, [Next]_vars PROVE Deadlines'
  OBVIOUS
<1> USE EchoAssumption DEF IInv, TypeOK, Deadlines, Storing, Control, Actors, Kinds, OperationsIn, Operation
<1>1. ASSUME NEW a \in Actors, Begin(a) PROVE Deadlines'
  BY <1>1 DEF Begin, Goes
<1>2. ASSUME NEW a \in Actors, ReadClock(a) PROVE Deadlines'
  BY <1>2 DEF ReadClock, Goes
<1>3. ASSUME NEW a \in Actors, StoreDeadline(a) PROVE Deadlines'
  <2>1. CASE a = "acceptor"
    <3>1. /\ pc' = [pc EXCEPT !["acceptor"] = "check"] /\ pc["acceptor"] = "store"
          /\ reading' = [reading EXCEPT !["acceptor"] = 0]
          /\ deadline' = reading["acceptor"] /\ idle' = idle
      BY <1>3, <2>1 DEF StoreDeadline, Stored, Goes
    <3>2. /\ pc'["strand"] = pc["strand"] /\ reading'["strand"] = reading["strand"]
          /\ pc'["acceptor"] = "check"
      BY <3>1
    <3>3. ~overwritten' => reading["acceptor"] >= deadline
      <4>1. overwritten' = (a = "acceptor" /\ reading[a] < deadline)
        BY <1>3, Zenon DEF StoreDeadline
      <4>2. ~overwritten' => ~(reading[a] < deadline)
        BY <4>1, <2>1, Zenon
      <4>3. reading[a] \in Nat /\ deadline \in Nat
        OBVIOUS
      <4> QED BY <4>2, <4>3, <2>1
    <3> QED BY <3>1, <3>2, <3>3
  <2>2. CASE a = "strand"
    BY <1>3, <2>2 DEF StoreDeadline, Stored, Goes
  <2> QED BY <2>1, <2>2
<1>4. ASSUME NEW a \in Actors, CheckDeadline(a) PROVE Deadlines'
  BY <1>4 DEF CheckDeadline, Goes
<1>5. ASSUME NEW a \in Actors, SetExpiry(a) PROVE Deadlines'
  BY <1>5 DEF SetExpiry, Goes
<1>6. ASSUME NEW a \in Actors, AsyncWait(a) PROVE Deadlines'
  BY <1>6 DEF AsyncWait, Goes
<1>7. ASSUME NEW a \in Actors, Close(a) PROVE Deadlines'
  BY <1>7 DEF Close, Failing, Goes
<1>8. ASSUME NEW a \in Actors, CancelTimer(a) PROVE Deadlines'
  BY <1>8 DEF CancelTimer, Goes
<1>9. ASSUME NEW o \in OperationsIn({"ok", "error"}), HandleOperation(o) PROVE Deadlines'
  BY <1>9 DEF HandleOperation, Left, Goes, After
<1>10. ASSUME NEW w \in {"fired", "aborted"}, HandleWait(w) PROVE Deadlines'
  BY <1>10 DEF HandleWait, AfterWait, Goes
<1>11. ASSUME NEW o \in OperationsIn({"pending"}), NEW outcome \in {"ok", "error"}, Completes(o, outcome)
       PROVE  Deadlines'
  BY <1>11 DEF Completes
<1>12. CASE TimerFires
  BY <1>12 DEF TimerFires
<1>13. CASE Tick
  BY <1>13 DEF Tick, LessOne
<1>14. CASE UNCHANGED vars
  BY <1>14 DEF vars
<1> QED
  BY <1>1, <1>2, <1>3, <1>4, <1>5, <1>6, <1>7, <1>8, <1>9, <1>10, <1>11, <1>12, <1>13, <1>14, Steps

\* The same for the expiry of a timeout.
LEMMA ExpiriesStep == IInv /\ [Next]_vars => Expiries'
<1> SUFFICES ASSUME IInv, [Next]_vars PROVE Expiries'
  OBVIOUS
<1> USE EchoAssumption DEF IInv, TypeOK, Expiries, Control, Actors, Kinds, OperationsIn, Operation
<1>1. ASSUME NEW a \in Actors, Begin(a) PROVE Expiries'
  BY <1>1 DEF Begin, Goes
<1>2. ASSUME NEW a \in Actors, ReadClock(a) PROVE Expiries'
  BY <1>2 DEF ReadClock, Goes
<1>3. ASSUME NEW a \in Actors, StoreDeadline(a) PROVE Expiries'
  BY <1>3 DEF StoreDeadline, Stored, Goes
<1>4. ASSUME NEW a \in Actors, CheckDeadline(a) PROVE Expiries'
  BY <1>4 DEF CheckDeadline, Goes
<1>5. ASSUME NEW a \in Actors, SetExpiry(a) PROVE Expiries'
  BY <1>5 DEF SetExpiry, Goes, Cancelled
<1>6. ASSUME NEW a \in Actors, AsyncWait(a) PROVE Expiries'
  BY <1>6 DEF AsyncWait, Goes
<1>7. ASSUME NEW a \in Actors, Close(a) PROVE Expiries'
  BY <1>7 DEF Close, Failing, Goes
<1>8. ASSUME NEW a \in Actors, CancelTimer(a) PROVE Expiries'
  BY <1>8 DEF CancelTimer, Goes, Cancelled
<1>9. ASSUME NEW o \in OperationsIn({"ok", "error"}), HandleOperation(o) PROVE Expiries'
  BY <1>9 DEF HandleOperation, Left, Goes, Cancelled, After
<1>10. ASSUME NEW w \in {"fired", "aborted"}, HandleWait(w) PROVE Expiries'
  BY <1>10 DEF HandleWait, AfterWait, Goes
<1>11. ASSUME NEW o \in OperationsIn({"pending"}), NEW outcome \in {"ok", "error"}, Completes(o, outcome)
       PROVE  Expiries'
  BY <1>11 DEF Completes
<1>12. CASE TimerFires
  BY <1>12 DEF TimerFires
<1>13. CASE Tick
  BY <1>13 DEF Tick, LessOne
<1>14. CASE UNCHANGED vars
  BY <1>14 DEF vars
<1> QED
  BY <1>1, <1>2, <1>3, <1>4, <1>5, <1>6, <1>7, <1>8, <1>9, <1>10, <1>11, <1>12, <1>13, <1>14, Steps

----------------------------------------------------------------------------
\* Every step preserves the inductive invariant.
LEMMA InvStep == IInv /\ [Next]_vars => IInv'
<1>1. IInv => TypeOK
  BY DEF IInv
<1> QED
  BY <1>1, TypeStep, OneOperationStep, UnderwayStep, ArmedStep, ControlStep, DeadlinesStep,
     ExpiriesStep DEF IInv

LEMMA Inductive == Spec => []IInv
<1>1. Init => IInv
  <2> SUFFICES ASSUME Init PROVE IInv
    OBVIOUS
  <2>1. /\ pc["acceptor"] = "receive" /\ pc["strand"] = "rest"
        /\ pc \in [Actors -> {"receive", "rest"}]
    BY DEF Init, Actors
  <2>2. TypeOK
    <3>1. pc \in [Actors -> Kinds \cup {"clock", "store", "check", "expires", "wait",
                                      "close", "cancel", "rest"}]
      BY <2>1 DEF Kinds
    <3>2. 0 \in 0 .. Timeout
      BY EchoAssumption
    <3> QED BY <3>1, <3>2 DEF Init, TypeOK
  <2>3. OneOperation /\ Underway /\ Armed /\ Control
    BY <2>1 DEF Init, OneOperation, Underway, Armed, Arming, Control, Starting, Actors, Kinds
  <2>4. Deadlines /\ Expiries
    BY <2>1 DEF Init, Deadlines, Storing, Expiries, Actors, Kinds
  <2> QED BY <2>2, <2>3, <2>4 DEF IInv
<1> QED BY <1>1, InvStep, PTL DEF Spec

\* The state has its type; in particular no operation is pending on a closed
\* socket (server.cc:44-49).
THEOREM TypeCorrect == Spec => []TypeOK
<1>1. IInv => TypeOK
  BY DEF IInv
<1> QED BY Inductive, <1>1, PTL

\* buffer_ has one user at a time, although start runs outside the strand
\* (server.cc:51-88, 110-150).
THEOREM OneOperationAtATime == Spec => []OneOperation
<1>1. IInv => OneOperation
  BY DEF IInv
<1> QED BY Inductive, <1>1, PTL

\* A session at rest is open with an operation and a timer, or it is stopped
\* (server.cc:38-41, 51-56, 90-108, 110-162).
THEOREM NeverUnwatched == Spec => []Watched
<1>1. IInv => Watched
  BY DEF IInv, Watched, Resting, Underway, Armed, Arming, Starting, Actors, Kinds
<1> QED BY Inductive, <1>1, PTL

\* A session is stopped only for an operation that failed, by a watchdog that finds
\* it idle for timeout_ or was misled by start, or by a wait that had run out; and
\* no wait runs out before timeout_ has gone by without an operation being started,
\* but while the handler that has started one sets the timer
\* (server.cc:58-62, 67, 87, 90-103, 115, 136, 152-162).
THEOREM StoppedForCause == Spec => StopsForCause
<1> DEFINE Cause ==
      \/ \E o \in operations \ operations' : o.result = "error"
      \/ ~withTimeout /\ (idle = Timeout \/ overwritten \/ StoreMissed)
      \/ withTimeout /\ "fired" \in waits \ waits'
<1>1. ASSUME IInv, [Next]_vars, NEW a \in Actors, Stops(a)
      PROVE  Cause
  <2>0. TypeOK /\ Control /\ Deadlines
    BY <1>1 DEF IInv
  <2> USE <1>1, <2>0 DEF TypeOK, Stops, Actors, Kinds
  <2>1. ASSUME NEW b \in Actors,
               Begin(b) \/ ReadClock(b) \/ StoreDeadline(b) \/ SetExpiry(b)
                 \/ AsyncWait(b) \/ Close(b) \/ CancelTimer(b)
        PROVE  FALSE
    BY <2>1 DEF Begin, ReadClock, StoreDeadline, SetExpiry, AsyncWait, Close,
       CancelTimer, Goes
  <2>2. ASSUME NEW b \in Actors, CheckDeadline(b)
        PROVE  ~withTimeout /\ (idle = Timeout \/ overwritten \/ StoreMissed)
    <3>1. pc[b] = "check" /\ deadline = 0
      BY <2>2 DEF CheckDeadline, Goes
    <3>2. ~withTimeout
      BY <3>1 DEF Control
    <3>3. CASE Storing
      BY <3>1, <3>2, <3>3 DEF StoreMissed, Storing
    <3>4. CASE ~Storing /\ ~overwritten
      <4>1. pc["acceptor"] \in {"check", "rest"}
        BY <3>1, <3>2 DEF Control
      <4>2. idle + deadline >= Timeout
        BY <3>2, <3>4, <4>1 DEF Deadlines
      <4> QED BY <3>1, <3>2, <4>2, EchoAssumption
    <3> QED BY <3>2, <3>3, <3>4
  <2>3. ASSUME NEW o \in OperationsIn({"ok", "error"}), HandleOperation(o)
        PROVE  \E p \in operations \ operations' : p.result = "error"
    <3>1. o \in operations \ operations'
      BY <2>3 DEF HandleOperation, Left
    <3>2. o.result = "error"
      BY <2>3 DEF HandleOperation, Goes, After
    <3> QED BY <3>1, <3>2
  <2>4. ASSUME NEW w \in {"fired", "aborted"}, HandleWait(w)
        PROVE  withTimeout /\ "fired" \in waits \ waits'
    BY <2>4 DEF HandleWait, AfterWait, Goes
  <2> QED
    BY <2>1, <2>2, <2>3, <2>4, Steps DEF Completes, TimerFires, Tick, vars
<1>2. IInv => (withTimeout /\ TimerFires => idle = Timeout \/ pc["strand"] = "expires")
  BY EchoAssumption DEF IInv, TypeOK, Expiries, TimerFires
<1>3. IInv /\ [Next]_vars =>
        [/\ \A a \in Actors : Stops(a) => Cause
         /\ withTimeout /\ TimerFires => idle = Timeout \/ pc["strand"] = "expires"]_vars
  BY <1>1, <1>2
<1> QED BY Inductive, <1>3, PTL DEF Spec, StopsForCause

----------------------------------------------------------------------------
\* A session that is gone is closed: nothing but stop () leaves it without an
\* operation and without a wait.
LEMMA GoneIsEnding == IInv => (Gone => Ending)
BY DEF IInv, Underway, Starting, Gone, Ending, Actors, Kinds

\* An operation has failed and its handler has not run yet.
Failed == \E o \in operations : o.result = "error"

\* What is gone stays gone: no handler is left that could start anything.
LEMMA StaysGone ==
  ASSUME IInv, [Next]_vars, Gone
  PROVE  Gone'
<1>0. TypeOK
  BY DEF IInv
<1> USE <1>0 DEF Gone, Actors, Kinds
<1>1. ASSUME NEW a \in Actors,
             Begin(a) \/ ReadClock(a) \/ StoreDeadline(a) \/ CheckDeadline(a) \/ SetExpiry(a)
               \/ AsyncWait(a) \/ Close(a) \/ CancelTimer(a)
      PROVE  FALSE
  BY <1>1 DEF Begin, ReadClock, StoreDeadline, CheckDeadline, SetExpiry, AsyncWait, Close,
     CancelTimer
<1> QED
  BY <1>1, Steps DEF HandleOperation, HandleWait, Completes, TimerFires, Tick, vars

\* What is ending stays so: the socket is not opened again, and the step before
\* stop () has closed it is stop ().
LEMMA StaysEnding ==
  ASSUME IInv, [Next]_vars, Ending
  PROVE  Ending'
<1>0. TypeOK
  BY DEF IInv
<1> USE <1>0 DEF TypeOK, Ending, Actors, Kinds
<1>1. ASSUME NEW a \in Actors,
             Begin(a) \/ ReadClock(a) \/ StoreDeadline(a) \/ CheckDeadline(a) \/ SetExpiry(a)
               \/ AsyncWait(a) \/ CancelTimer(a)
      PROVE  Ending'
  BY <1>1 DEF Begin, ReadClock, StoreDeadline, CheckDeadline, SetExpiry, AsyncWait,
     CancelTimer, Goes
<1>2. ASSUME NEW a \in Actors, Close(a) PROVE Ending'
  BY <1>2 DEF Close
<1>3. ASSUME NEW o \in OperationsIn({"ok", "error"}), HandleOperation(o) PROVE Ending'
  BY <1>3 DEF HandleOperation, Goes
<1>4. ASSUME NEW w \in {"fired", "aborted"}, HandleWait(w) PROVE Ending'
  BY <1>4 DEF HandleWait, Goes
<1>5. CASE UNCHANGED <<open, pc>>
  BY <1>5
<1> QED
  BY <1>1, <1>2, <1>3, <1>4, <1>5, Steps DEF Completes, TimerFires, Tick, vars

\* stop () has a cause: an operation that failed, or a client idle for too long.
LEMMA EndsForCause ==
  ASSUME IInv, [Next]_vars, ~Ending, Ending'
  PROVE  Failed \/ Idle
<1>0. TypeOK /\ Control /\ Deadlines
  BY DEF IInv
<1> USE <1>0 DEF TypeOK, Ending, Actors, Kinds
<1>1. ASSUME NEW a \in Actors,
             Begin(a) \/ ReadClock(a) \/ StoreDeadline(a) \/ SetExpiry(a)
               \/ AsyncWait(a) \/ Close(a) \/ CancelTimer(a)
      PROVE  FALSE
  BY <1>1 DEF Begin, ReadClock, StoreDeadline, SetExpiry, AsyncWait, Close,
     CancelTimer, Goes
<1>2. ASSUME NEW a \in Actors, CheckDeadline(a) PROVE Idle
  <2>1. pc[a] = "check" /\ deadline = 0
    BY <1>2 DEF CheckDeadline, Goes
  <2>2. ~withTimeout
    BY <2>1 DEF Control
  <2>3. CASE Storing
    <3>1. a = "acceptor"
      BY <2>1, <2>3 DEF Storing
    <3> QED BY <2>1, <2>3, <3>1 DEF Idle, StoreMissed, Storing
  <2>4. CASE ~Storing /\ ~overwritten
    <3>1. pc["acceptor"] \in {"check", "rest"}
      BY <2>1, <2>2 DEF Control
    <3>2. idle + deadline >= Timeout
      BY <2>2, <2>4, <3>1 DEF Deadlines
    <3> QED BY <2>1, <3>2, EchoAssumption DEF Idle
  <2> QED BY <2>3, <2>4 DEF Idle
<1>3. ASSUME NEW o \in OperationsIn({"ok", "error"}), HandleOperation(o) PROVE Failed
  BY <1>3 DEF HandleOperation, Goes, After, Failed
<1>4. ASSUME NEW w \in {"fired", "aborted"}, HandleWait(w) PROVE Idle
  BY <1>4 DEF HandleWait, AfterWait, Goes, Idle
<1> QED
  BY <1>1, <1>2, <1>3, <1>4, Steps DEF Completes, TimerFires, Tick, vars

\* A failure is not forgotten: only the handler of the operation that failed
\* takes it, and that one stops the session.
LEMMA StaysFailed ==
  ASSUME IInv, [Next]_vars, Failed, ~Ending'
  PROVE  Failed'
<1>0. TypeOK /\ OneOperation
  BY DEF IInv
<1> USE <1>0 DEF TypeOK, Failed, Ending, Actors, Kinds
<1>1. ASSUME NEW a \in Actors, Begin(a) PROVE Failed'
  BY <1>1 DEF Begin
<1>2. ASSUME NEW a \in Actors, Close(a) PROVE FALSE
  BY <1>2 DEF Close
<1>3. ASSUME NEW o \in OperationsIn({"ok", "error"}), HandleOperation(o) PROVE FALSE
  <2>1. o.result = "error"
    BY <1>3 DEF HandleOperation, OneOperation
  <2> QED BY <1>3, <2>1 DEF HandleOperation, Goes
<1>4. ASSUME NEW o \in OperationsIn({"pending"}), NEW outcome \in {"ok", "error"},
             Completes(o, outcome)
      PROVE  Failed'
  <2>1. PICK p \in operations : p.result = "error"
    OBVIOUS
  <2>2. p \in operations'
    BY <1>4, <2>1 DEF Completes
  <2> QED BY <2>1, <2>2
<1>5. CASE UNCHANGED operations
  BY <1>5
<1> QED
  BY <1>1, <1>2, <1>3, <1>4, <1>5, Steps DEF ReadClock, StoreDeadline, CheckDeadline,
     SetExpiry, AsyncWait, CancelTimer, HandleWait, TimerFires, Tick, vars

\* The session behaves as WatchedSession says, but for liveness: it ends only
\* for cause, a failure that is pending ends it and nothing else, and once it is
\* ending it does not come back (server.cc:44-62, 90-108, 110-162).
THEOREM ImplementsSafety == Spec => Session!Spec
<1>1. Init => Session!Init
  <2> SUFFICES ASSUME Init PROVE Session!Init
    OBVIOUS
  <2>1. ~Gone /\ ~Ending /\ operations = {}
    BY DEF Init, Gone, Ending, Actors
  <2>2. State = "open"
    BY <2>1 DEF State
  <2>3. ~Idle
    BY EchoAssumption DEF Init, Idle, StoreMissed
  <2> QED BY <2>2, <2>3 DEF Session!Init
<1>2. IInv /\ [Next]_vars => [Session!Next]_(Session!vars)
  <2> SUFFICES ASSUME IInv, [Next]_vars PROVE [Session!Next]_(Session!vars)
    OBVIOUS
  <2>0. IInv'
    BY InvStep
  <2>1. (Gone => Ending) /\ (Gone' => Ending')
    BY <2>0, GoneIsEnding, PTL
  <2>2. /\ State = IF Gone THEN "gone" ELSE IF Ending THEN "ending"
                   ELSE IF Failed THEN "failing" ELSE "open"
        /\ State' = IF Gone' THEN "gone" ELSE IF Ending' THEN "ending"
                    ELSE IF Failed' THEN "failing" ELSE "open"
    BY <2>1 DEF State, Failed
  <2>3. /\ Gone => Gone'
        /\ Ending => Ending'
        /\ ~Ending /\ Ending' => Failed \/ Idle
        /\ Failed /\ ~Ending' => Failed'
    BY StaysGone, StaysEnding, EndsForCause, StaysFailed
  <2>4. (IF Idle THEN {"client"} ELSE {})' \in SUBSET {"client"}
    OBVIOUS
  <2>5. Session!Next
    BY <2>1, <2>2, <2>3, <2>4
       DEF Session!Next, Session!Fails, Session!Ends, Session!Leaves
  <2> QED BY <2>5
<1> QED BY Inductive, <1>1, <1>2, PTL DEF Spec, Session!Spec

----------------------------------------------------------------------------
(***************************************************************************)
(* EchoCoSession.  The invariant relates the clocks: what is left to the   *)
(* deadline and the time since the last operation was started add up to    *)
(* timeout_, and a timer that waits for an operation runs out no earlier   *)
(* than that.  Both rest on the order in which the coroutines are spawned. *)
(***************************************************************************)
\* Until the echoing coroutine has started no other has.
EchoFirst ==
  echo = "spawned" =>
    result = "pending" /\ waits \subseteq (IF withTimeout THEN {} ELSE {"spawned"})

DeadlineRuns == ~withTimeout /\ echo # "spawned" => deadline + idle = Timeout

ExpiryRuns == withTimeout /\ "pending" \in waits => expiry + idle >= Timeout

CoInv == CoTypeOK /\ EchoFirst /\ DeadlineRuns /\ ExpiryRuns

----------------------------------------------------------------------------
\* Every step keeps the types.
LEMMA CoTypeStep == CoTypeOK /\ [CoNext]_(coVars) => CoTypeOK'
<1> SUFFICES ASSUME CoTypeOK, [CoNext]_(coVars) PROVE CoTypeOK'
  OBVIOUS
<1> USE EchoAssumption DEF CoTypeOK
<1>1. Cancelled \subseteq {"spawned", "fired", "aborted"}
  BY DEF Cancelled
<1>2. ASSUME NEW operation \in {"receiving", "sending"},
             NEW others \in SUBSET {"spawned", "pending", "fired", "aborted"},
             CoBegin(operation, others)
      PROVE  CoTypeOK'
  BY <1>2 DEF CoBegin
<1>3. ASSUME NEW others \in SUBSET {"spawned", "pending", "fired", "aborted"},
             CloseSocket(others)
      PROVE  CoTypeOK'
  BY <1>3 DEF CloseSocket, CoFailing
<1>4. ASSUME NEW time \in 0 .. Timeout,
             NEW others \in SUBSET {"spawned", "pending", "fired", "aborted"},
             WaitUntil(time, others)
      PROVE  CoTypeOK'
  BY <1>4 DEF WaitUntil
<1>5. ASSUME NEW others \in SUBSET {"spawned", "pending", "fired", "aborted"}, Watch(others)
      PROVE  CoTypeOK'
  BY <1>3, <1>4, <1>5 DEF Watch, Leaving
<1>6. CASE EchoStarts
  BY <1>2, <1>6 DEF EchoStarts
<1>7. CASE EchoGoesOn
  BY <1>1, <1>2, <1>7 DEF EchoGoesOn
<1>8. CASE EchoBreaks
  BY <1>1, <1>8 DEF EchoBreaks
<1>9. CASE WaitStarts
  BY <1>1, <1>4, <1>5, <1>9 DEF WaitStarts
<1>10. CASE WaitRunsOut
  BY <1>3, <1>5, <1>10 DEF WaitRunsOut
<1>11. CASE WaitAborted
  BY <1>11 DEF WaitAborted
<1>12. CASE CoCompletes
  BY <1>12 DEF CoCompletes
<1>13. CASE CoTimerFires
  BY <1>13 DEF CoTimerFires
<1>14. CASE CoTick
  BY <1>14 DEF CoTick, LessOne
<1>15. CASE UNCHANGED coVars
  BY <1>15 DEF coVars
<1> QED BY <1>6, <1>7, <1>8, <1>9, <1>10, <1>11, <1>12, <1>13, <1>14, <1>15 DEF CoNext

\* Every step keeps the invariant.
LEMMA CoInvStep == CoInv /\ [CoNext]_(coVars) => CoInv'
<1> SUFFICES ASSUME CoInv, [CoNext]_(coVars) PROVE CoInv'
  OBVIOUS
<1> USE EchoAssumption
<1>0. CoTypeOK /\ CoTypeOK'
  BY CoTypeStep DEF CoInv
<1>1. CASE EchoStarts
  BY <1>0, <1>1 DEF EchoStarts, CoBegin, SetsDeadline, CoInv, CoTypeOK, EchoFirst,
                    DeadlineRuns, ExpiryRuns
<1>2. CASE EchoGoesOn
  BY <1>0, <1>2 DEF EchoGoesOn, Resumes, CoBegin, SetsDeadline, Cancelled, CoInv,
                    CoTypeOK, EchoFirst, DeadlineRuns, ExpiryRuns
<1>3. CASE EchoBreaks
  BY <1>0, <1>3 DEF EchoBreaks, Resumes, Cancelled, CoInv, CoTypeOK, EchoFirst,
                    DeadlineRuns, ExpiryRuns
<1>4. CASE WaitStarts
  <2>1. CASE withTimeout
    BY <1>0, <1>4, <2>1 DEF WaitStarts, WaitUntil, CoInv, CoTypeOK, EchoFirst,
                            DeadlineRuns, ExpiryRuns
  <2>2. CASE ~withTimeout
    BY <1>0, <1>4, <2>2 DEF WaitStarts, Watch, WaitUntil, CloseSocket, Leaving,
                            CoInv, CoTypeOK, EchoFirst, DeadlineRuns, ExpiryRuns
  <2> QED BY <2>1, <2>2
<1>5. CASE WaitRunsOut
  BY <1>0, <1>5 DEF WaitRunsOut, Watch, WaitUntil, CloseSocket, Leaving, CoInv,
                    CoTypeOK, EchoFirst, DeadlineRuns, ExpiryRuns
<1>6. CASE WaitAborted
  BY <1>0, <1>6 DEF WaitAborted, CoInv, CoTypeOK, EchoFirst, DeadlineRuns, ExpiryRuns
<1>7. CASE CoCompletes
  BY <1>0, <1>7 DEF CoCompletes, CoInv, CoTypeOK, EchoFirst, DeadlineRuns, ExpiryRuns
<1>8. CASE CoTimerFires
  BY <1>0, <1>8 DEF CoTimerFires, CoInv, CoTypeOK, EchoFirst, DeadlineRuns, ExpiryRuns
<1>9. CASE CoTick
  BY <1>0, <1>9 DEF CoTick, LessOne, CoInv, CoTypeOK, EchoFirst, DeadlineRuns, ExpiryRuns
<1>10. CASE UNCHANGED coVars
  BY <1>0, <1>10 DEF coVars, CoInv, EchoFirst, DeadlineRuns, ExpiryRuns
<1> QED BY <1>1, <1>2, <1>3, <1>4, <1>5, <1>6, <1>7, <1>8, <1>9, <1>10 DEF CoNext

\* The invariant always holds.
LEMMA CoInductive == CoSpec => []CoInv
<1>1. CoInit => CoInv
  BY EchoAssumption DEF CoInit, CoInv, CoTypeOK, EchoFirst, DeadlineRuns, ExpiryRuns
<1> QED BY <1>1, CoInvStep, PTL DEF CoSpec

----------------------------------------------------------------------------
\* The types, for any timeout_; an operation is pending on an open socket only.
THEOREM CoTypeCorrect == CoSpec => []CoTypeOK
<1>1. CoInv => CoTypeOK
  BY DEF CoInv
<1> QED BY <1>1, CoInductive, PTL

\* The socket is closed only by a watchdog that finds the session idle for timeout_,
\* or by a wait that had run out, and no wait runs out before timeout_ has gone by
\* without an operation being started (co_server.cc:62-72, 85-91, 106, 115, 125-149).
THEOREM CoStoppedForCause == CoSpec => CoStopsForCause
<1>1. CoInv /\ [CoNext]_(coVars) =>
        [/\ open /\ ~open' =>
              IF withTimeout THEN "fired" \in waits \ waits' ELSE idle = Timeout
         /\ withTimeout /\ CoTimerFires => idle = Timeout]_(coVars)
  <2> SUFFICES ASSUME CoInv, CoNext
               PROVE  /\ open /\ ~open' =>
                           IF withTimeout THEN "fired" \in waits \ waits' ELSE idle = Timeout
                      /\ withTimeout /\ CoTimerFires => idle = Timeout
    BY DEF CoInv
  <2> USE EchoAssumption DEF CoInv, CoTypeOK
  <2>1. ASSUME open, ~open' PROVE WaitStarts \/ WaitRunsOut
    BY <2>1 DEF CoNext, EchoStarts, EchoGoesOn, EchoBreaks, CoBegin,
                WaitAborted, CoCompletes, CoTimerFires, CoTick
  <2>2. ASSUME withTimeout, open, ~open' PROVE "fired" \in waits \ waits'
    BY <2>1, <2>2 DEF WaitStarts, WaitUntil, WaitRunsOut, CloseSocket
  <2>3. ASSUME ~withTimeout, open, ~open' PROVE idle = Timeout
    <3>1. deadline = 0
      BY <2>1, <2>3 DEF WaitStarts, WaitRunsOut, Watch, WaitUntil
    <3>2. echo # "spawned"
      BY <2>1, <2>3 DEF WaitStarts, WaitRunsOut, EchoFirst
    <3> QED BY <2>3, <3>1, <3>2 DEF DeadlineRuns
  <2>4. ASSUME withTimeout, CoTimerFires PROVE idle = Timeout
    BY <2>4 DEF CoTimerFires, ExpiryRuns
  <2> QED BY <2>2, <2>3, <2>4
<1> QED BY <1>1, CoInductive, PTL DEF CoSpec, CoStopsForCause

\* The first coroutine is over, or the socket closed.
CoEnding == ~open \/ echo = "over"

\* A client for whom the session is overdue.
CoDue == idle = Timeout \/ (withTimeout /\ "fired" \in waits)

\* What each step does to a session's life.
LEMMA CoLifeStep ==
  ASSUME CoInv, [CoNext]_(coVars)
  PROVE  /\ CoGone => CoGone'
         /\ CoEnding => CoEnding'
         /\ ~CoEnding /\ CoEnding' => result = "error" \/ CoDue
         /\ ~CoEnding /\ result = "error" /\ ~CoEnding' => result' = "error"
<1> USE EchoAssumption DEF CoInv, CoTypeOK, CoGone, CoEnding
<1>1. CASE EchoStarts
  BY <1>1 DEF EchoStarts, CoBegin, EchoFirst
<1>2. CASE EchoGoesOn
  BY <1>2 DEF EchoGoesOn, Resumes, CoBegin
<1>3. CASE EchoBreaks
  BY <1>3 DEF EchoBreaks, Resumes
<1>4. CASE WaitStarts
  <2>1. CASE withTimeout
    BY <1>4, <2>1 DEF WaitStarts, WaitUntil
  <2>2. CASE ~withTimeout
    BY <1>4, <2>2 DEF WaitStarts, Watch, WaitUntil, CloseSocket, DeadlineRuns, CoDue
  <2> QED BY <2>1, <2>2
<1>5. CASE WaitRunsOut
  <2>1. CASE withTimeout
    BY <1>5, <2>1 DEF WaitRunsOut, CloseSocket, CoDue
  <2>2. CASE ~withTimeout
    BY <1>5, <2>2 DEF WaitRunsOut, Watch, WaitUntil, CloseSocket, EchoFirst,
                      DeadlineRuns, CoDue
  <2> QED BY <2>1, <2>2
<1>6. CASE WaitAborted
  BY <1>6 DEF WaitAborted
<1>7. CASE CoCompletes
  BY <1>7 DEF CoCompletes
<1>8. CASE CoTimerFires
  BY <1>8 DEF CoTimerFires
<1>9. CASE CoTick
  BY <1>9 DEF CoTick
<1>10. CASE UNCHANGED coVars
  BY <1>10 DEF coVars
<1> QED BY <1>1, <1>2, <1>3, <1>4, <1>5, <1>6, <1>7, <1>8, <1>9, <1>10 DEF CoNext

\* The session behaves as WatchedSession says, but for liveness: it ends only for
\* cause, a failure that is pending ends it, and once the first coroutine is over
\* or the socket closed it does not come back (co_server.cc:85-92, 109-149).
THEOREM CoImplementsSafety == CoSpec => CoSession!Spec
<1>1. CoState = IF CoGone THEN "gone" ELSE IF CoEnding THEN "ending"
                 ELSE IF result = "error" THEN "failing" ELSE "open"
  BY DEF CoState, CoGone, CoEnding
<1>2. CoInit => CoSession!Init
  BY <1>1, EchoAssumption DEF CoInit, CoSession!Init, CoGone, CoEnding
<1>3. CoInv /\ [CoNext]_(coVars) => [CoSession!Next]_(CoSession!vars)
  <2> SUFFICES ASSUME CoInv, [CoNext]_(coVars) PROVE CoSession!Next
    OBVIOUS
  <2>1. /\ CoGone => CoGone'
        /\ CoEnding => CoEnding'
        /\ ~CoEnding /\ CoEnding' => result = "error" \/ CoDue
        /\ ~CoEnding /\ result = "error" /\ ~CoEnding' => result' = "error"
        /\ (CoGone => CoEnding) /\ (CoGone' => CoEnding')
    BY CoLifeStep DEF CoGone, CoEnding
  <2>2. CoState' = IF CoGone' THEN "gone" ELSE IF CoEnding' THEN "ending"
                    ELSE IF result' = "error" THEN "failing" ELSE "open"
    BY DEF CoState, CoGone, CoEnding
  <2>3. CoDue <=>
          (IF idle = Timeout \/ (withTimeout /\ "fired" \in waits) THEN {"client"} ELSE {}) # {}
    BY DEF CoDue
  <2> QED BY <1>1, <2>1, <2>2, <2>3 DEF CoSession!Next, CoSession!Fails, CoSession!Ends,
                                        CoSession!Leaves
<1> QED BY <1>2, <1>3, CoInductive, PTL DEF CoSpec, CoSession!Spec
=============================================================================
