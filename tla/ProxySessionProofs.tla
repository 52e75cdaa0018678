------------------------- MODULE ProxySessionProofs -------------------------
(***************************************************************************)
(* Proofs about ProxySession, for every timeout.  The inductive invariant  *)
(* says that nothing runs before handle_connect, that no direction ever    *)
(* has two operations, and that an open session that is not gone has one   *)
(* operation and one watchdog for each direction.                          *)
(***************************************************************************)
EXTENDS ProxySession, FiniteSetTheorems, TLAPS

\* Before handle_connect has run the session has nothing but its connect.
Connecting ==
  connect # "done" =>
    open /\ operations = {} /\ \A d \in Directions : timer[d] = "off"

\* No direction has two operations.
Single == \A o, p \in operations : o.dir = p.dir => o = p

\* A session that relays has an operation and a watchdog for each direction.
BothUnderway ==
  Relaying => \A d \in Directions : \E o \in operations : o.dir = d

IInv == TypeOK /\ Connecting /\ Single /\ BothUnderway /\ WatchdogsArmed

----------------------------------------------------------------------------
\* What handle_connect finds when the connection is up: whether watchdog1_ finds
\* its deadline passed, the times left to both, and the results of the receives it
\* has started.
LeftAndResult(left, passed, result) ==
  /\ left \in [Directions -> 0 .. Timeout] /\ passed \in BOOLEAN
  /\ result \in [Directions -> {"pending", "ok", "error"}]
  /\ left["up"] <= left["down"] /\ (passed => left["up"] = 0)
  /\ passed \/ left["down"] = 0 => \A d \in Directions : result[d] # "pending"

\* The steps of Next one by one, for proofs by cases.
LEMMA Steps ==
  ASSUME [Next]_vars
  PROVE  \/ ConnectCompletes \/ ConnectFails
         \/ \E left, passed, result :
              LeftAndResult(left, passed, result) /\ Connected(left, passed, result)
         \/ \E o \in Operations({"pending"}), result \in {"ok", "error"} : Completes(o, result)
         \/ \E o \in Operations({"ok", "error"}) : HandleError(o) \/ HandleSuccess(o)
         \/ \E d \in Directions : TimerFires(d) \/ HandleAborted(d) \/ HandleExpiry(d)
         \/ Tick \/ UNCHANGED vars
<1>1. ASSUME HandleConnect
      PROVE  \/ ConnectFails
             \/ \E left, passed, result :
                  LeftAndResult(left, passed, result) /\ Connected(left, passed, result)
  <2>1. CASE ConnectFails
    BY <2>1
  <2>2. ASSUME NEW left \in [Directions -> 0 .. Timeout], NEW passed \in BOOLEAN,
               left["up"] <= left["down"], passed => left["up"] = 0, ~passed, left["down"] > 0,
               Connected(left, passed, [d \in Directions |-> "pending"])
        PROVE  \E l, p, r : LeftAndResult(l, p, r) /\ Connected(l, p, r)
    <3>1. LeftAndResult(left, passed, [d \in Directions |-> "pending"])
      BY <2>2, ProxyAssumption DEF LeftAndResult, Directions
    <3> QED BY <2>2, <3>1
  <2>3. ASSUME NEW left \in [Directions -> 0 .. Timeout], NEW passed \in BOOLEAN,
               left["up"] <= left["down"], passed => left["up"] = 0,
               NEW result \in [Directions -> {"ok", "error"}], Connected(left, passed, result)
        PROVE  \E l, p, r : LeftAndResult(l, p, r) /\ Connected(l, p, r)
    <3>1. LeftAndResult(left, passed, result)
      BY <2>3, ProxyAssumption DEF LeftAndResult, Directions
    <3> QED BY <2>3, <3>1
  <2> QED BY <1>1, <2>1, <2>2, <2>3 DEF HandleConnect
<1> QED BY <1>1 DEF Next, HandleOperation, HandleWait

\* stop () keeps them, whatever part of the operations it finds.
LEMMA StopType ==
  ASSUME TypeOK, NEW others, others \subseteq operations,
         NEW waits \in [Directions -> {"off", "waiting", "fired", "aborted"}],
         Stop(others, waits), UNCHANGED <<connect, expiry, deadline>>
  PROVE  TypeOK'
<1>1. /\ operations' \subseteq Operations({"pending", "ok", "error"})
      /\ \A o \in operations' : o.result # "pending"
  BY DEF TypeOK, Stop, Failing, Operations, Operation, Kinds, Directions
<1>2. open' \in BOOLEAN /\ connect' = connect /\ expiry' = expiry /\ deadline' = deadline
  BY Zenon DEF Stop
<1>3. timer' \in [Directions -> {"off", "waiting", "fired", "aborted"}]
  BY DEF Stop
<1> QED BY <1>1, <1>2, <1>3 DEF TypeOK

\* Every handler keeps the types of the members.
LEMMA TypeStep == IInv /\ [Next]_vars => TypeOK'
<1> SUFFICES ASSUME IInv, [Next]_vars PROVE TypeOK'
  OBVIOUS
<1> USE ProxyAssumption DEF IInv, TypeOK, Directions, Kinds, Operations, Operation
<1>1. CASE ConnectCompletes
  BY <1>1 DEF ConnectCompletes
<1>2. CASE ConnectFails
  BY <1>2 DEF ConnectFails
<1>3. ASSUME NEW left, NEW passed, NEW result,
             LeftAndResult(left, passed, result), Connected(left, passed, result)
      PROVE  TypeOK'
  <2>1. operations' \subseteq Operations({"pending", "ok", "error"})
    BY <1>3 DEF LeftAndResult, Connected
  <2>2. open' = (~passed /\ left["down"] > 0)
    BY <1>3, Zenon DEF Connected
  <2>3. ASSUME NEW o \in operations', o.result = "pending" PROVE open'
    <3>1. PICK d \in Directions : o = Operation(d, "receive", result[d])
      BY <1>3, Zenon DEF Connected
    <3>2. result[d] = "pending"
      BY <2>3, <3>1
    <3>3. ~passed /\ left["down"] > 0
      BY <1>3, <3>2, ProxyAssumption DEF LeftAndResult
    <3> QED BY <2>2, <3>3, Zenon
  <2>4. timer' \in [Directions -> {"off", "waiting", "fired", "aborted"}]
    BY <1>3 DEF Connected, Started
  <2>5. /\ connect' \in {"pending", "ok", "error", "done"}
        /\ expiry' \in [Directions -> 0 .. Timeout] /\ deadline' \in [Directions -> 0 .. Timeout]
    BY <1>3 DEF LeftAndResult, Connected
  <2>6. open' \in BOOLEAN
    BY <2>2, Zenon
  <2> QED BY <2>1, <2>3, <2>4, <2>5, <2>6
<1>4. ASSUME NEW o \in Operations({"pending"}), NEW result \in {"ok", "error"}, Completes(o, result)
      PROVE  TypeOK'
  BY <1>4 DEF Completes
<1>5. ASSUME NEW o \in Operations({"ok", "error"}), HandleError(o) PROVE TypeOK'
  BY <1>5, StopType DEF HandleError
<1>6. ASSUME NEW o \in Operations({"ok", "error"}), HandleSuccess(o) PROVE TypeOK'
  BY <1>6 DEF HandleSuccess, Following, Begun, After
<1>7. ASSUME NEW d \in Directions, TimerFires(d) PROVE TypeOK'
  BY <1>7 DEF TimerFires
<1>8. ASSUME NEW d \in Directions, HandleAborted(d) PROVE TypeOK'
  BY <1>8 DEF HandleAborted
<1>9. ASSUME NEW d \in Directions, HandleExpiry(d) PROVE TypeOK'
  <2>1. CASE deadline[d] = 0
    <3>1. [timer EXCEPT ![d] = "off"] \in [Directions -> {"off", "waiting", "fired", "aborted"}]
      OBVIOUS
    <3>2. Stop(operations, [timer EXCEPT ![d] = "off"]) /\ UNCHANGED <<connect, expiry, deadline>>
      BY <1>9, <2>1 DEF HandleExpiry, Passed
    <3>3. TypeOK
      OBVIOUS
    <3> HIDE DEF IInv, TypeOK, Directions, Operations
    <3> QED BY <3>1, <3>2, <3>3, StopType
  <2>2. CASE deadline[d] # 0
    BY <1>9, <2>2 DEF HandleExpiry, Passed, Restarted
  <2> QED BY <2>1, <2>2
<1>10. CASE Tick
  BY <1>10 DEF Tick, LessOne
<1>11. CASE UNCHANGED vars
  BY <1>11 DEF vars
<1> QED
  BY <1>1, <1>2, <1>3, <1>4, <1>5, <1>6, <1>7, <1>8, <1>9, <1>10, <1>11, Steps

\* Nothing but the connection attempt runs until handle_connect.
LEMMA ConnectingStep == IInv /\ [Next]_vars => Connecting'
<1> SUFFICES ASSUME IInv, [Next]_vars PROVE Connecting'
  OBVIOUS
<1> USE DEF IInv, TypeOK, Connecting, Directions
<1>1. CASE connect' = "done"
  BY <1>1
<1>2. ASSUME connect # "done", NEW o \in Operations({"ok", "error"}),
             HandleError(o) \/ HandleSuccess(o)
      PROVE  FALSE
  BY <1>2 DEF HandleError, HandleSuccess
<1>3. ASSUME connect # "done", NEW d \in Directions,
             TimerFires(d) \/ HandleAborted(d) \/ HandleExpiry(d)
      PROVE  FALSE
  BY <1>3 DEF TimerFires, HandleAborted, HandleExpiry
<1>4. ASSUME connect # "done", NEW o \in Operations({"pending"}), NEW result, Completes(o, result)
      PROVE  FALSE
  BY <1>4 DEF Completes
<1>5. CASE connect # "done" /\ UNCHANGED <<open, operations, timer>>
  BY <1>5
<1>6. connect' # "done" => connect # "done"
  BY Steps DEF ConnectCompletes, ConnectFails, Connected, Completes, HandleError, HandleSuccess,
     TimerFires, HandleAborted, HandleExpiry, Tick, vars
<1> QED
  BY <1>1, <1>2, <1>3, <1>4, <1>5, <1>6, Steps
     DEF ConnectCompletes, ConnectFails, Connected, Tick, vars

\* A handler starts an operation only in the place of the one it takes.
LEMMA SingleStep == IInv /\ [Next]_vars => Single'
<1> SUFFICES ASSUME IInv, [Next]_vars PROVE Single'
  OBVIOUS
<1> USE DEF IInv, TypeOK, Single, Directions, Kinds, Operations, Operation
<1>1. ASSUME NEW left, NEW passed, NEW result, Connected(left, passed, result) PROVE Single'
  BY <1>1 DEF Connected
<1>2. ASSUME NEW o \in Operations({"pending"}), NEW result \in {"ok", "error"}, Completes(o, result)
      PROVE  Single'
  BY <1>2 DEF Completes
<1>3. ASSUME NEW others, others \subseteq operations, NEW waits, Stop(others, waits)
      PROVE  Single'
  BY <1>3 DEF Stop, Failing
<1>4. ASSUME NEW o \in Operations({"ok", "error"}), HandleError(o) PROVE Single'
  BY <1>3, <1>4 DEF HandleError
<1>5. ASSUME NEW o \in Operations({"ok", "error"}), HandleSuccess(o) PROVE Single'
  BY <1>5 DEF HandleSuccess, Following, Begun, After
<1>6. ASSUME NEW d \in Directions, HandleExpiry(d) PROVE Single'
  BY <1>3, <1>6 DEF HandleExpiry
<1>7. CASE UNCHANGED operations
  BY <1>7
<1> QED
  BY <1>1, <1>2, <1>4, <1>5, <1>6, <1>7, Steps
     DEF ConnectCompletes, ConnectFails, TimerFires, HandleAborted, Tick, vars

\* What is gone stays gone: no handler is left that could start anything.
LEMMA StaysGone ==
  ASSUME IInv, [Next]_vars, Gone
  PROVE  Gone' /\ UNCHANGED open
<1> USE DEF Gone, Directions
<1>1. ASSUME NEW o \in Operations({"ok", "error"}), HandleError(o) \/ HandleSuccess(o)
      PROVE  FALSE
  BY <1>1 DEF HandleError, HandleSuccess
<1>2. ASSUME NEW d \in Directions, TimerFires(d) \/ HandleAborted(d) \/ HandleExpiry(d)
      PROVE  FALSE
  BY <1>2 DEF TimerFires, HandleAborted, HandleExpiry
<1>3. CASE Tick \/ UNCHANGED vars
  BY <1>3 DEF Tick, vars
<1> QED
  BY <1>1, <1>2, <1>3, Steps DEF ConnectCompletes, ConnectFails, Connected, Completes

\* What is closed stays closed.
LEMMA StaysClosed ==
  ASSUME IInv, [Next]_vars, ~open
  PROVE  ~open'
<1>1. connect = "done"
  BY DEF IInv, Connecting
<1>2. ASSUME NEW o, HandleError(o) PROVE ~open'
  BY <1>2, Zenon DEF HandleError, Stop
<1>3. ASSUME NEW d \in Directions, HandleExpiry(d) PROVE ~open'
  <2>1. open' = FALSE \/ UNCHANGED open
    BY <1>3, Zenon DEF HandleExpiry, Stop
  <2> QED BY <2>1
<1>4. CASE UNCHANGED open
  BY <1>4
<1> QED
  BY <1>1, <1>2, <1>3, <1>4, Steps DEF ConnectCompletes, ConnectFails, Connected, Completes,
     HandleSuccess, TimerFires, HandleAborted, Tick, vars

\* A session that still relays after a step did so before, unless the step is
\* handle_connect that found both deadlines in the future.
LEMMA StillRelaying ==
  ASSUME IInv, [Next]_vars, Relaying'
  PROVE  \/ Relaying
         \/ \E left, passed, result :
              /\ LeftAndResult(left, passed, result) /\ Connected(left, passed, result)
              /\ ~passed /\ left["down"] > 0
<1>1. open' /\ connect' = "done" /\ ~Gone' /\ open /\ ~Gone
  BY StaysGone, StaysClosed DEF Relaying
<1>2. CASE connect = "done"
  BY <1>1, <1>2 DEF Relaying
<1>3. CASE connect # "done"
  <2>0. operations = {} /\ \A d \in Directions : timer[d] = "off"
    BY <1>3 DEF IInv, Connecting
  <2>1. ~ConnectFails
    BY <1>1, <2>0 DEF ConnectFails, Gone
  <2>2. PICK left, passed, result :
           LeftAndResult(left, passed, result) /\ Connected(left, passed, result)
    BY <1>1, <1>3, <2>1, Steps DEF ConnectCompletes, Completes, HandleError,
       HandleSuccess, TimerFires, HandleAborted, HandleExpiry, Tick, vars
  <2>3. ~passed /\ left["down"] > 0
    BY <1>1, <2>2, Zenon DEF Connected
  <2> QED BY <2>2, <2>3
<1> QED BY <1>2, <1>3

\* A handler that takes an operation starts the next one of its direction, or
\* stops the session.
LEMMA BothUnderwayStep == IInv /\ [Next]_vars => BothUnderway'
<1> SUFFICES ASSUME IInv, [Next]_vars, Relaying', NEW d \in Directions
             PROVE  \E o \in operations' : o.dir = d
  BY DEF BothUnderway, Directions
<1>1. ASSUME NEW left, NEW passed, NEW result, Connected(left, passed, result)
      PROVE  \E o \in operations' : o.dir = d
  <2>1. Operation(d, "receive", result[d]) \in operations'
    BY <1>1 DEF Connected
  <2>2. Operation(d, "receive", result[d]).dir = d
    BY DEF Operation
  <2> QED BY <2>1, <2>2
<1>2. CASE Relaying
  <2>0. PICK p \in operations : p.dir = d
    BY <1>2 DEF IInv, BothUnderway
  <2>1. ASSUME NEW o \in Operations({"pending"}), NEW result \in {"ok", "error"}, Completes(o, result)
        PROVE  \E q \in operations' : q.dir = d
    <3>1. CASE p = o
      <4>1. [o EXCEPT !.result = result] \in operations'
        BY <2>1 DEF Completes
      <4>2. [o EXCEPT !.result = result].dir = d
        BY <2>0, <3>1 DEF Operations, Operation
      <4> QED BY <4>1, <4>2
    <3>2. CASE p # o
      BY <2>0, <2>1, <3>2 DEF Completes
    <3> QED BY <3>1, <3>2
  <2>2. ASSUME NEW o \in Operations({"ok", "error"}), HandleSuccess(o)
        PROVE  \E q \in operations' : q.dir = d
    <3>1. CASE p = o
      <4>1. Begun(d, After(o.kind)) \in operations'
        BY <2>0, <2>2, <3>1 DEF HandleSuccess, Following
      <4>2. Begun(d, After(o.kind)).dir = d
        BY DEF Begun, Operation
      <4> QED BY <4>1, <4>2
    <3>2. CASE p # o
      BY <2>0, <2>2, <3>2 DEF HandleSuccess
    <3> QED BY <3>1, <3>2
  <2>3. ASSUME NEW o \in Operations({"ok", "error"}), HandleError(o) PROVE FALSE
    BY <2>3, Zenon DEF HandleError, Stop, Relaying
  <2>4. ASSUME NEW e \in Directions, HandleExpiry(e) PROVE UNCHANGED operations
    BY <2>4, Zenon DEF HandleExpiry, Stop, Relaying
  <2>5. CASE UNCHANGED operations
    BY <2>0, <2>5
  <2>6. connect = "done"
    BY <1>2 DEF Relaying
  <2> QED
    BY <2>1, <2>2, <2>3, <2>4, <2>5, <2>6, Steps
       DEF ConnectCompletes, ConnectFails, Connected, TimerFires, HandleAborted, Tick, vars
<1> QED BY <1>1, <1>2, StillRelaying

\* A watchdog that has run out is started again with its deadline, or it stops
\* the session; a deadline that moves only gets later than the timer.
LEMMA WatchdogsArmedStep == IInv /\ [Next]_vars => WatchdogsArmed'
<1> DEFINE Watched(d) == \/ timer[d] = "waiting" /\ expiry[d] <= deadline[d]
                         \/ timer[d] = "fired"
<1> SUFFICES ASSUME IInv, [Next]_vars, Relaying', NEW d \in Directions
             PROVE  Watched(d)'
  BY DEF WatchdogsArmed, Directions
<1>1. ASSUME NEW left, NEW passed, NEW result,
             LeftAndResult(left, passed, result), Connected(left, passed, result),
             ~passed, left["down"] > 0
      PROVE  Watched(d)'
  BY <1>1 DEF LeftAndResult, Connected, Started, Directions
<1>2. CASE Relaying
  <2>0. Watched(d) /\ TypeOK
    BY <1>2 DEF IInv, WatchdogsArmed
  <2>a. /\ expiry[d] \in 0 .. Timeout /\ deadline[d] \in 0 .. Timeout /\ Timeout \in Nat
        /\ DOMAIN timer = Directions /\ DOMAIN expiry = Directions /\ DOMAIN deadline = Directions
    BY <2>0, ProxyAssumption DEF TypeOK
  <2>1. ASSUME NEW o \in Operations({"ok", "error"}), HandleSuccess(o) PROVE Watched(d)'
    BY <2>0, <2>a, <2>1 DEF HandleSuccess
  <2>2. ASSUME NEW o \in Operations({"ok", "error"}), HandleError(o) PROVE FALSE
    BY <2>2, Zenon DEF HandleError, Stop, Relaying
  <2>3. ASSUME NEW e \in Directions, TimerFires(e) PROVE Watched(d)'
    BY <2>0, <2>a, <2>3 DEF TimerFires
  <2>4. ASSUME NEW e \in Directions, HandleAborted(e) PROVE FALSE
    BY <1>2, <2>4 DEF HandleAborted, IInv, WatchdogsArmed
  <2>5. ASSUME NEW e \in Directions, HandleExpiry(e) PROVE Watched(d)'
    <3>1. /\ timer' = [timer EXCEPT ![e] = "waiting"]
          /\ expiry' = [expiry EXCEPT ![e] = deadline[e]] /\ deadline' = deadline
      BY <2>5, Zenon DEF HandleExpiry, Stop, Restarted, Relaying
    <3> QED BY <2>0, <2>a, <3>1
  <2>6. CASE Tick
    BY <2>0, <2>a, <2>6 DEF Tick, LessOne
  <2>7. CASE UNCHANGED <<timer, expiry, deadline>>
    BY <2>0, <2>7
  <2>8. connect = "done"
    BY <1>2 DEF Relaying
  <2> QED
    BY <2>1, <2>2, <2>3, <2>4, <2>5, <2>6, <2>7, <2>8, Steps
       DEF ConnectCompletes, ConnectFails, Connected, Completes, vars
<1> QED BY <1>1, <1>2, StillRelaying

\* Every step preserves the inductive invariant.
LEMMA InvStep == IInv /\ [Next]_vars => IInv'
BY TypeStep, ConnectingStep, SingleStep, BothUnderwayStep, WatchdogsArmedStep DEF IInv

LEMMA Inductive == Spec => []IInv
<1>1. Init => IInv
  <2> SUFFICES ASSUME Init PROVE IInv
    OBVIOUS
  <2>1. TypeOK
    <3>1. 0 \in 0 .. Timeout
      BY ProxyAssumption
    <3> QED BY <3>1 DEF Init, TypeOK, Operations
  <2>2. Connecting /\ Single
    BY DEF Init, Connecting, Single
  <2>3. BothUnderway /\ WatchdogsArmed
    BY DEF Init, BothUnderway, WatchdogsArmed, Relaying
  <2> QED BY <2>1, <2>2, <2>3 DEF IInv
<1> QED BY <1>1, InvStep, PTL DEF Spec

----------------------------------------------------------------------------
\* A set whose elements are all the same has at most one.
LEMMA AtMostOne ==
  ASSUME NEW S, \A x, y \in S : x = y
  PROVE  Cardinality(S) <= 1
<1>1. CASE S = {}
  BY <1>1, FS_EmptySet
<1>2. CASE S # {}
  <2>1. PICK x \in S : TRUE
    BY <1>2
  <2>2. S = {x}
    BY <2>1
  <2> QED BY <2>2, FS_Singleton
<1> QED BY <1>1, <1>2

\* Each direction has at most one operation at any time, so that its buffer has
\* one user, and exactly one while the session relays
\* (server.cc:109, 128, 146, 165).
THEOREM OneAtATime == Spec => []OneOperationPerDirection
<1>1. IInv => OneOperationPerDirection
  <2> SUFFICES ASSUME IInv, NEW d \in Directions
               PROVE  LET mine == {o \in operations : o.dir = d}
                      IN  Cardinality(mine) <= 1 /\ (Relaying => mine # {})
    BY DEF IInv, OneOperationPerDirection
  <2> DEFINE mine == {o \in operations : o.dir = d}
  <2>1. \A x, y \in mine : x = y
    BY DEF IInv, Single
  <2>2. Cardinality(mine) <= 1
    <3> HIDE DEF mine
    <3> QED BY <2>1, AtMostOne
  <2>3. Relaying => mine # {}
    BY DEF IInv, BothUnderway
  <2> QED BY <2>2, <2>3
<1> QED BY Inductive, <1>1, PTL

\* An open session is watched in both directions, each by a timer that goes off
\* no later than the deadline it stands for (server.cc:19-33, 41-45).
THEOREM AlwaysWatched == Spec => []WatchdogsArmed
<1>1. IInv => WatchdogsArmed
  BY DEF IInv
<1> QED BY Inductive, <1>1, PTL

----------------------------------------------------------------------------
\* The connection attempt or an operation has failed and its handler has not run.
Failed == connect = "error" \/ \E o \in operations : o.result = "error"

\* A direction has been idle for timeout_.
Due == {d \in Directions : connect = "done" /\ deadline[d] = 0}

\* stop () has a cause: an operation that failed, or a direction idle too long.
LEMMA StopsForCause ==
  ASSUME IInv, [Next]_vars, open, ~open'
  PROVE  Failed \/ Due \cup Due' # {}
<1>1. ASSUME NEW left, NEW passed, NEW result,
             LeftAndResult(left, passed, result), Connected(left, passed, result)
      PROVE  Due' # {}
  <2>1. ~(~passed /\ left["down"] > 0)
    BY <1>1, Zenon DEF Connected
  <2>2. left["up"] = 0
    BY <1>1, <2>1, ProxyAssumption DEF LeftAndResult, Directions
  <2>3. "up" \in Due'
    BY <1>1, <2>2 DEF Due, Connected, Directions
  <2> QED BY <2>3
<1>2. ASSUME NEW o \in Operations({"ok", "error"}), HandleError(o) PROVE Failed
  BY <1>2 DEF HandleError, Failed
<1>3. ASSUME NEW d \in Directions, HandleExpiry(d) PROVE d \in Due
  <2>1. deadline[d] = 0 /\ timer[d] = "fired"
    BY <1>3 DEF HandleExpiry, Passed
  <2> QED BY <2>1 DEF Due, IInv, Connecting
<1> QED
  BY <1>1, <1>2, <1>3, Steps DEF ConnectCompletes, ConnectFails, Completes, HandleSuccess,
     TimerFires, HandleAborted, Tick, vars

\* A failure is not forgotten: its handler stops the session, or leaves nothing.
LEMMA StaysFailed ==
  ASSUME IInv, [Next]_vars, Failed, open', ~Gone'
  PROVE  Failed'
<1>1. CASE connect = "error"
  <2>0. operations = {} /\ \A d \in Directions : timer[d] = "off"
    BY <1>1 DEF IInv, Connecting
  <2>1. ~ConnectFails
    BY <2>0 DEF ConnectFails, Gone
  <2>2. UNCHANGED connect
    BY <1>1, <2>0, <2>1, Steps DEF ConnectCompletes, Connected, Completes, HandleError,
       HandleSuccess, TimerFires, HandleAborted, HandleExpiry, Tick, vars
  <2> QED BY <1>1, <2>2 DEF Failed
<1>2. CASE connect # "error"
  <2>1. PICK p \in operations : p.result = "error"
    BY <1>2 DEF Failed
  <2>2. connect = "done"
    BY <2>1 DEF IInv, Connecting
  <2>3. ASSUME NEW o, HandleError(o) PROVE FALSE
    BY <2>3, Zenon DEF HandleError, Stop
  <2>4. ASSUME NEW o, HandleSuccess(o) PROVE p \in operations'
    BY <2>1, <2>4 DEF HandleSuccess
  <2>5. ASSUME NEW o, NEW result, Completes(o, result) PROVE p \in operations'
    BY <2>1, <2>5 DEF Completes
  <2>6. ASSUME NEW d \in Directions, HandleExpiry(d) PROVE UNCHANGED operations
    BY <2>6, Zenon DEF HandleExpiry, Stop
  <2>7. p \in operations'
    BY <2>1, <2>2, <2>3, <2>4, <2>5, <2>6, Steps DEF ConnectCompletes, ConnectFails, Connected,
       TimerFires, HandleAborted, Tick, vars
  <2> QED BY <2>1, <2>7 DEF Failed
<1> QED BY <1>1, <1>2

\* A session without a failure does not vanish while it is open.
LEMMA NotGoneUnclosed ==
  ASSUME IInv, [Next]_vars, ~Failed, ~Gone, open'
  PROVE  ~Gone'
<1>1. SUFFICES ASSUME Gone' PROVE FALSE
  OBVIOUS
<1>2. open /\ ~ConnectFails
  BY StaysClosed DEF ConnectFails, Failed
<1>3. connect' = "done" /\ operations' = {}
  BY <1>1 DEF Gone
<1>4. CASE connect = "done"
  <2>1. PICK p \in operations : p.dir = "up"
    BY <1>2, <1>4 DEF IInv, BothUnderway, Relaying, Directions
  <2>2. ASSUME NEW o, HandleError(o) PROVE FALSE
    BY <2>2, Zenon DEF HandleError, Stop
  <2>3. ASSUME NEW o, HandleSuccess(o) PROVE FALSE
    BY <1>3, <2>3 DEF HandleSuccess, Following
  <2>4. ASSUME NEW o, NEW result, Completes(o, result) PROVE FALSE
    BY <1>3, <2>4 DEF Completes
  <2>5. ASSUME NEW d \in Directions, HandleExpiry(d) PROVE UNCHANGED operations
    BY <2>5, Zenon DEF HandleExpiry, Stop
  <2> QED
    BY <1>3, <1>4, <2>1, <2>2, <2>3, <2>4, <2>5, Steps DEF ConnectCompletes, ConnectFails,
       Connected, TimerFires, HandleAborted, Tick, vars
<1>5. CASE connect # "done"
  <2>1. ASSUME NEW left, NEW passed, NEW result, Connected(left, passed, result) PROVE FALSE
    BY <1>3, <2>1 DEF Connected, Directions
  <2> QED
    BY <1>2, <1>3, <1>5, <2>1, Steps DEF ConnectCompletes, Completes, HandleError,
       HandleSuccess, TimerFires, HandleAborted, HandleExpiry, Tick, vars
<1> QED BY <1>4, <1>5

\* The session behaves as WatchedSession says, but for liveness: it ends only
\* for cause, a failure that is pending ends it and nothing else, and once it is
\* ending it does not come back
\* (server.cc:20-33, 75-80, 87-94, 101-105, 170-178).
THEOREM ImplementsSafety == Spec => Session!Spec
<1>1. Init => Session!Init
  <2> SUFFICES ASSUME Init PROVE Session!Init
    OBVIOUS
  <2>1. ~Gone /\ open /\ operations = {} /\ connect = "pending"
    BY DEF Init, Gone
  <2>2. State = "open"
    BY <2>1 DEF State
  <2> QED BY <2>1, <2>2 DEF Session!Init
<1>2. IInv /\ [Next]_vars => [Session!Next]_(Session!vars)
  <2> SUFFICES ASSUME IInv, [Next]_vars PROVE [Session!Next]_(Session!vars)
    OBVIOUS
  <2>1. /\ State = IF Gone THEN "gone" ELSE IF ~open THEN "ending"
                   ELSE IF Failed THEN "failing" ELSE "open"
        /\ State' = IF Gone' THEN "gone" ELSE IF ~open' THEN "ending"
                    ELSE IF Failed' THEN "failing" ELSE "open"
    BY DEF State, Failed
  <2>2. /\ Gone => Gone'
        /\ ~open => ~open'
        /\ open /\ ~open' => Failed \/ Due \cup Due' # {}
        /\ Failed /\ open' /\ ~Gone' => Failed'
        /\ ~Failed /\ ~Gone /\ open' => ~Gone'
    BY StaysGone, StaysClosed, StopsForCause, StaysFailed, NotGoneUnclosed
  <2>3. Due' \in SUBSET Directions
    BY DEF Due
  <2>4. Session!Next
    BY <2>1, <2>2, <2>3 DEF Session!Next, Session!Fails, Session!Ends, Session!Leaves, Due
  <2> QED BY <2>4
<1> QED BY Inductive, <1>1, <1>2, PTL DEF Spec, Session!Spec
============================================================================
