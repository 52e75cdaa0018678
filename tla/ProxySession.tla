---------------------------- MODULE ProxySession ----------------------------
(***************************************************************************)
(* One session of asio/proxy/server.cc, from the accepted connection to    *)
(* its destruction.  It relays client to server (direction "up", strand1_, *)
(* watchdog1_) and server to client (direction "down", strand2_,           *)
(* watchdog2_), each direction receiving and sending in turn, and either   *)
(* watchdog ends the whole session when its direction is idle for timeout_.*)
(* A single thread runs the io_context, so a handler is one step.          *)
(*                                                                         *)
(* Of Boost.Asio the model keeps what the code relies on: an operation is  *)
(* pending until it succeeds or fails, then its handler is queued; closing *)
(* a socket or cancelling a timer makes what is pending fail, but leaves a *)
(* handler that is already queued with the result it has; an operation     *)
(* started on a closed socket fails.  Time is relative: a deadline is the  *)
(* time left until it, 0 once it has passed.                               *)
(***************************************************************************)
EXTENDS Integers, FiniteSets

CONSTANT Timeout      \* timeout_

ASSUME ProxyAssumption == Timeout \in Nat \ {0}

VARIABLES
  open,           \* client_ and server_ are open; stop () closes both at once
  connect,        \* the async_connect: "pending", "ok", "error", then "done"
  operations,     \* outstanding operations on the sockets
  timer, expiry,  \* of each timer_: "off", "waiting", "fired", "aborted"; time to its expiry
  deadline        \* deadline_ of each watchdog

vars == <<open, connect, operations, timer, expiry, deadline>>

Directions == {"up", "down"}
Kinds      == {"receive", "send"}

Operation(d, kind, result) == [dir |-> d, kind |-> kind, result |-> result]

Init ==
  /\ open = TRUE /\ connect = "pending" /\ operations = {}
  /\ timer = [d \in Directions |-> "off"]
  /\ expiry = [d \in Directions |-> 0]
  /\ deadline = [d \in Directions |-> 0]

\* No handler is left that owns the session: it has been destroyed.
Gone ==
  connect = "done" /\ operations = {} /\ \A d \in Directions : timer[d] = "off"

(***************************************************************************)
(* What the handlers are made of.  Stop is stop (), when others are the    *)
(* operations and waits the timers outstanding; Begun is the operation     *)
(* that receive_from_... or send_to_... starts.                            *)
(***************************************************************************)
\* Faulty variant: the operations under way go on.
FailingNone(others) == others

Failing(others) ==
  {IF o.result = "pending" THEN [o EXCEPT !.result = "error"] ELSE o : o \in others}

Stop(others, waits) ==
  /\ open' = FALSE
  /\ operations' = Failing(others)
  /\ timer' = [d \in Directions |-> IF waits[d] = "waiting" THEN "aborted" ELSE waits[d]]

Begun(d, kind) == Operation(d, kind, IF open THEN "pending" ELSE "error")

After(kind) == IF kind = "receive" THEN "send" ELSE "receive"

(***************************************************************************)
(* handle_connect.  Each watchdog looks at the clock for itself.  passed   *)
(* says what watchdog1_ finds; left is what remains of each deadline in    *)
(* the end, that of watchdog1_ having been set first.  A deadline that has *)
(* passed stops the session on the spot, a receive may have succeeded      *)
(* before that; watchdog2_ is started after that all the same, and its     *)
(* stop () cancels the wait that watchdog1_ may have started.              *)
(***************************************************************************)
ConnectFails ==
  /\ connect = "error" /\ connect' = "done"
  /\ UNCHANGED <<open, operations, timer, expiry, deadline>>

Started(left, passed) ==
  [up   |-> IF passed THEN "off" ELSE IF left["down"] > 0 THEN "waiting" ELSE "aborted",
   down |-> IF left["down"] > 0 THEN "waiting" ELSE "off"]

Connected(left, passed, result) ==
  /\ connect = "ok" /\ connect' = "done"
  /\ open' = (~passed /\ left["down"] > 0)
  /\ operations' = {Operation(d, "receive", result[d]) : d \in Directions}
  /\ timer' = Started(left, passed)
  /\ expiry' = left /\ deadline' = left

HandleConnect ==
  \/ ConnectFails
  \/ \E left \in [Directions -> 0 .. Timeout], passed \in BOOLEAN :
       /\ left["up"] <= left["down"] /\ (passed => left["up"] = 0)
       /\ IF ~passed /\ left["down"] > 0
          THEN Connected(left, passed, [d \in Directions |-> "pending"])
          ELSE \E result \in [Directions -> {"ok", "error"}] : Connected(left, passed, result)

(***************************************************************************)
(* handle_receive and handle_write of either direction.                    *)
(***************************************************************************)
HandleError(o) ==
  /\ o \in operations /\ o.result = "error"
  /\ Stop(operations \ {o}, timer)
  /\ UNCHANGED <<connect, expiry, deadline>>

\* Faulty variant: the next receive does not wait for the send.
FollowingEagerly(o) == {Begun(o.dir, kind) : kind \in Kinds}

Following(o) == {Begun(o.dir, After(o.kind))}

HandleSuccess(o) ==
  /\ o \in operations /\ o.result = "ok"
  /\ operations' = (operations \ {o}) \cup Following(o)
  /\ deadline' = [deadline EXCEPT ![o.dir] = Timeout]
  /\ UNCHANGED <<open, connect, timer, expiry>>

HandleOperation(o) == HandleError(o) \/ HandleSuccess(o)

(***************************************************************************)
(* handle_wait of a watchdog, which calls start () unless it was aborted:  *)
(* the deadline may have been delayed while the timer ran.                 *)
(***************************************************************************)
HandleAborted(d) ==
  /\ timer[d] = "aborted"
  /\ timer' = [timer EXCEPT ![d] = "off"]
  /\ UNCHANGED <<open, connect, operations, expiry, deadline>>

\* Faulty variants: the session is stopped only when both directions are idle;
\* the watchdog is not started again.
PassedForBoth(d) == \A e \in Directions : deadline[e] = 0

Passed(d) == deadline[d] = 0

NotRestarted(d) == [timer EXCEPT ![d] = "off"]

Restarted(d) == [timer EXCEPT ![d] = "waiting"]

HandleExpiry(d) ==
  /\ timer[d] = "fired"
  /\ IF Passed(d)
     THEN Stop(operations, [timer EXCEPT ![d] = "off"]) /\ UNCHANGED expiry
     ELSE /\ timer' = Restarted(d)
          /\ expiry' = [expiry EXCEPT ![d] = deadline[d]]
          /\ UNCHANGED <<open, operations>>
  /\ UNCHANGED <<connect, deadline>>

HandleWait(d) == HandleAborted(d) \/ HandleExpiry(d)

(***************************************************************************)
(* The network, the timers and the clock.                                  *)
(***************************************************************************)
ConnectCompletes ==
  /\ connect = "pending" /\ connect' \in {"ok", "error"}
  /\ UNCHANGED <<open, operations, timer, expiry, deadline>>

Completes(o, result) ==
  /\ o \in operations /\ o.result = "pending"
  /\ operations' = (operations \ {o}) \cup {[o EXCEPT !.result = result]}
  /\ UNCHANGED <<open, connect, timer, expiry, deadline>>

TimerFires(d) ==
  /\ timer[d] = "waiting" /\ expiry[d] = 0
  /\ timer' = [timer EXCEPT ![d] = "fired"]
  /\ UNCHANGED <<open, connect, operations, expiry, deadline>>

LessOne(left) == [d \in Directions |-> IF left[d] > 0 THEN left[d] - 1 ELSE 0]

Tick ==
  /\ \E d \in Directions : deadline[d] > 0 \/ expiry[d] > 0
  /\ deadline' = LessOne(deadline)
  /\ expiry' = LessOne(expiry)
  /\ UNCHANGED <<open, connect, operations, timer>>

Operations(results) ==
  {Operation(d, kind, result) : d \in Directions, kind \in Kinds, result \in results}

Next ==
  \/ ConnectCompletes
  \/ HandleConnect
  \/ \E o \in Operations({"pending"}), result \in {"ok", "error"} : Completes(o, result)
  \/ \E o \in Operations({"ok", "error"}) : HandleOperation(o)
  \/ \E d \in Directions : TimerFires(d) \/ HandleWait(d)
  \/ Tick

Spec == Init /\ [][Next]_vars

(***************************************************************************)
(* A connection attempt ends, queued handlers run in their turn, clocks    *)
(* advance and timers fire.  Nothing obliges a peer to send or to read, so *)
(* a pending operation may stay pending.                                   *)
(***************************************************************************)
Fairness ==
  /\ WF_vars(ConnectCompletes) /\ WF_vars(HandleConnect) /\ WF_vars(Tick)
  /\ \A o \in Operations({"ok", "error"}) : WF_vars(HandleOperation(o))
  /\ \A d \in Directions : WF_vars(TimerFires(d)) /\ WF_vars(HandleWait(d))

FairSpec == Spec /\ Fairness

----------------------------------------------------------------------------
TypeOK ==
  /\ open \in BOOLEAN
  /\ connect \in {"pending", "ok", "error", "done"}
  /\ operations \subseteq Operations({"pending", "ok", "error"})
  /\ \A o \in operations : o.result = "pending" => open
  /\ timer \in [Directions -> {"off", "waiting", "fired", "aborted"}]
  /\ expiry \in [Directions -> 0 .. Timeout]
  /\ deadline \in [Directions -> 0 .. Timeout]

Relaying == open /\ connect = "done" /\ ~Gone

\* Each direction has one operation under way while the session is open, and
\* never two: its buffer is not received into while it is being sent, and no
\* direction is silently dropped (server.cc:109, 128, 146, 165).
OneOperationPerDirection ==
  /\ TypeOK
  /\ \A d \in Directions :
       LET mine == {o \in operations : o.dir = d}
       IN  Cardinality(mine) <= 1 /\ (Relaying => mine # {})

\* While the session is open both directions are watched, by a timer that goes
\* off no later than the deadline it stands for, or has gone off already: the
\* timer is not moved when the deadline is (server.cc:19-33, 41-45).
WatchdogsArmed ==
  Relaying =>
    \A d \in Directions :
      \/ timer[d] = "waiting" /\ expiry[d] <= deadline[d]
      \/ timer[d] = "fired"

\* The session as WatchedSession has it; a peer is a direction.
State ==
  CASE Gone                                                         -> "gone"
    [] ~open /\ ~Gone                                                -> "ending"
    [] open /\ ~Gone /\ (connect = "error"
                         \/ \E o \in operations : o.result = "error") -> "failing"
    [] OTHER                                                        -> "open"

Session == INSTANCE WatchedSession WITH
  Peers <- Directions,
  state <- State,
  due   <- {d \in Directions : connect = "done" /\ deadline[d] = 0}

\* A session ends only for cause: an operation or the connection attempt failed,
\* or a direction did nothing for timeout_, whatever the other was doing; with a
\* cause it does end; and then it goes away: the handlers that were queued when it
\* stopped run, and those they start fail and start nothing more, even where they
\* delay a watchdog or start one after stop ()
\* (server.cc:20-33, 75-80, 87-94, 101-105, 170-178).
ImplementsSession == Session!FairSpec
============================================================================
