---------------------------- MODULE EchoSession ----------------------------
(***************************************************************************)
(* One session of asio/echo/server.cc: it receives into buffer_, sends the *)
(* same bytes back, and so on, until an operation fails or it has been     *)
(* idle for timeout_.  start (with_timeout) chooses between two ways of    *)
(* noticing that: one timeout per operation, or a watchdog that looks at a *)
(* deadline every operation moves.                                         *)
(*                                                                         *)
(* Handlers run on strand_, one at a time, but server::start calls start   *)
(* on the thread that accepted the connection, outside the strand: once    *)
(* the first receive is started its handler may run on another thread at   *)
(* the same time.  The two are actors here, and each access to a member of *)
(* the session is a step of its own.  Two unordered accesses to deadline_  *)
(* are a data race; it is one aligned word, so that the value read or left *)
(* is that of one of the writes, which the steps in either order give.     *)
(*                                                                         *)
(* Boost.Asio and the clock are as in ProxySession.  Waits on timer_ in    *)
(* the same state are not told apart: their handlers do the same thing.    *)
(***************************************************************************)
EXTENDS EchoTimer

VARIABLES
  operations,    \* outstanding operations on socket_
  pc,            \* actor -> what it does next, "rest" between handlers and after start
  reading,       \* actor -> the new deadline it has computed and not stored yet
  overwritten    \* history: start stored its deadline over a later one

vars == <<withTimeout, open, operations, waits, expiry, deadline, pc, reading, idle, overwritten>>

Actors  == {"acceptor", "strand"}
Kinds   == {"receive", "send"}
Results == {"pending", "ok", "error"}
WaitStates == {"pending", "fired", "aborted"}

Operation(kind, result) == [kind |-> kind, result |-> result]

Init ==
  /\ withTimeout \in BOOLEAN
  /\ open = TRUE /\ operations = {}
  /\ waits = {} /\ expiry = 0 /\ deadline = 0
  /\ pc = [acceptor |-> "receive", strand |-> "rest"]
  /\ reading = [a \in Actors |-> 0]
  /\ idle = 0 /\ overwritten = FALSE

\* No handler is left that owns the session, and start has returned.
Gone == operations = {} /\ waits = {} /\ \A a \in Actors : pc[a] = "rest"

Goes(a, step) == pc' = [pc EXCEPT ![a] = step]

(***************************************************************************)
(* receive_with_... and send_with_...: start the operation; then set       *)
(* deadline_, or start the timeout.                                        *)
(***************************************************************************)
Begin(a) ==
  /\ pc[a] \in Kinds
  /\ operations' = operations \cup {Operation(pc[a], IF open THEN "pending" ELSE "error")}
  /\ Goes(a, IF withTimeout THEN "expires" ELSE "clock")
  /\ idle' = 0
  /\ UNCHANGED <<withTimeout, open, waits, expiry, deadline, reading, overwritten>>

ReadClock(a) ==
  /\ pc[a] = "clock"
  /\ reading' = [reading EXCEPT ![a] = Timeout]
  /\ Goes(a, "store")
  /\ UNCHANGED <<withTimeout, open, operations, waits, expiry, deadline, idle, overwritten>>

\* Faulty variant: the deadline set first is kept.
StoredOnce(a) == IF a = "acceptor" THEN reading[a] ELSE deadline

Stored(a) == reading[a]

StoreDeadline(a) ==
  /\ pc[a] = "store"
  /\ deadline' = Stored(a)
  /\ reading' = [reading EXCEPT ![a] = 0]
  /\ Goes(a, IF a = "acceptor" THEN "check" ELSE "rest")
  /\ overwritten' = (a = "acceptor" /\ reading[a] < deadline)
  /\ UNCHANGED <<withTimeout, open, operations, waits, expiry, idle>>

(***************************************************************************)
(* start_watchdog and start_timeout.                                       *)
(***************************************************************************)
CheckDeadline(a) ==
  /\ pc[a] = "check"
  /\ Goes(a, IF deadline = 0 THEN "close" ELSE "expires")
  /\ UNCHANGED <<withTimeout, open, operations, waits, expiry, deadline, reading, idle, overwritten>>

SetExpiry(a) ==
  /\ pc[a] = "expires"
  /\ expiry' = IF withTimeout THEN Timeout ELSE deadline
  /\ waits' = Cancelled
  /\ Goes(a, "wait")
  /\ UNCHANGED <<withTimeout, open, operations, deadline, reading, idle, overwritten>>

AsyncWait(a) ==
  /\ pc[a] = "wait"
  /\ waits' = waits \cup {"pending"}
  /\ Goes(a, "rest")
  /\ UNCHANGED <<withTimeout, open, operations, expiry, deadline, reading, idle, overwritten>>

(***************************************************************************)
(* stop.                                                                   *)
(***************************************************************************)
\* Faulty variant: the operation under way goes on.
FailingNone == operations

Failing ==
  {IF o.result = "pending" THEN [o EXCEPT !.result = "error"] ELSE o : o \in operations}

Close(a) ==
  /\ pc[a] = "close"
  /\ open' = FALSE
  /\ operations' = Failing
  /\ Goes(a, "cancel")
  /\ UNCHANGED <<withTimeout, waits, expiry, deadline, reading, idle, overwritten>>

CancelTimer(a) ==
  /\ pc[a] = "cancel"
  /\ waits' = Cancelled
  /\ Goes(a, "rest")
  /\ UNCHANGED <<withTimeout, open, operations, expiry, deadline, reading, idle, overwritten>>

Step(a) ==
  \/ Begin(a) \/ ReadClock(a) \/ StoreDeadline(a)
  \/ CheckDeadline(a) \/ SetExpiry(a) \/ AsyncWait(a)
  \/ Close(a) \/ CancelTimer(a)

(***************************************************************************)
(* The strand takes up handle_receive or handle_write, which with a        *)
(* timeout first cancel the timer, or handle_wait.                         *)
(***************************************************************************)
After(kind) == IF kind = "receive" THEN "send" ELSE "receive"

\* Faulty variant: the next receive is started beside the send.
LeftEagerly(o) ==
  (operations \ {o}) \cup
    IF o.result = "ok" /\ o.kind = "receive" THEN {Operation("receive", "pending")} ELSE {}

Left(o) == operations \ {o}

HandleOperation(o) ==
  /\ pc["strand"] = "rest"
  /\ o \in operations /\ o.result # "pending"
  /\ operations' = Left(o)
  /\ waits' = IF withTimeout THEN Cancelled ELSE waits
  /\ Goes("strand", IF o.result = "error" THEN "close" ELSE After(o.kind))
  /\ UNCHANGED <<withTimeout, open, expiry, deadline, reading, idle, overwritten>>

\* Faulty variant: a wait that has run out is not acted upon.
NothingAfter(w) == "rest"

AfterWait(w) ==
  IF w = "aborted" THEN "rest" ELSE IF withTimeout THEN "close" ELSE "check"

HandleWait(w) ==
  /\ pc["strand"] = "rest"
  /\ w \in waits /\ w # "pending"
  /\ waits' = waits \ {w}
  /\ Goes("strand", AfterWait(w))
  /\ UNCHANGED <<withTimeout, open, operations, expiry, deadline, reading, idle, overwritten>>

(***************************************************************************)
(* The network, the timer and the clock.                                   *)
(***************************************************************************)
Completes(o, result) ==
  /\ o \in operations /\ o.result = "pending"
  /\ operations' = (operations \ {o}) \cup {[o EXCEPT !.result = result]}
  /\ UNCHANGED <<withTimeout, open, waits, expiry, deadline, pc, reading, idle, overwritten>>

TimerFires ==
  /\ "pending" \in waits /\ expiry = 0
  /\ waits' = (waits \ {"pending"}) \cup {"fired"}
  /\ UNCHANGED <<withTimeout, open, operations, expiry, deadline, pc, reading, idle, overwritten>>

Tick ==
  /\ expiry' = LessOne(expiry)
  /\ deadline' = LessOne(deadline)
  /\ reading' = [a \in Actors |-> LessOne(reading[a])]
  /\ idle' = IF idle < Timeout THEN idle + 1 ELSE idle
  /\ UNCHANGED <<withTimeout, open, operations, waits, pc, overwritten>>

OperationsIn(results) == [kind : Kinds, result : results]

Next ==
  \/ \E a \in Actors : Step(a)
  \/ \E o \in OperationsIn({"ok", "error"}) : HandleOperation(o)
  \/ \E w \in {"fired", "aborted"} : HandleWait(w)
  \/ \E o \in OperationsIn({"pending"}), result \in {"ok", "error"} : Completes(o, result)
  \/ TimerFires
  \/ Tick

Spec == Init /\ [][Next]_vars

(***************************************************************************)
(* The accepting thread and the strand run on, queued handlers get their   *)
(* turn on the strand, clocks advance and timers fire.  Nothing obliges    *)
(* the client to send or to read.                                          *)
(***************************************************************************)
Fairness ==
  /\ \A a \in Actors : WF_vars(Step(a))
  /\ \A o \in OperationsIn({"ok", "error"}) : SF_vars(HandleOperation(o))
  /\ \A w \in {"fired", "aborted"} : SF_vars(HandleWait(w))
  /\ WF_vars(TimerFires) /\ WF_vars(Tick)

FairSpec == Spec /\ Fairness

----------------------------------------------------------------------------
TypeOK ==
  /\ withTimeout \in BOOLEAN /\ open \in BOOLEAN
  /\ operations \subseteq OperationsIn(Results)
  /\ \A o \in operations : o.result = "pending" => open
  /\ waits \subseteq WaitStates
  /\ expiry \in 0 .. Timeout /\ deadline \in 0 .. Timeout /\ idle \in 0 .. Timeout
  /\ pc \in [Actors -> Kinds \cup {"clock", "store", "check", "expires", "wait",
                                   "close", "cancel", "rest"}]
  /\ reading \in [Actors -> 0 .. Timeout]
  /\ overwritten \in BOOLEAN

\* buffer_ is received into and sent from in turn: there is never a second
\* operation under way, nor one about to be started beside it, although start
\* and the first handlers run on two threads (server.cc:51-88, 110-150).
Starting == {a \in Actors : pc[a] \in Kinds}

OneOperation ==
  /\ \A o, p \in operations : o = p
  /\ \A a, b \in Starting : a = b
  /\ operations # {} => Starting = {}

Resting == \A a \in Actors : pc[a] = "rest"

\* Whenever no thread is at work on an open session, an operation is under way
\* and a wait on timer_ is running or has run out.  In particular no order of
\* start's calls on timer_ and those of the first handlers leaves the session
\* without a timer (server.cc:38-41, 51-56, 90-108, 110-162).
Watched == open /\ Resting => operations # {} /\ waits \cap {"pending", "fired"} # {}

\* Start, on its own thread, looks at deadline_ after a handler has started an
\* operation and before it has stored the deadline of it.
StoreMissed == pc["acceptor"] = "check" /\ pc["strand"] \in {"clock", "store"}

\* Whatever stops a session, on either thread, it is for a cause.  A handler
\* stops it for an operation that failed.  The watchdog stops it when no
\* operation was started for timeout_, or when start, on its own thread, missed
\* the deadline of an operation that a handler had started, or stored its own
\* over a later one.  With a timeout per operation it is stopped by a wait that
\* had run out, and a wait runs out only when no operation was started for
\* timeout_, unless the handler that has started one is about to set the timer
\* anew.  The stop may come later than that: a wait that has run out is not
\* cancelled any more, so that an operation that succeeds before the wait is
\* handled does not save the session (server.cc:58-62, 67, 87, 90-103, 115, 136,
\* 152-162).
Stops(a) == pc[a] # "close" /\ pc'[a] = "close"

StopsForCause ==
  [][/\ \A a \in Actors : Stops(a) =>
          \/ \E o \in operations \ operations' : o.result = "error"
          \/ ~withTimeout /\ (idle = Timeout \/ overwritten \/ StoreMissed)
          \/ withTimeout /\ "fired" \in waits \ waits'
     /\ withTimeout /\ TimerFires => idle = Timeout \/ pc["strand"] = "expires"]_vars

\* The session as WatchedSession has it.
Ending == ~open \/ \E a \in Actors : pc[a] = "close"

State ==
  CASE Gone                                         -> "gone"
    [] ~Gone /\ Ending                              -> "ending"
    [] ~Ending /\ \E o \in operations : o.result = "error" -> "failing"
    [] OTHER                                        -> "open"

\* The client has been idle for timeout_, or the session takes it to have been.
Idle ==
  idle = Timeout \/ overwritten \/ StoreMissed \/ (withTimeout /\ "fired" \in waits)

Session == INSTANCE WatchedSession WITH
  Peers <- {"client"},
  state <- State,
  due   <- IF Idle THEN {"client"} ELSE {}

\* A session is stopped only for cause, an operation that failed or a client that
\* did nothing for timeout_ or counts as idle: as a wait for it that has run out
\* and is not yet handled does, whatever the client did since, and the races of
\* start on deadline_ do (overwritten, StoreMissed).  With a cause it is stopped;
\* and then it goes away, even if the timer is started after stop (), by start on
\* the other thread or by a handler that was queued (server.cc:44-62, 90-108,
\* 152-162).
ImplementsSession == Session!FairSpec
============================================================================
