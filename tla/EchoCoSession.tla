--------------------------- MODULE EchoCoSession ---------------------------
(***************************************************************************)
(* One session of asio/echo/co_server.cc: the echo session with stackful   *)
(* coroutines.  One coroutine receives and sends; with the watchdog a      *)
(* second one watches deadline_ for as long as the session lives, with     *)
(* timeouts every operation has a coroutine of its own that waits for it.  *)
(* All run on strand_, start only spawns them, so that what a coroutine    *)
(* does until it suspends is one step.  A failed operation ends the first  *)
(* coroutine without closing the socket: the last coroutine to end         *)
(* destroys the session and with it the socket.                            *)
(*                                                                         *)
(* Boost.Asio, the clock and the set of waits are as in EchoSession; what  *)
(* has a counterpart of the same name there begins with Co.  A coroutine   *)
(* spawned on the strand from the strand starts at once or as soon as the  *)
(* strand is free, before what is queued later.                            *)
(***************************************************************************)
EXTENDS EchoTimer

VARIABLES echo, result   \* the echoing coroutine and the result of its operation

coVars == <<withTimeout, open, echo, result, waits, expiry, deadline, idle>>

CoInit ==
  /\ withTimeout \in BOOLEAN
  /\ open = TRUE
  /\ echo = "spawned" /\ result = "pending"
  /\ waits = IF withTimeout THEN {} ELSE {"spawned"}
  /\ expiry = 0 /\ deadline = 0 /\ idle = 0

\* No coroutine is left that owns the session.
CoGone == echo = "over" /\ waits = {}

(***************************************************************************)
(* The echoing coroutine.                                                  *)
(***************************************************************************)
\* Faulty variant: the send has no deadline of its own.
SetForReceive(operation) == ~withTimeout /\ operation = "receiving"

SetsDeadline(operation) == ~withTimeout

CoBegin(operation, others) ==
  /\ echo' = operation
  /\ result' = IF open THEN "pending" ELSE "error"
  /\ waits' = IF withTimeout THEN others \cup {"spawned"} ELSE others
  /\ deadline' = IF SetsDeadline(operation) THEN Timeout ELSE deadline
  /\ idle' = 0
  /\ UNCHANGED <<withTimeout, open, expiry>>

EchoStarts == echo = "spawned" /\ CoBegin("receiving", waits)

\* The operation has ended and the coroutine's turn has come.
Resumes == echo \in {"receiving", "sending"} /\ (withTimeout => "spawned" \notin waits)

EchoGoesOn ==
  /\ Resumes /\ result = "ok"
  /\ CoBegin(IF echo = "receiving" THEN "sending" ELSE "receiving",
             IF withTimeout THEN Cancelled ELSE waits)

EchoBreaks ==
  /\ Resumes /\ result = "error"
  /\ echo' = "over"
  /\ waits' = Cancelled
  /\ UNCHANGED <<withTimeout, open, result, expiry, deadline, idle>>

(***************************************************************************)
(* The waiting coroutines.  others are the remaining ones.                 *)
(***************************************************************************)
\* Faulty variant: the operation under way goes on.
CoFailingNone == result

CoFailing == IF result = "pending" THEN "error" ELSE result

CloseSocket(others) ==
  /\ open' = FALSE
  /\ result' = CoFailing
  /\ waits' = others
  /\ UNCHANGED <<withTimeout, echo, expiry, deadline, idle>>

WaitUntil(time, others) ==
  /\ expiry' = time
  /\ waits' = others \cup {"pending"}
  /\ UNCHANGED <<withTimeout, open, echo, result, deadline, idle>>

\* One turn of the watchdog's loop.  Faulty variant: the loop goes on after the
\* close.
GoingOn(others) == others \cup {"fired"}

Leaving(others) == others

Watch(others) ==
  \/ deadline = 0 /\ CloseSocket(Leaving(others))
  \/ deadline > 0 /\ WaitUntil(deadline, others)

\* The watchdog is spawned after the echoing coroutine.
WaitStarts ==
  /\ "spawned" \in waits /\ echo # "spawned"
  /\ IF withTimeout
     THEN WaitUntil(Timeout, Cancelled \ {"spawned"})
     ELSE Watch(waits \ {"spawned"})

WaitRunsOut ==
  /\ "fired" \in waits
  /\ IF withTimeout THEN CloseSocket(waits \ {"fired"}) ELSE Watch(waits \ {"fired"})

WaitAborted ==
  /\ "aborted" \in waits
  /\ waits' = waits \ {"aborted"}
  /\ UNCHANGED <<withTimeout, open, echo, result, expiry, deadline, idle>>

(***************************************************************************)
(* The network, the timer and the clock.                                   *)
(***************************************************************************)
CoCompletes ==
  /\ echo \in {"receiving", "sending"} /\ result = "pending"
  /\ result' \in {"ok", "error"}
  /\ UNCHANGED <<withTimeout, open, echo, waits, expiry, deadline, idle>>

CoTimerFires ==
  /\ "pending" \in waits /\ expiry = 0
  /\ waits' = (waits \ {"pending"}) \cup {"fired"}
  /\ UNCHANGED <<withTimeout, open, echo, result, expiry, deadline, idle>>

CoTick ==
  /\ expiry' = LessOne(expiry)
  /\ deadline' = LessOne(deadline)
  /\ idle' = IF idle < Timeout THEN idle + 1 ELSE idle
  /\ UNCHANGED <<withTimeout, open, echo, result, waits>>

CoNext ==
  \/ EchoStarts \/ EchoGoesOn \/ EchoBreaks
  \/ WaitStarts \/ WaitRunsOut \/ WaitAborted
  \/ CoCompletes \/ CoTimerFires \/ CoTick

CoSpec == CoInit /\ [][CoNext]_coVars

(***************************************************************************)
(* Coroutines that can run get their turn on the strand, clocks advance    *)
(* and timers fire.  Nothing obliges the client to send or to read.        *)
(***************************************************************************)
CoFairness ==
  /\ WF_coVars(EchoStarts) /\ WF_coVars(EchoGoesOn) /\ WF_coVars(EchoBreaks)
  /\ WF_coVars(WaitStarts) /\ WF_coVars(WaitRunsOut) /\ WF_coVars(WaitAborted)
  /\ WF_coVars(CoTimerFires) /\ WF_coVars(CoTick)

CoFairSpec == CoSpec /\ CoFairness

----------------------------------------------------------------------------
CoTypeOK ==
  /\ withTimeout \in BOOLEAN /\ open \in BOOLEAN
  /\ echo \in {"spawned", "receiving", "sending", "over"}
  /\ result \in {"pending", "ok", "error"}
  /\ result = "pending" => open
  /\ waits \subseteq {"spawned", "pending", "fired", "aborted"}
  /\ expiry \in 0 .. Timeout /\ deadline \in 0 .. Timeout /\ idle \in 0 .. Timeout

\* The socket is closed only for cause.  The watchdog closes it when no operation
\* was started for timeout_: it does not look at deadline_ before the first
\* coroutine has set it, nor act on a deadline that was moved while it slept.
\* With timeouts it is closed by a wait that had run out, and a wait runs out only
\* when no operation was started for timeout_: never for an operation that has
\* ended.  The close may come later than that: a wait that has run out is not
\* cancelled any more, so that an operation that ends before the waiting coroutine
\* resumes does not save the session (co_server.cc:62-72, 85-91, 106, 115,
\* 125-149).
CoStopsForCause ==
  [][/\ open /\ ~open' =>
          IF withTimeout THEN "fired" \in waits \ waits' ELSE idle = Timeout
     /\ withTimeout /\ CoTimerFires => idle = Timeout]_coVars

\* The session as WatchedSession has it.
CoState ==
  CASE CoGone                                      -> "gone"
    [] ~CoGone /\ (~open \/ echo = "over")         -> "ending"
    [] open /\ echo # "over" /\ result = "error"   -> "failing"
    [] open /\ echo # "over" /\ result # "error"   -> "open"

CoSession == INSTANCE WatchedSession WITH
  Peers <- {"client"},
  state <- CoState,
  due   <- IF idle = Timeout \/ (withTimeout /\ "fired" \in waits) THEN {"client"} ELSE {}

\* A session ends only for cause, an operation that failed, a client idle for
\* timeout_, or one for whom a wait has run out and is not yet handled, whatever
\* it did since; with a cause it does end; and then it goes away, though nothing
\* but the cancelled timer tells the other coroutines, and a watchdog that was due
\* goes on for one more deadline (co_server.cc:85-92, 109-113, 118-122, 135-149).
CoImplementsSession == CoSession!FairSpec
============================================================================
