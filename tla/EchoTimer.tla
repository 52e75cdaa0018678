------------------------------ MODULE EchoTimer ------------------------------
(***************************************************************************)
(* What the sessions of asio/echo/server.cc and co_server.cc have in       *)
(* common: the members start (with_timeout), the watchdog and the timeouts *)
(* work with, and timer_.  EchoSession and EchoCoSession extend it, each   *)
(* with the control of its handlers or coroutines.                         *)
(***************************************************************************)
EXTENDS Integers

CONSTANT Timeout   \* timeout_

ASSUME EchoAssumption == Timeout \in Nat \ {0}

VARIABLES
  withTimeout,   \* the argument of start; server::start passes false
  open,          \* socket_ is open
  waits, expiry, \* states of those that wait for timer_; time to its expiry
  deadline,      \* deadline_
  idle           \* history: the time since an operation was last started

\* timer_.cancel (), which expires_at and expires_after also do.
Cancelled == {IF w = "pending" THEN "aborted" ELSE w : w \in waits}

\* What a tick of the clock leaves of the time to an instant.
LessOne(left) == IF left > 0 THEN left - 1 ELSE 0
==============================================================================
