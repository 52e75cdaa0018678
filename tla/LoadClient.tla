----------------------------- MODULE LoadClient -----------------------------
(***************************************************************************)
(* The load generators asio/echo/client.cc and co_client.cc: threads that  *)
(* each run an io_context with their share of the sessions, a monitor      *)
(* thread that reads the global counters and ends the program when no      *)
(* session is active, and main, which waits for that or for SIGINT.        *)
(*                                                                         *)
(* A handler runs from one asynchronous operation to the next, and those   *)
(* of one thread run one after the other; every change of an atomic        *)
(* counter is a step.  The coroutines of co_client.cc suspend where the    *)
(* handlers of client.cc return, and differ in how they count a failure.   *)
(* Nothing cancels timer_, so that its wait does not fail.  echoes, which  *)
(* is only printed, is left out.                                           *)
(***************************************************************************)
EXTENDS Integers, FiniteSets

CONSTANTS
  Threads,       \* the echo threads (10)
  Connections    \* connections, the program's argument

ASSUME ClientAssumption ==
  /\ IsFiniteSet(Threads) /\ Threads # {}
  /\ Connections \in Nat

VARIABLES
  coroutines,    \* the program: TRUE for co_client.cc, FALSE for client.cc
  thread,        \* state of each echo thread
  session,       \* what each session does next
  completed, connected, failed,
  stop,
  monitor,       \* where monitor () is
  stopped        \* the io_contexts main has stopped

vars == <<coroutines, thread, session, completed, connected, failed, stop, monitor, stopped>>
counters == <<completed, connected, failed>>

PerThread ==
  LET n == Cardinality(Threads)
  IN  Connections \div n + (IF Connections % n # 0 THEN 1 ELSE 0)

Sessions == Threads \X (1 .. PerThread)

Init ==
  /\ coroutines \in BOOLEAN
  /\ thread = [t \in Threads |-> "creating"]
  /\ session = [s \in Sessions |-> "connecting"]
  /\ completed = 0 /\ connected = 0 /\ failed = 0
  /\ stop = FALSE /\ monitor = "connecting" /\ stopped = {}

(***************************************************************************)
(* A thread creates its sessions, which fails when sockets run out, and    *)
(* then runs its io_context.                                               *)
(***************************************************************************)
StartThread(t) ==
  /\ thread[t] = "creating"
  /\ thread' = [thread EXCEPT ![t] = "running"]
  /\ UNCHANGED <<coroutines, session, counters, stop, monitor, stopped>>

FailThread(t) ==
  /\ thread[t] = "creating"
  /\ thread' = [thread EXCEPT ![t] = "failed"]
  /\ UNCHANGED <<coroutines, session, counters, stop, monitor, stopped>>

\* The sessions of a thread in the middle of a handler.
Counting == {"refused", "accepted", "broken", "breaking"}
Busy(t) == \E s \in Sessions : s[1] = t /\ session[s] \in Counting

Dispatches(t) == thread[t] = "running" /\ t \notin stopped /\ ~Busy(t)

Goes(s, step) == session' = [session EXCEPT ![s] = step]

(***************************************************************************)
(* The session: connect, then write, read and wait in turn.                *)
(***************************************************************************)
\* Faulty variant: a refused attempt is not a completed one.
AcceptedOnly(result) == IF result = "accepted" THEN 1 ELSE 0

Completed(result) == 1

HandleConnect(s) ==
  /\ Dispatches(s[1]) /\ session[s] = "connecting"
  /\ \E result \in {"refused", "accepted"} :
       /\ Goes(s, result)
       /\ completed' = completed + Completed(result)
  /\ UNCHANGED <<coroutines, thread, connected, failed, stop, monitor, stopped>>

CountRefused(s) ==
  /\ session[s] = "refused" /\ Goes(s, "over")
  /\ failed' = failed + 1
  /\ UNCHANGED <<coroutines, thread, completed, connected, stop, monitor, stopped>>

CountAccepted(s) ==
  /\ session[s] = "accepted" /\ Goes(s, "writing")
  /\ connected' = connected + 1
  /\ UNCHANGED <<coroutines, thread, completed, failed, stop, monitor, stopped>>

HandleWrite(s) ==
  /\ Dispatches(s[1]) /\ session[s] = "writing"
  /\ \E step \in {"reading", "broken"} : Goes(s, step)
  /\ UNCHANGED <<coroutines, thread, counters, stop, monitor, stopped>>

HandleRead(s) ==
  /\ Dispatches(s[1]) /\ session[s] = "reading"
  /\ \E step \in {"waiting", "broken"} : Goes(s, step)
  /\ UNCHANGED <<coroutines, thread, counters, stop, monitor, stopped>>

HandleWait(s) ==
  /\ Dispatches(s[1]) /\ session[s] = "waiting" /\ Goes(s, "writing")
  /\ UNCHANGED <<coroutines, thread, counters, stop, monitor, stopped>>

\* on_error of client.cc.  Faulty variant: the session stays active.
OneUncounted == 0

OneLess == 1

OnError(s) ==
  /\ ~coroutines
  /\ \/ /\ session[s] = "broken" /\ Goes(s, "breaking")
        /\ failed' = failed + 1 /\ UNCHANGED connected
     \/ /\ session[s] = "breaking" /\ Goes(s, "over")
        /\ connected' = connected - OneLess /\ UNCHANGED failed
  /\ UNCHANGED <<coroutines, thread, completed, stop, monitor, stopped>>

\* The coroutine of co_client.cc counts the other way round before it breaks off.
BreakOff(s) ==
  /\ coroutines
  /\ \/ /\ session[s] = "broken" /\ Goes(s, "breaking")
        /\ connected' = connected - 1 /\ UNCHANGED failed
     \/ /\ session[s] = "breaking" /\ Goes(s, "over")
        /\ failed' = failed + 1 /\ UNCHANGED connected
  /\ UNCHANGED <<coroutines, thread, completed, stop, monitor, stopped>>

Handler(s) ==
  \/ HandleConnect(s) \/ CountRefused(s) \/ CountAccepted(s)
  \/ HandleWrite(s) \/ HandleRead(s) \/ HandleWait(s)
  \/ OnError(s) \/ BreakOff(s)

(***************************************************************************)
(* monitor (): wait for the connections, then for there to be none, then   *)
(* end the program.                                                        *)
(***************************************************************************)
\* Faulty variant: the connections are not waited for.
AtOnce == TRUE

AllCompleted == completed >= Connections

MonitorConnecting ==
  /\ monitor = "connecting"
  /\ stop \/ AllCompleted
  /\ monitor' = "established"
  /\ UNCHANGED <<coroutines, thread, session, counters, stop, stopped>>

MonitorEstablished ==
  /\ monitor = "established"
  /\ monitor' = IF stop THEN "over" ELSE "active"
  /\ UNCHANGED <<coroutines, thread, session, counters, stop, stopped>>

MonitorActive ==
  /\ monitor = "active"
  /\ stop \/ connected = 0
  /\ monitor' = IF stop THEN "over" ELSE "stopping"
  /\ UNCHANGED <<coroutines, thread, session, counters, stop, stopped>>

MonitorStops ==
  /\ monitor = "stopping" /\ monitor' = "over"
  /\ stop' = TRUE
  /\ UNCHANGED <<coroutines, thread, session, counters, stopped>>

Monitor == MonitorConnecting \/ MonitorEstablished \/ MonitorActive \/ MonitorStops

(***************************************************************************)
(* SIGINT, and main once stop is set: it stops the io_contexts one after   *)
(* the other and joins the threads.  io_context::run returns when the      *)
(* context is stopped or has no work left, after the handler it is in.     *)
(***************************************************************************)
Interrupt ==
  /\ stop' = TRUE
  /\ UNCHANGED <<coroutines, thread, session, counters, monitor, stopped>>

StopContext(t) ==
  /\ stop /\ t \notin stopped
  /\ stopped' = stopped \cup {t}
  /\ UNCHANGED <<coroutines, thread, session, counters, stop, monitor>>

\* Faulty variant: the stop is not heeded.
NeverTold(t) == FALSE

Told(t) == t \in stopped

EndThread(t) ==
  /\ thread[t] = "running" /\ ~Busy(t)
  /\ Told(t) \/ \A s \in Sessions : s[1] = t => session[s] = "over"
  /\ thread' = [thread EXCEPT ![t] = "ended"]
  /\ UNCHANGED <<coroutines, session, counters, stop, monitor, stopped>>

\* main has joined every thread.
Exited ==
  /\ stopped = Threads
  /\ \A t \in Threads : thread[t] \in {"ended", "failed"}
  /\ monitor = "over"

Next ==
  \/ \E t \in Threads : StartThread(t) \/ FailThread(t) \/ StopContext(t) \/ EndThread(t)
  \/ \E s \in Sessions : Handler(s)
  \/ Monitor \/ Interrupt

Spec == Init /\ [][Next]_vars

(***************************************************************************)
(* Threads run on.  Nothing obliges the network to finish an operation, so *)
(* that only the handlers that are under way go on.                        *)
(***************************************************************************)
Fairness ==
  /\ WF_vars(Monitor)
  /\ \A t \in Threads :
       WF_vars(StartThread(t) \/ FailThread(t)) /\ WF_vars(StopContext(t)) /\ WF_vars(EndThread(t))
  /\ \A s \in Sessions : WF_vars(CountRefused(s) \/ CountAccepted(s) \/ OnError(s) \/ BreakOff(s))

FairSpec == Spec /\ Fairness

----------------------------------------------------------------------------
In(steps) == {s \in Sessions : session[s] \in steps}

TypeOK ==
  /\ coroutines \in BOOLEAN
  /\ thread \in [Threads -> {"creating", "running", "failed", "ended"}]
  /\ session \in [Sessions -> Counting \cup {"connecting", "writing", "reading", "waiting", "over"}]
  /\ completed \in 0 .. Cardinality(Sessions)
  /\ connected \in 0 .. Cardinality(Sessions)
  /\ failed \in 0 .. Cardinality(Sessions)
  /\ stop \in BOOLEAN
  /\ monitor \in {"connecting", "established", "active", "stopping", "over"}
  /\ stopped \subseteq Threads

\* What the monitor can read at any moment between the steps of the handlers:
\* client.cc may count a session as active and failed, co_client.cc never does,
\* and what is completed beyond both is being counted (client.cc:18-23, 64-77;
\* co_client.cc:53-60, 69-84).
CountersAgree ==
  /\ TypeOK
  /\ completed - Cardinality(In({"refused", "accepted"})) =
       connected + failed
         + Cardinality(In({"breaking"})) * (IF coroutines THEN 1 ELSE -1)

\* The sessions that will still count themselves active, or are.
Live == In({"connecting", "accepted", "writing", "reading", "waiting", "broken"})

\* When the monitor ends the program no session is established, but some may be
\* about to be: those that were not waited for because the number of sessions is
\* rounded up, and on each thread one that is completed and not yet connected.
\* There are fewer than two for every thread (client.cc:64-77, 161-165, 202, 226).
MonitorMissesFew ==
  [][MonitorStops => Cardinality(Live) < 2 * Cardinality(Threads)]_vars

\* Once stop is set, by the monitor or by SIGINT, main and all threads end,
\* whatever the sessions are doing (client.cc:178-185, 202, 214, 224).
StopEndsProgram == stop ~> Exited

\* A program whose sessions have all ended ends by itself
\* (client.cc:18-23, 202, 226-230).
EndsWithItsSessions == (In({"over"}) = Sessions) ~> Exited
=============================================================================
