------------------------------- MODULE Servers -------------------------------
(***************************************************************************)
(* The server programs under asio/, around their sessions: main starts the *)
(* accept loops, then the threads that run the io_context besides it,      *)
(* serves with them, and joins them.  Four programs are told apart:        *)
(*   echo      echo/server.cc: threads, signals, loops of callbacks        *)
(*   co        echo/co_server.cc: the same, each loop a coroutine          *)
(*   proxy     proxy/server.cc: main alone, no signals                     *)
(*   daytime   socket/03, 06 and 07/main.cc: main alone, no signals, loops *)
(*             that go on after an error                                   *)
(* A handler is one step, on whichever thread takes it from the queue; the *)
(* handlers of different sessions share nothing.  An exception that leaves *)
(* a handler leaves run () on that thread, and the handler's loop or       *)
(* session is lost with it: an allocation may fail anywhere, and in co an  *)
(* accept that fails throws, too.  Of a session the model keeps the life   *)
(* that WatchedSession describes and the session modules implement.        *)
(* What has a counterpart of the same name in LoadClient, the program at   *)
(* the other end of the connections, begins with Server.                   *)
(***************************************************************************)
EXTENDS Integers, FiniteSets

CONSTANTS
  Loops,       \* the servers, each with its acceptor
  Workers,     \* the threads main creates
  Served,      \* bound: sessions at the same time
  MaxThrows    \* bound: allocations that fail

ASSUME ServersAssumption ==
  /\ IsFiniteSet(Loops) /\ Loops # {} /\ IsFiniteSet(Workers)
  /\ MaxThrows \in Nat

VARIABLES
  program,
  main,        \* where main is
  worker,      \* each thread: "none", "running", "ended", or "lost" to an exception
  loop,        \* each accept loop: waiting for an accept, which is then handled
  served,      \* each session: "none" (or gone), "open", or "ending"
  signal,      \* the wait for SIGINT and SIGTERM: "off", "waiting", "caught", "over"
  halted,      \* io_context.stop () was called
  throws

serverVars == <<program, main, worker, loop, served, signal, halted, throws>>

Programs == {"echo", "co", "proxy", "daytime"}
Threaded == program \in {"echo", "co"}

\* A program with fewer loops than there are has the others over from the start.
ServerInit ==
  /\ program \in Programs
  /\ main = "starting"
  /\ worker = [w \in Workers |-> "none"]
  /\ \E used \in SUBSET Loops \ {{}} :
       /\ Threaded => used = Loops
       /\ program = "proxy" => Cardinality(used) = 1
       /\ loop = [l \in Loops |-> IF l \in used THEN "none" ELSE "over"]
  /\ served = [s \in Served |-> "none"]
  /\ signal = IF Threaded THEN "waiting" ELSE "off"
  /\ halted = FALSE /\ throws = 0

ServerExited == main \in {"over", "failed", "terminated"}

\* What keeps run () from returning.
HasWork ==
  \/ signal \in {"waiting", "caught"}
  \/ \E l \in Loops : loop[l] \in {"accepting", "accepted", "refused"}
  \/ \E s \in Served : served[s] # "none"

ServerThreads == {"main"} \cup Workers

\* t is in run () and takes the next handler.
Serves(t) ==
  /\ ~ServerExited /\ ~halted
  /\ IF t = "main" THEN main = "running" ELSE worker[t] = "running"

(***************************************************************************)
(* An exception leaves a handler on t.  A worker ends; main unwinds to the *)
(* handler at its end, unless it has threads: they are joinable, and the   *)
(* destructor of the vector that holds them terminates the program.        *)
(***************************************************************************)
Unwound == IF \E w \in Workers : worker[w] # "none" THEN "terminated" ELSE "failed"

LeavesRun(t) ==
  IF t = "main"
  THEN main' = Unwound /\ UNCHANGED worker
  ELSE worker' = [worker EXCEPT ![t] = "lost"] /\ UNCHANGED main

(***************************************************************************)
(* main: bind the acceptors and start the loops, create the threads, run.  *)
(***************************************************************************)
StartLoop(l) ==
  /\ main = "starting" /\ loop[l] = "none"
  /\ loop' = [loop EXCEPT ![l] = "accepting"]
  /\ UNCHANGED <<program, main, worker, served, signal, halted, throws>>

StartFails ==
  /\ main = "starting" /\ (\E l \in Loops : loop[l] = "none")
  /\ main' = Unwound
  /\ UNCHANGED <<program, worker, loop, served, signal, halted, throws>>

LoopsStarted ==
  /\ main = "starting" /\ \A l \in Loops : loop[l] # "none"
  /\ main' = IF Threaded THEN "creating" ELSE "running"
  /\ UNCHANGED <<program, worker, loop, served, signal, halted, throws>>

CreateThread(w) ==
  /\ main = "creating" /\ worker[w] = "none"
  /\ worker' = [worker EXCEPT ![w] = "running"]
  /\ UNCHANGED <<program, main, loop, served, signal, halted, throws>>

CreateFails ==
  /\ main = "creating" /\ throws < MaxThrows
  /\ throws' = throws + 1
  /\ main' = Unwound
  /\ UNCHANGED <<program, worker, loop, served, signal, halted>>

\* Faulty variant: main goes on to join the threads and does not serve.
JoinsAtOnce == "joining"

Runs == "running"

ThreadsCreated ==
  /\ main = "creating" /\ \A w \in Workers : worker[w] # "none"
  /\ main' = Runs
  /\ UNCHANGED <<program, worker, loop, served, signal, halted, throws>>

\* run () returns once it is stopped or has no work.  Faulty variant: the signal
\* only keeps main from waiting for more of them.
ReturnsWithoutWork == ~HasWork

Returns == halted \/ ~HasWork

MainReturns ==
  /\ main = "running" /\ Returns
  /\ main' = "joining"
  /\ UNCHANGED <<program, worker, loop, served, signal, halted, throws>>

WorkerReturns(w) ==
  /\ ~ServerExited /\ worker[w] = "running" /\ Returns
  /\ worker' = [worker EXCEPT ![w] = "ended"]
  /\ UNCHANGED <<program, main, loop, served, signal, halted, throws>>

MainJoins ==
  /\ main = "joining" /\ \A w \in Workers : worker[w] # "running"
  /\ main' = "over"
  /\ UNCHANGED <<program, worker, loop, served, signal, halted, throws>>

(***************************************************************************)
(* The accept loops.                                                       *)
(***************************************************************************)
AcceptCompletes(l) ==
  /\ ~ServerExited /\ loop[l] = "accepting"
  /\ \E result \in {"accepted", "refused"} : loop' = [loop EXCEPT ![l] = result]
  /\ UNCHANGED <<program, main, worker, served, signal, halted, throws>>

HandleAccept(t, l, s) ==
  /\ Serves(t) /\ loop[l] = "accepted" /\ served[s] = "none"
  /\ served' = [served EXCEPT ![s] = "open"]
  /\ loop' = [loop EXCEPT ![l] = "accepting"]
  /\ UNCHANGED <<program, main, worker, signal, halted, throws>>

\* What an accept that fails does to the loop: the daytime servers start the next
\* accept all the same, the callbacks of echo and proxy just return, and in co
\* async_accept throws and handle_spawn throws it again.  Faulty variant: the
\* exception of co is thrown by the callbacks as well.
ThrowsAlways == program # "daytime"

GoesOn    == program = "daytime"
Rethrows  == program = "co"

HandleRefusal(t, l) ==
  /\ Serves(t) /\ loop[l] = "refused"
  /\ loop' = [loop EXCEPT ![l] = IF GoesOn THEN "accepting" ELSE "over"]
  /\ IF Rethrows THEN LeavesRun(t) ELSE UNCHANGED <<main, worker>>
  /\ UNCHANGED <<program, served, signal, halted, throws>>

\* No memory for the session, or for the next accept after it has been started.
AcceptThrows(t, l) ==
  /\ Serves(t) /\ throws < MaxThrows
  /\ throws' = throws + 1
  /\ \/ /\ loop[l] = "accepted" \/ (loop[l] = "refused" /\ GoesOn)
        /\ UNCHANGED served
     \/ /\ loop[l] = "accepted"
        /\ \E s \in Served :
             served[s] = "none" /\ served' = [served EXCEPT ![s] = "open"]
  /\ loop' = [loop EXCEPT ![l] = "over"]
  /\ LeavesRun(t)
  /\ UNCHANGED <<program, signal, halted>>

(***************************************************************************)
(* The sessions: they have a cause to end, of their own, and their last    *)
(* handler has run; or one of their handlers throws, which leaves them to  *)
(* what they have started before.                                          *)
(***************************************************************************)
Ends(s) ==
  /\ ~ServerExited /\ served[s] = "open"
  /\ served' = [served EXCEPT ![s] = "ending"]
  /\ UNCHANGED <<program, main, worker, loop, signal, halted, throws>>

Leaves(t, s) ==
  /\ Serves(t) /\ served[s] = "ending"
  /\ served' = [served EXCEPT ![s] = "none"]
  /\ UNCHANGED <<program, main, worker, loop, signal, halted, throws>>

SessionThrows(t, s) ==
  /\ Serves(t) /\ served[s] # "none" /\ throws < MaxThrows
  /\ throws' = throws + 1
  /\ served' \in {served, [served EXCEPT ![s] = "none"]}
  /\ LeavesRun(t)
  /\ UNCHANGED <<program, loop, signal, halted>>

(***************************************************************************)
(* SIGINT and SIGTERM.                                                     *)
(***************************************************************************)
ServerInterrupt ==
  /\ ~ServerExited /\ signal = "waiting"
  /\ signal' = "caught"
  /\ UNCHANGED <<program, main, worker, loop, served, halted, throws>>

HandleSignal(t) ==
  /\ Serves(t) /\ signal = "caught"
  /\ signal' = "over"
  /\ halted' = TRUE
  /\ UNCHANGED <<program, main, worker, loop, served, throws>>

ServerNext ==
  \/ \E l \in Loops : StartLoop(l) \/ AcceptCompletes(l)
  \/ StartFails \/ LoopsStarted \/ CreateFails \/ ThreadsCreated
  \/ \E w \in Workers : CreateThread(w) \/ WorkerReturns(w)
  \/ MainReturns \/ MainJoins
  \/ \E s \in Served : Ends(s)
  \/ \E t \in ServerThreads :
       \/ \E l \in Loops : HandleRefusal(t, l) \/ AcceptThrows(t, l)
       \/ \E l \in Loops, s \in Served : HandleAccept(t, l, s)
       \/ \E s \in Served : Leaves(t, s) \/ SessionThrows(t, s)
       \/ HandleSignal(t)
  \/ ServerInterrupt

ServerSpec == ServerInit /\ [][ServerNext]_serverVars

(***************************************************************************)
(* Threads run on, and what is queued is taken by some thread that serves. *)
(* Nothing obliges the network to bring connections, a session to end or   *)
(* the user to interrupt the program.                                      *)
(***************************************************************************)
ServerFairness ==
  /\ WF_serverVars(\E l \in Loops : StartLoop(l))
  /\ WF_serverVars(LoopsStarted) /\ WF_serverVars(ThreadsCreated)
  /\ WF_serverVars(\E w \in Workers : CreateThread(w))
  /\ WF_serverVars(MainReturns) /\ WF_serverVars(MainJoins)
  /\ \A w \in Workers : WF_serverVars(WorkerReturns(w))
  /\ \A s \in Served : WF_serverVars(\E t \in ServerThreads : Leaves(t, s))
  /\ WF_serverVars(\E t \in ServerThreads : HandleSignal(t))

ServerFairSpec == ServerSpec /\ ServerFairness

----------------------------------------------------------------------------
ServerTypeOK ==
  /\ program \in Programs
  /\ main \in {"starting", "creating", "running", "joining", "over", "failed", "terminated"}
  /\ worker \in [Workers -> {"none", "running", "ended", "lost"}]
  /\ loop \in [Loops -> {"none", "accepting", "accepted", "refused", "over"}]
  /\ served \in [Served -> {"none", "open", "ending"}]
  /\ signal \in {"off", "waiting", "caught", "over"}
  /\ halted \in BOOLEAN
  /\ throws \in 0 .. MaxThrows

\* A program that serves ends only for cause: by a signal, or without one when no
\* loop and no session is left, which no failed accept brings about while a
\* session goes on.  While memory lasts a program that has started dies only in
\* co_server.cc, of an accept; and a program with threads that dies is
\* terminated, its exception is not caught at the end of main
\* (echo/server.cc:190-198, 239-246; echo/co_server.cc:18-23, 175-185, 227-234;
\* proxy/server.cc:218-229, 261-266; socket/07/main.cc:93-99).
EndsForCause ==
  /\ ServerTypeOK
  /\ main = "over" => IF Threaded THEN halted ELSE ~HasWork
  /\ main = "failed" => \A w \in Workers : worker[w] = "none"
  /\ main \in {"failed", "terminated"} /\ throws = 0 =>
       program = "co" \/ \E l \in Loops : loop[l] = "none"

\* Whatever was lost to exceptions, a session that has a cause to end does end,
\* before the program is stopped or dies: as long as the program lives there is a
\* thread in run () (echo/server.cc:225-241; echo/co_server.cc:213-229).
SessionsLeave ==
  \A s \in Served :
    served[s] = "ending" ~> served[s] = "none" \/ halted \/ main \in {"failed", "terminated"}

\* A signal ends the program, with whatever threads are left and while sessions
\* go on; and a program that takes no signals ends when it has nothing to serve
\* (echo/server.cc:218-219, 239-241; co_server.cc:202-205; proxy/server.cc:261).
ServerEnds == signal = "caught" \/ (main = "running" /\ ~HasWork) ~> ServerExited
==============================================================================
