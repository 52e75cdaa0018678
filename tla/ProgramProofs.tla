---------------------------- MODULE ProgramProofs ----------------------------
(***************************************************************************)
(* Proofs about the programs around the sessions: LoadClient, for every    *)
(* number of threads and connections, and Servers, for every set of loops, *)
(* workers and sessions.                                                   *)
(*                                                                         *)
(* The client's invariant says that each of the three counters is the      *)
(* number of sessions that are in certain steps, and that a thread is in   *)
(* one handler at a time: of the sessions that are not counted as          *)
(* connected yet, those that the monitor does not wait for are fewer than  *)
(* the threads, and those between their two counters at most as many.      *)
(*                                                                         *)
(* The servers' invariant says which program has threads and a signal to   *)
(* wait for, and what main has been through when it is where it is.        *)
(***************************************************************************)
EXTENDS LoadClient, Servers, FiniteSetTheorems, TLAPS

\* How many sessions f has in the given steps, and by how much one that moves
\* changes that.
Number(f, steps) == Cardinality({s \in Sessions : f[s] \in steps})

Gain(steps, from, to) == (IF to \in steps THEN 1 ELSE 0) - (IF from \in steps THEN 1 ELSE 0)

\* What each of the three counters counts.
Attempted ==
  {"refused", "accepted", "writing", "reading", "waiting", "broken", "breaking", "over"}
Active == {"writing", "reading", "waiting", "broken"} \cup (IF coroutines THEN {} ELSE {"breaking"})
GivenUp == {"over"} \cup (IF coroutines THEN {} ELSE {"breaking"})

Counts ==
  /\ completed = Number(session, Attempted)
  /\ connected = Number(session, Active)
  /\ failed = Number(session, GivenUp)

\* A thread is in one handler at a time.
OneHandler ==
  \A r, s \in Sessions :
    r[1] = s[1] /\ session[r] \in Counting /\ session[s] \in Counting => r = s

\* The monitor goes on for a stop or when the connections were attempted.
Waited == monitor # "connecting" => stop \/ AllCompleted

FewLive == monitor = "stopping" => Cardinality(Live) < 2 * Cardinality(Threads)

ClientInv == TypeOK /\ Counts /\ OneHandler /\ Waited /\ FewLive

----------------------------------------------------------------------------
\* The number of sessions is rounded up by less than the number of threads.
LEMMA RoundedUp ==
  /\ Cardinality(Threads) \in Nat \ {0} /\ IsFiniteSet(Sessions) /\ Cardinality(Sessions) \in Nat
  /\ Connections <= Cardinality(Sessions)
  /\ Cardinality(Sessions) < Connections + Cardinality(Threads)
<1> USE ClientAssumption
<1> DEFINE n == Cardinality(Threads)
           q == Connections \div n
           r == Connections % n
<1>1. n \in Nat \ {0}
  BY FS_CardinalityType, FS_EmptySet
<1> HIDE DEF n
<1>2. q \in Nat /\ r \in 0 .. n - 1 /\ Connections = n * q + r
  BY <1>1
<1> HIDE DEF q, r
<1>3. PerThread = IF r # 0 THEN q + 1 ELSE q
  BY <1>2 DEF PerThread, q, r, n
<1>4. PerThread \in Nat
  BY <1>2, <1>3
<1>5. IsFiniteSet(1 .. PerThread) /\ Cardinality(1 .. PerThread) = PerThread
  BY <1>4, FS_Interval
<1>6. IsFiniteSet(Sessions) /\ Cardinality(Sessions) = n * PerThread
  BY <1>5, FS_Product DEF Sessions, n
<1>7. n * PerThread = IF r # 0 THEN n * q + n ELSE n * q
  <2>1. n * (q + 1) = n * q + n
    BY <1>1, <1>2
  <2> QED BY <1>3, <2>1
<1>8. n * q \in Nat
  BY <1>1, <1>2
<1> QED BY <1>1, <1>2, <1>6, <1>7, <1>8 DEF n

\* The sessions in some steps are finitely many, and no more than there are.
LEMMA Numbers ==
  ASSUME NEW f, NEW steps
  PROVE  /\ IsFiniteSet({s \in Sessions : f[s] \in steps})
         /\ Number(f, steps) \in 0 .. Cardinality(Sessions)
<1>1. {s \in Sessions : f[s] \in steps} \subseteq Sessions
  OBVIOUS
<1>2. /\ IsFiniteSet({s \in Sessions : f[s] \in steps})
      /\ Cardinality({s \in Sessions : f[s] \in steps}) <= Cardinality(Sessions)
  BY <1>1, RoundedUp, FS_Subset
<1>3. Number(f, steps) \in Nat
  BY <1>2, FS_CardinalityType DEF Number
<1> QED BY <1>2, <1>3, RoundedUp DEF Number

\* A number is the sum of those of the parts of its steps.
LEMMA Parted ==
  ASSUME NEW f, NEW A, NEW B, A \cap B = {}
  PROVE  Number(f, A \cup B) = Number(f, A) + Number(f, B)
<1> DEFINE F(steps) == {s \in Sessions : f[s] \in steps}
<1>1. F(A \cup B) = F(A) \cup F(B) /\ F(A) \cap F(B) = {}
  OBVIOUS
<1>2. IsFiniteSet(F(A)) /\ IsFiniteSet(F(B))
  BY Numbers
<1>3. Cardinality(F(A)) \in Nat /\ Cardinality(F(B)) \in Nat /\ Cardinality(F(A) \cap F(B)) = 0
  BY <1>1, <1>2, FS_CardinalityType, FS_EmptySet
<1>4. Cardinality(F(A) \cup F(B))
        = Cardinality(F(A)) + Cardinality(F(B)) - Cardinality(F(A) \cap F(B))
  BY <1>2, FS_Union
<1>5. Cardinality(F(A \cup B)) = Cardinality(F(A)) + Cardinality(F(B))
  <2> HIDE DEF F
  <2> QED BY <1>1, <1>3, <1>4
<1> QED BY <1>5 DEF Number

\* What a session that moves changes.
LEMMA Moved ==
  ASSUME NEW f, DOMAIN f = Sessions, NEW s \in Sessions, NEW step, NEW steps
  PROVE  Number([f EXCEPT ![s] = step], steps) = Number(f, steps) + Gain(steps, f[s], step)
<1> DEFINE F == {r \in Sessions : f[r] \in steps}
           G == {r \in Sessions : [f EXCEPT ![s] = step][r] \in steps}
<1>1. IsFiniteSet(F) /\ Cardinality(F) \in Nat
  BY Numbers, FS_CardinalityType
<1>2. G = IF step \in steps THEN F \cup {s} ELSE F \ {s}
  OBVIOUS
<1>3. s \in F <=> f[s] \in steps
  OBVIOUS
<1> HIDE DEF F, G
<1>4. Cardinality(F \cup {s}) = IF s \in F THEN Cardinality(F) ELSE Cardinality(F) + 1
  BY <1>1, FS_AddElement
<1>5. Cardinality(F \ {s}) = IF s \in F THEN Cardinality(F) - 1 ELSE Cardinality(F)
  BY <1>1, FS_RemoveElement
<1>6. Cardinality(G) = Cardinality(F) + Gain(steps, f[s], step)
  <2>1. CASE step \in steps
    BY <1>1, <1>2, <1>3, <1>4, <2>1 DEF Gain
  <2>2. CASE step \notin steps
    BY <1>1, <1>2, <1>3, <1>5, <2>2 DEF Gain
  <2> QED BY <2>1, <2>2
<1> QED BY <1>6 DEF Number, F, G

----------------------------------------------------------------------------
\* The steps of a handler: where a session goes, and what it counts meanwhile.
LEMMA Handles ==
  ASSUME TypeOK, NEW s \in Sessions, Handler(s)
  PROVE  \E step \in Attempted :
           /\ session' = [session EXCEPT ![s] = step]
           /\ session[s] \in Counting \/ ~Busy(s[1])
           /\ session[s] # "over" /\ (session[s] \in {"refused", "breaking"} => step = "over")
           /\ completed' = completed + Gain(Attempted, session[s], step)
           /\ connected' = connected + Gain(Active, session[s], step)
           /\ failed' = failed + Gain(GivenUp, session[s], step)
           /\ UNCHANGED <<coroutines, thread, stop, monitor, stopped>>
<1> USE DEF TypeOK, Attempted, Active, GivenUp, Gain, Goes, counters
<1>1. CASE HandleConnect(s)
  <2>1. PICK step \in {"refused", "accepted"} : Goes(s, step) /\ completed' = completed + 1
    BY <1>1 DEF HandleConnect, Completed
  <2>2. /\ session[s] = "connecting" /\ ~Busy(s[1])
        /\ connected' = connected /\ failed' = failed
        /\ UNCHANGED <<coroutines, thread, stop, monitor, stopped>>
    BY <1>1 DEF HandleConnect, Dispatches
  <2> WITNESS step \in Attempted
  <2> QED BY <2>1, <2>2
<1>2. CASE CountRefused(s)
  BY <1>2 DEF CountRefused, Counting
<1>3. CASE CountAccepted(s)
  BY <1>3 DEF CountAccepted, Counting
<1>4. CASE HandleWrite(s)
  <2>1. PICK step \in {"reading", "broken"} : Goes(s, step)
    BY <1>4 DEF HandleWrite
  <2>2. /\ session[s] = "writing" /\ ~Busy(s[1])
        /\ completed' = completed /\ connected' = connected /\ failed' = failed
        /\ UNCHANGED <<coroutines, thread, stop, monitor, stopped>>
    BY <1>4 DEF HandleWrite, Dispatches
  <2> WITNESS step \in Attempted
  <2> QED BY <2>1, <2>2
<1>5. CASE HandleRead(s)
  <2>1. PICK step \in {"waiting", "broken"} : Goes(s, step)
    BY <1>5 DEF HandleRead
  <2>2. /\ session[s] = "reading" /\ ~Busy(s[1])
        /\ completed' = completed /\ connected' = connected /\ failed' = failed
        /\ UNCHANGED <<coroutines, thread, stop, monitor, stopped>>
    BY <1>5 DEF HandleRead, Dispatches
  <2> WITNESS step \in Attempted
  <2> QED BY <2>1, <2>2
<1>6. CASE HandleWait(s)
  BY <1>6 DEF HandleWait, Dispatches
<1>7. CASE OnError(s)
  BY <1>7 DEF OnError, Counting, OneLess
<1>8. CASE BreakOff(s)
  BY <1>8 DEF BreakOff, Counting
<1> QED BY <1>1, <1>2, <1>3, <1>4, <1>5, <1>6, <1>7, <1>8 DEF Handler

\* A handler keeps the invariant: its counter and its session move together.
LEMMA HandlersKeep ==
  ASSUME ClientInv, NEW s \in Sessions, Handler(s)
  PROVE  ClientInv'
<1>1. PICK step \in Attempted :
        /\ session' = [session EXCEPT ![s] = step]
        /\ session[s] \in Counting \/ ~Busy(s[1])
        /\ session[s] # "over" /\ (session[s] \in {"refused", "breaking"} => step = "over")
        /\ completed' = completed + Gain(Attempted, session[s], step)
        /\ connected' = connected + Gain(Active, session[s], step)
        /\ failed' = failed + Gain(GivenUp, session[s], step)
        /\ UNCHANGED <<coroutines, thread, stop, monitor, stopped>>
  BY Handles DEF ClientInv
<1>2. /\ TypeOK /\ Counts /\ OneHandler /\ Waited /\ FewLive /\ DOMAIN session = Sessions
      /\ completed \in Nat
  BY RoundedUp DEF ClientInv, TypeOK
<1>3. Counts'
  <2>1. Active' = Active /\ GivenUp' = GivenUp
    BY <1>1 DEF Active, GivenUp
  <2>2. \A steps : Number([session EXCEPT ![s] = step], steps)
                     = Number(session, steps) + Gain(steps, session[s], step)
    BY <1>2, Moved
  <2>3. /\ completed' = Number(session', Attempted) /\ connected' = Number(session', Active)
        /\ failed' = Number(session', GivenUp)
    BY <1>1, <1>2, <2>2 DEF Counts
  <2> QED BY <2>1, <2>3 DEF Counts, Attempted
<1>4. TypeOK'
  <2>1. /\ completed' \in 0 .. Cardinality(Sessions) /\ connected' \in 0 .. Cardinality(Sessions)
        /\ failed' \in 0 .. Cardinality(Sessions)
    BY <1>3, Numbers DEF Counts
  <2>2. session' \in
          [Sessions -> Counting \cup {"connecting", "writing", "reading", "waiting", "over"}]
    BY <1>1, <1>2 DEF TypeOK, Attempted, Counting
  <2> QED BY <1>1, <1>2, <2>1, <2>2 DEF TypeOK
<1>5. OneHandler'
  <2> SUFFICES ASSUME NEW q \in Sessions, NEW r \in Sessions, q[1] = r[1],
                      session'[q] \in Counting, session'[r] \in Counting
               PROVE  q = r
    BY DEF OneHandler, Counting
  <2>1. ASSUME NEW p \in Sessions, p # s, p[1] = s[1], session'[p] \in Counting PROVE FALSE
    <3>1. session[p] \in Counting
      BY <1>1, <1>2, <2>1
    <3>2. Busy(s[1])
      BY <2>1, <3>1 DEF Busy
    <3> QED BY <1>1, <1>2, <2>1, <3>1, <3>2 DEF OneHandler
  <2>2. CASE q = s \/ r = s
    BY <2>1, <2>2
  <2>3. CASE q # s /\ r # s
    <3>1. session[q] \in Counting /\ session[r] \in Counting
      BY <1>1, <1>2, <2>3
    <3> QED BY <1>2, <3>1 DEF OneHandler
  <2> QED BY <2>2, <2>3
<1>6. Waited'
  <2>1. completed' >= completed
    BY <1>1, <1>2 DEF Gain
  <2>2. completed' \in Nat
    BY <1>4, RoundedUp DEF TypeOK
  <2> QED BY <1>1, <1>2, <2>1, <2>2, ClientAssumption DEF Waited, AllCompleted
<1>7. FewLive'
  <2>1. Live' \subseteq Live
    BY <1>1, <1>2 DEF Live, In, TypeOK, Counting
  <2>2. IsFiniteSet(Live)
    BY Numbers DEF Live, In
  <2>3. /\ Cardinality(Live') <= Cardinality(Live) /\ Cardinality(Live') \in Nat
        /\ Cardinality(Live) \in Nat
    BY <2>1, <2>2, FS_Subset, FS_CardinalityType
  <2> QED BY <1>1, <1>2, <2>3, RoundedUp DEF FewLive
<1> QED BY <1>3, <1>4, <1>5, <1>6, <1>7 DEF ClientInv

\* When no session is active the live ones are those that were not waited for
\* and one on each thread that is counted as connected next.
LEMMA FewWithoutActive ==
  ASSUME ClientInv, connected = 0, AllCompleted
  PROVE  Cardinality(Live) < 2 * Cardinality(Threads)
<1> DEFINE n == Cardinality(Threads)
           C == In({"connecting"})
           A == In({"accepted"})
<1>1. /\ TypeOK /\ Counts /\ OneHandler /\ IsFiniteSet(C) /\ IsFiniteSet(A)
      /\ Cardinality(C) \in Nat /\ Cardinality(A) \in Nat
  BY Numbers, FS_CardinalityType DEF ClientInv, In
<1>2. Live \subseteq C \cup A
  <2>1. {s \in Sessions : session[s] \in Active} = {}
    BY <1>1, Numbers, FS_EmptySet DEF Counts, Number
  <2> QED BY <2>1 DEF Live, In, Active
<1>3. Cardinality(C) < n
  <2>1. Number(session, Attempted \cup {"connecting"})
          = Number(session, Attempted) + Number(session, {"connecting"})
    BY Parted DEF Attempted
  <2>2. {s \in Sessions : session[s] \in Attempted \cup {"connecting"}} = Sessions
    BY <1>1 DEF TypeOK, Attempted, Counting
  <2>3. Cardinality(Sessions) = completed + Cardinality(C)
    BY <1>1, <2>1, <2>2 DEF Counts, Number, In
  <2>4. completed \in Nat /\ completed >= Connections
    BY <1>1, RoundedUp DEF TypeOK, AllCompleted
  <2> QED BY <1>1, <2>3, <2>4, RoundedUp, ClientAssumption
<1>4. Cardinality(A) <= n
  <2> DEFINE g == [s \in A |-> s[1]]
  <2>1. g \in Injection(A, Threads)
    <3>1. \A s \in A : s \in Sessions /\ s[1] \in Threads /\ session[s] \in Counting
      BY DEF In, Sessions, Counting
    <3>2. g \in [A -> Threads]
      BY <3>1
    <3>3. \A r, s \in A : g[r] = g[s] => r = s
      BY <1>1, <3>1 DEF OneHandler
    <3> QED BY <3>2, <3>3 DEF Injection, IsInjective
  <2> QED BY <2>1, ClientAssumption, FS_Injection
<1>5. IsFiniteSet(C \cup A) /\ Cardinality(C \cup A) <= Cardinality(C) + Cardinality(A)
  <2>1. /\ IsFiniteSet(C \cup A) /\ IsFiniteSet(C \cap A)
        /\ Cardinality(C \cup A) = Cardinality(C) + Cardinality(A) - Cardinality(C \cap A)
    BY <1>1, FS_Union, FS_Intersection
  <2>2. Cardinality(C \cap A) \in Nat
    BY <2>1, FS_CardinalityType
  <2> HIDE DEF C, A
  <2> QED BY <1>1, <2>1, <2>2
<1>6. Cardinality(Live) <= Cardinality(C \cup A) /\ Cardinality(Live) \in Nat
  BY <1>2, <1>5, FS_Subset, FS_CardinalityType
<1>7. Cardinality(C \cup A) \in Nat
  BY <1>5, FS_CardinalityType
<1> HIDE DEF C, A
<1> QED BY <1>1, <1>3, <1>4, <1>5, <1>6, <1>7, RoundedUp

\* The threads, the monitor and main leave the sessions and their numbers alone.
LEMMA OthersKeep ==
  ASSUME ClientInv, UNCHANGED <<coroutines, session, completed, connected, failed>>,
         thread' \in [Threads -> {"creating", "running", "failed", "ended"}],
         stop' \in BOOLEAN, stop => stop', stopped' \subseteq Threads,
         \/ monitor' = monitor
         \/ monitor' \in {"established", "active", "over"} /\ Waited'
         \/ monitor' = "stopping" /\ Waited' /\ connected = 0 /\ AllCompleted
  PROVE  ClientInv'
<1>1. TypeOK'
  BY DEF ClientInv, TypeOK
<1>2. Counts' /\ OneHandler'
  BY DEF ClientInv, Counts, Number, Attempted, Active, GivenUp, OneHandler, Counting
<1>3. Waited'
  BY DEF ClientInv, Waited, AllCompleted
<1>4. FewLive'
  <2>1. Live' = Live
    BY DEF Live, In
  <2> QED BY <2>1, FewWithoutActive DEF ClientInv, FewLive
<1> QED BY <1>1, <1>2, <1>3, <1>4 DEF ClientInv

\* Every step of the program does.
LEMMA ClientStep == ClientInv /\ [Next]_vars => ClientInv'
<1> SUFFICES ASSUME ClientInv, [Next]_vars PROVE ClientInv'
  OBVIOUS
<1> USE DEF counters
<1>0. TypeOK /\ Waited
  BY DEF ClientInv
<1>1. ASSUME NEW t \in Threads, StartThread(t) \/ FailThread(t) \/ EndThread(t) PROVE ClientInv'
  BY <1>0, <1>1, OthersKeep DEF StartThread, FailThread, EndThread, TypeOK
<1>2. ASSUME NEW t \in Threads, StopContext(t) PROVE ClientInv'
  BY <1>0, <1>2, OthersKeep DEF StopContext, TypeOK
<1>3. ASSUME NEW s \in Sessions, Handler(s) PROVE ClientInv'
  BY <1>3, HandlersKeep
<1>4. CASE MonitorConnecting
  <2>1. Waited'
    BY <1>4 DEF MonitorConnecting, Waited, AllCompleted
  <2> QED BY <1>0, <1>4, <2>1, OthersKeep DEF MonitorConnecting, TypeOK
<1>5. CASE MonitorEstablished
  <2>1. Waited'
    BY <1>0, <1>5 DEF MonitorEstablished, Waited, AllCompleted
  <2> QED BY <1>0, <1>5, <2>1, OthersKeep DEF MonitorEstablished, TypeOK
<1>6. CASE MonitorActive
  <2>1. Waited'
    BY <1>0, <1>6 DEF MonitorActive, Waited, AllCompleted
  <2>2. stop \/ (connected = 0 /\ AllCompleted)
    BY <1>0, <1>6 DEF MonitorActive, Waited
  <2> QED BY <1>0, <1>6, <2>1, <2>2, OthersKeep DEF MonitorActive, TypeOK
<1>7. CASE MonitorStops
  <2>1. Waited'
    BY <1>7 DEF MonitorStops, Waited
  <2> QED BY <1>0, <1>7, <2>1, OthersKeep DEF MonitorStops, TypeOK
<1>8. CASE Interrupt
  BY <1>0, <1>8, OthersKeep DEF Interrupt, TypeOK
<1>9. CASE UNCHANGED vars
  BY <1>0, <1>9, OthersKeep DEF vars, TypeOK
<1> QED BY <1>1, <1>2, <1>3, <1>4, <1>5, <1>6, <1>7, <1>8, <1>9 DEF Next, Monitor

\* No session has been counted at first.
LEMMA ClientInit == Init => ClientInv
<1> SUFFICES ASSUME Init PROVE ClientInv
  OBVIOUS
<1>1. TypeOK
  <2>1. completed \in 0 .. Cardinality(Sessions) /\ connected = completed /\ failed = completed
    BY RoundedUp DEF Init
  <2> QED BY <2>1 DEF Init, TypeOK
<1>2. ASSUME NEW steps, "connecting" \notin steps PROVE Number(session, steps) = 0
  <2>1. {s \in Sessions : session[s] \in steps} = {}
    BY <1>2 DEF Init
  <2> QED BY <2>1, FS_EmptySet DEF Number
<1>3. Counts
  BY <1>2 DEF Init, Counts, Attempted, Active, GivenUp
<1> QED BY <1>1, <1>3 DEF Init, ClientInv, OneHandler, Counting, Waited, FewLive

\* The invariant always holds.
LEMMA ClientInductive == Spec => []ClientInv
BY ClientInit, ClientStep, PTL DEF Spec

----------------------------------------------------------------------------
\* For any number of threads and connections: what is completed is connected or
\* failed or about to be counted, with the session that client.cc counts twice, and
\* co_client.cc not at all, while it breaks off (client.cc:18-23, 64-77;
\* co_client.cc:53-60, 69-84).
THEOREM CountersAlwaysAgree == Spec => []CountersAgree
<1>1. ASSUME ClientInv PROVE CountersAgree
  <2> DEFINE N(steps) == Number(session, steps)
             Connected == {"writing", "reading", "waiting", "broken"}
             Asked == {"refused", "accepted"}
  <2>1. /\ TypeOK /\ completed = N(Attempted) /\ connected = N(Active) /\ failed = N(GivenUp)
    BY <1>1 DEF ClientInv, Counts
  <2>0. ASSUME NEW steps PROVE N(steps) \in Nat
    <3>1. Number(session, steps) \in 0 .. Cardinality(Sessions) /\ Cardinality(Sessions) \in Nat
      BY Numbers, RoundedUp
    <3> QED BY <3>1
  <2>2. N(Attempted) = N(Asked) + N(Connected) + N({"breaking"}) + N({"over"})
    <3>1. N(Asked \cup Connected) = N(Asked) + N(Connected)
      BY Parted
    <3>2. N((Asked \cup Connected) \cup {"breaking"}) = N(Asked \cup Connected) + N({"breaking"})
      BY Parted
    <3>3. N(((Asked \cup Connected) \cup {"breaking"}) \cup {"over"})
            = N((Asked \cup Connected) \cup {"breaking"}) + N({"over"})
      BY Parted
    <3>4. ((Asked \cup Connected) \cup {"breaking"}) \cup {"over"} = Attempted
      BY DEF Attempted
    <3> HIDE DEF N, Asked, Connected
    <3> QED BY <2>0, <2>1, <3>1, <3>2, <3>3, <3>4
  <2>3. N(Active) = N(Connected) + IF coroutines THEN 0 ELSE N({"breaking"})
    <3>1. N(Connected \cup {"breaking"}) = N(Connected) + N({"breaking"})
      BY Parted
    <3>2. Active = IF coroutines THEN Connected ELSE Connected \cup {"breaking"}
      BY DEF Active
    <3> HIDE DEF N, Connected
    <3> QED BY <2>0, <2>1, <3>1, <3>2
  <2>4. N(GivenUp) = N({"over"}) + IF coroutines THEN 0 ELSE N({"breaking"})
    <3>1. N({"over"} \cup {"breaking"}) = N({"over"}) + N({"breaking"})
      BY Parted
    <3>2. GivenUp = IF coroutines THEN {"over"} ELSE {"over"} \cup {"breaking"}
      BY DEF GivenUp
    <3> HIDE DEF N
    <3> QED BY <2>0, <2>1, <3>1, <3>2
  <2>5. Cardinality(In(Asked)) = N(Asked) /\ Cardinality(In({"breaking"})) = N({"breaking"})
    BY DEF In, Number
  <2> HIDE DEF N, Asked, Connected
  <2>6. completed - Cardinality(In(Asked)) =
          connected + failed + Cardinality(In({"breaking"})) * (IF coroutines THEN 1 ELSE -1)
    <3>1. CASE coroutines
      BY <2>0, <2>1, <2>2, <2>3, <2>4, <2>5, <3>1
    <3>2. CASE ~coroutines
      BY <2>0, <2>1, <2>2, <2>3, <2>4, <2>5, <3>2
    <3> QED BY <3>1, <3>2
  <2> QED BY <2>1, <2>6 DEF CountersAgree, Asked
<1> QED BY <1>1, ClientInductive, PTL

\* When the monitor ends the program fewer than two sessions for every thread are
\* still to become active, for any number of threads and connections
\* (client.cc:64-77, 161-165, 202, 226).
THEOREM FewAreMissed == Spec => MonitorMissesFew
<1>1. ClientInv => [MonitorStops => Cardinality(Live) < 2 * Cardinality(Threads)]_vars
  BY DEF ClientInv, FewLive, MonitorStops
<1> QED BY <1>1, ClientInductive, PTL DEF MonitorMissesFew

----------------------------------------------------------------------------
(***************************************************************************)
(* Servers.                                                                *)
(***************************************************************************)
\* No loop is left to start once main has gone on.
LoopsUp == main \notin {"starting", "failed", "terminated"} => \A l \in Loops : loop[l] # "none"

\* A program that takes signals waits for one until it is stopped; the others are
\* never stopped, and have no threads.
Stoppable ==
  IF Threaded
  THEN signal \in {"waiting", "caught"} \/ halted
  ELSE /\ signal = "off" /\ ~halted /\ main # "creating"
       /\ \A w \in Workers : worker[w] = "none"

\* main has left run () because it was stopped, or there was nothing to serve.
ServedOut == main \in {"joining", "over"} => halted \/ ~HasWork

\* A program that has died.
DiedRightly ==
  /\ main = "failed" => \A w \in Workers : worker[w] = "none"
  /\ main \in {"failed", "terminated"} /\ throws = 0 =>
       program = "co" \/ \E l \in Loops : loop[l] = "none"

ServerInv == ServerTypeOK /\ LoopsUp /\ Stoppable /\ ServedOut /\ DiedRightly

\* The steps of Next one by one, for proofs by cases.
LEMMA ServerSteps ==
  ASSUME [ServerNext]_serverVars
  PROVE  \/ \E l \in Loops : StartLoop(l) \/ AcceptCompletes(l)
         \/ StartFails \/ LoopsStarted \/ CreateFails \/ ThreadsCreated
         \/ \E w \in Workers : CreateThread(w) \/ WorkerReturns(w)
         \/ MainReturns \/ MainJoins
         \/ \E s \in Served : Ends(s)
         \/ \E t \in ServerThreads, l \in Loops :
              HandleRefusal(t, l) \/ AcceptThrows(t, l)
         \/ \E t \in ServerThreads, l \in Loops, s \in Served : HandleAccept(t, l, s)
         \/ \E t \in ServerThreads, s \in Served :
              Leaves(t, s) \/ SessionThrows(t, s)
         \/ \E t \in ServerThreads : HandleSignal(t)
         \/ ServerInterrupt
         \/ UNCHANGED serverVars
BY DEF ServerNext

\* A thread that leaves run () with an exception: a worker is lost, main dies.
LEMMA ExceptionLeaves ==
  ASSUME ServerTypeOK, NEW t \in ServerThreads, Serves(t), LeavesRun(t)
  PROVE  \/ /\ main' = main /\ t \in Workers /\ worker[t] = "running"
            /\ worker' = [worker EXCEPT ![t] = "lost"]
         \/ /\ worker' = worker /\ main = "running" /\ main' \in {"failed", "terminated"}
            /\ main' = "failed" => \A w \in Workers : worker[w] = "none"
BY DEF ServerThreads, Serves, LeavesRun, Unwound

\* Every step of a server keeps the invariant.
LEMMA ServerStep == ServerInv /\ [ServerNext]_serverVars => ServerInv'
<1> SUFFICES ASSUME ServerInv, [ServerNext]_serverVars PROVE ServerInv'
  OBVIOUS
<1> USE ServersAssumption DEF ServerInv, ServerTypeOK, LoopsUp, Stoppable, ServedOut,
                              DiedRightly, Threaded, HasWork
<1>1. ASSUME NEW l \in Loops, StartLoop(l) PROVE ServerInv'
  BY <1>1 DEF StartLoop
<1>2. ASSUME NEW l \in Loops, AcceptCompletes(l) PROVE ServerInv'
  BY <1>2 DEF AcceptCompletes
<1>3. CASE StartFails
  BY <1>3 DEF StartFails, Unwound
<1>4. CASE LoopsStarted
  BY <1>4 DEF LoopsStarted
<1>5. CASE CreateFails
  BY <1>5 DEF CreateFails, Unwound
<1>6. CASE ThreadsCreated
  BY <1>6 DEF ThreadsCreated, Runs
<1>7. ASSUME NEW w \in Workers, CreateThread(w) PROVE ServerInv'
  BY <1>7 DEF CreateThread
<1>8. ASSUME NEW w \in Workers, WorkerReturns(w) PROVE ServerInv'
  BY <1>8 DEF WorkerReturns, ServerExited
<1>9. CASE MainReturns
  BY <1>9 DEF MainReturns, Returns
<1>10. CASE MainJoins
  BY <1>10 DEF MainJoins
<1>11. ASSUME NEW s \in Served, Ends(s) PROVE ServerInv'
  BY <1>11 DEF Ends
<1>12. ASSUME NEW t \in ServerThreads, NEW l \in Loops, HandleRefusal(t, l)
       PROVE  ServerInv'
  BY <1>12, ExceptionLeaves DEF HandleRefusal, GoesOn, Rethrows,
                                    Serves, ServerExited
<1>13. ASSUME NEW t \in ServerThreads, NEW l \in Loops, AcceptThrows(t, l) PROVE ServerInv'
  BY <1>13, ExceptionLeaves DEF AcceptThrows, Serves, ServerExited
<1>14. ASSUME NEW t \in ServerThreads, NEW l \in Loops, NEW s \in Served,
              HandleAccept(t, l, s)
       PROVE  ServerInv'
  BY <1>14 DEF HandleAccept
<1>15. ASSUME NEW t \in ServerThreads, NEW s \in Served, Leaves(t, s) PROVE ServerInv'
  BY <1>15 DEF Leaves
<1>16. ASSUME NEW t \in ServerThreads, NEW s \in Served, SessionThrows(t, s)
       PROVE  ServerInv'
  BY <1>16, ExceptionLeaves DEF SessionThrows, Serves, ServerExited
<1>17. ASSUME NEW t \in ServerThreads, HandleSignal(t) PROVE ServerInv'
  BY <1>17 DEF HandleSignal
<1>18. CASE ServerInterrupt
  BY <1>18 DEF ServerInterrupt
<1>19. CASE UNCHANGED serverVars
  BY <1>19 DEF serverVars
<1> QED
  BY ServerSteps, <1>1, <1>2, <1>3, <1>4, <1>5, <1>6, <1>7, <1>8, <1>9, <1>10, <1>11, <1>12, <1>13,
     <1>14, <1>15, <1>16, <1>17, <1>18, <1>19

\* The invariant always holds.
LEMMA ServerInductive == ServerSpec => []ServerInv
<1>1. ASSUME ServerInit PROVE ServerInv
  <2>1. PICK used \in SUBSET Loops : loop = [l \in Loops |-> IF l \in used THEN "none" ELSE "over"]
    BY <1>1 DEF ServerInit
  <2>2. /\ program \in Programs /\ main = "starting"
        /\ worker = [w \in Workers |-> "none"] /\ served = [s \in Served |-> "none"]
        /\ signal = (IF Threaded THEN "waiting" ELSE "off") /\ halted = FALSE /\ throws = 0
    BY <1>1 DEF ServerInit
  <2>3. ServerTypeOK
    <3>1. loop \in [Loops -> {"none", "accepting", "accepted", "refused", "over"}]
      BY <2>1
    <3>2. throws \in 0 .. MaxThrows
      BY <2>2, ServersAssumption
    <3>3. /\ worker \in [Workers -> {"none", "running", "ended", "lost"}]
          /\ served \in [Served -> {"none", "open", "ending"}]
      BY <2>2
    <3>4. signal \in {"off", "waiting", "caught", "over"}
      BY <2>2
    <3> QED BY <2>2, <3>1, <3>2, <3>3, <3>4 DEF ServerTypeOK
  <2> QED BY <2>2, <2>3 DEF ServerInv, LoopsUp, Stoppable, ServedOut, DiedRightly
<1> QED BY <1>1, ServerStep, PTL DEF ServerSpec

\* For any number of loops, threads, sessions and failed allocations: a program
\* that serves ends for cause, and while memory lasts one that has started dies
\* only in co_server.cc (echo/server.cc:190-198, 239-246; echo/co_server.cc:18-23,
\* 175-185, 227-234; proxy/server.cc:218-229, 261-266; socket/07/main.cc:93-99).
THEOREM ServersEndForCause == ServerSpec => []EndsForCause
<1>1. ServerInv => EndsForCause
  BY DEF ServerInv, Stoppable, ServedOut, DiedRightly, EndsForCause, HasWork
<1> QED BY <1>1, ServerInductive, PTL
==============================================================================
