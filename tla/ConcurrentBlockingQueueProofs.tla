-------------------- MODULE ConcurrentBlockingQueueProofs --------------------
(***************************************************************************)
(* Proofs about ConcurrentBlockingQueue, for any number of threads, every  *)
(* Capacity and every bound on the calls and the exceptions.  The          *)
(* inductive invariant adds to the properties the runs check only that the *)
(* queue holds what has been accepted and not delivered, and that a pop    *)
(* () that returned nullopt left it closed and empty.                      *)
(***************************************************************************)
EXTENDS ConcurrentBlockingQueue, FiniteSetTheorems, SequenceTheorems, TLAPS

\* The two halves of NoLostWakeup.
PopsWakeUp ==
  AsleepIn(Pops) # {} => Len(queue_) <= Cardinality(AwakeIn(Pops)) + popThrows

PushesWakeUp ==
  AsleepIn(Pushes) # {} /\ ~closed_ =>
    Capacity - Len(queue_) <= Cardinality(AwakeIn(Pushes)) + pushThrows

\* The items accepted are those delivered, in that order, and then those queued.
InOrder == accepted = delivered \o queue_

\* A pop () that returned nullopt left the queue closed and empty for good.
EndedForGood == ended => closed_ /\ queue_ = <<>>

IInv == TypeOK /\ PopsWakeUp /\ PushesWakeUp /\ InOrder /\ EndedForGood

----------------------------------------------------------------------------
\* The steps of Next one by one, for proofs by cases.
LEMMA Steps ==
  ASSUME [Next]_vars
  PROVE  \/ \E t \in Threads, op \in Pushes, x \in Items : Begin(t, op, x)
         \/ \E t \in Threads, op \in Pops \cup {"close"} : Begin(t, op, NoItem)
         \/ \E t \in Threads : Push(t) \/ Pop(t)
         \/ \E t \in Threads : CloseSet(t) \/ CloseNotifyEmpty(t) \/ CloseNotifyFull(t)
         \/ \E t \in Threads : Deadline(t) \/ Wake(t)
         \/ UNCHANGED vars
BY DEF Next, Step, TimeoutWake, SpuriousWake

\* What a push does between the lock and the unlock or the wait.
LEMMA PushSteps ==
  ASSUME NEW t \in Threads, Push(t)
  PROVE  \/ PushRefused(t) /\ closed_
         \/ PushAccepted(t) /\ Len(queue_) < Capacity /\ ~closed_
         \/ PushThrows(t)
         \/ WaitOrGiveUp(t) /\ ~(Len(queue_) < Capacity) /\ ~closed_
BY DEF Push, PushReady, PushRefused, PushAccepted, Accepting

\* What a pop does between the lock and the unlock or the wait.
LEMMA PopSteps ==
  ASSUME NEW t \in Threads, Pop(t)
  PROVE  \/ PopEnds(t) /\ queue_ = <<>> /\ closed_
         \/ PopDelivers(t)
         \/ PopThrows(t)
         \/ WaitOrGiveUp(t) /\ queue_ = <<>>
BY DEF Pop, PopReady, PopEnds, Drained

\* What TypeOK says of each thread.
LEMMA ThreadTypes ==
  ASSUME TypeOK
  PROVE  /\ DOMAIN pc = Threads /\ DOMAIN call = Threads /\ DOMAIN item = Threads
         /\ pc \in [Threads -> {"idle", "enter", "asleep", "woken", "notifyEmpty", "notifyFull"}]
         /\ call \in [Threads -> Calls]
BY DEF TypeOK

\* What TypeOK says of the items and the counters.
LEMMA DataTypes ==
  ASSUME TypeOK
  PROVE  /\ queue_ \in Seq(Items) /\ Len(queue_) \in 0 .. Capacity
         /\ queue_ = <<>> <=> Len(queue_) = 0
         /\ accepted \in Seq(Items) /\ delivered \in Seq(Items)
         /\ pushThrows \in Nat /\ popThrows \in Nat /\ Capacity \in Nat
<1>1. queue_ \in Seq(Items) /\ Len(queue_) <= Capacity
  BY DEF TypeOK
<1>2. Len(queue_) \in Nat /\ (queue_ = <<>> <=> Len(queue_) = 0)
  BY <1>1, EmptySeq, LenProperties
<1> QED BY <1>1, <1>2, QueueAssumption DEF TypeOK

\* An item accepted joins the queue at its end.
LEMMA AppendOrder ==
  ASSUME NEW d \in Seq(Items), NEW q \in Seq(Items), NEW x \in Items
  PROVE  Append(d \o q, x) = d \o Append(q, x)
<1>1. /\ d \o q \in Seq(Items) /\ Append(q, x) \in Seq(Items)
      /\ Len(d) \in Nat /\ Len(q) \in Nat
      /\ Len(Append(q, x)) = Len(q) + 1
      /\ \A i \in 1 .. Len(q) + 1 : Append(q, x)[i] = IF i = Len(q) + 1 THEN x ELSE q[i]
  BY ConcatProperties, AppendProperties, LenProperties
<1>2. /\ Len(d \o q) = Len(d) + Len(q)
      /\ \A i \in 1 .. Len(d) + Len(q) :
           (d \o q)[i] = IF i <= Len(d) THEN d[i] ELSE q[i - Len(d)]
  BY ConcatProperties
<1>3. /\ Append(d \o q, x) \in Seq(Items)
      /\ Len(Append(d \o q, x)) = Len(d) + Len(q) + 1
      /\ \A i \in 1 .. Len(d) + Len(q) + 1 :
           Append(d \o q, x)[i] = IF i = Len(d) + Len(q) + 1 THEN x ELSE (d \o q)[i]
  BY <1>1, <1>2, AppendProperties
<1>4. /\ d \o Append(q, x) \in Seq(Items)
      /\ Len(d \o Append(q, x)) = Len(d) + Len(q) + 1
      /\ \A i \in 1 .. Len(d) + Len(q) + 1 :
           (d \o Append(q, x))[i] = IF i <= Len(d) THEN d[i] ELSE Append(q, x)[i - Len(d)]
  <2> DEFINE a == Append(q, x)
  <2>1. /\ d \o a \in Seq(Items) /\ Len(d \o a) = Len(d) + Len(a)
        /\ \A i \in 1 .. Len(d) + Len(a) :
             (d \o a)[i] = IF i <= Len(d) THEN d[i] ELSE a[i - Len(d)]
    BY <1>1, ConcatProperties
  <2>2. Len(d) + Len(a) = Len(d) + Len(q) + 1
    BY <1>1
  <2> QED BY <2>1, <2>2
<1>5. \A i \in 1 .. Len(d) + Len(q) + 1 : Append(d \o q, x)[i] = (d \o Append(q, x))[i]
  <2> SUFFICES ASSUME NEW i \in 1 .. Len(d) + Len(q) + 1
               PROVE  Append(d \o q, x)[i] = (d \o Append(q, x))[i]
    OBVIOUS
  <2>1. CASE i <= Len(d)
    BY <1>1, <1>2, <1>3, <1>4, <2>1
  <2>2. CASE Len(d) < i /\ i <= Len(d) + Len(q)
    <3>1. i - Len(d) \in 1 .. Len(q)
      BY <1>1, <2>2
    <3> QED BY <1>1, <1>2, <1>3, <1>4, <2>2, <3>1
  <2>3. CASE i = Len(d) + Len(q) + 1
    BY <1>1, <1>3, <1>4, <2>3
  <2> QED BY <1>1, <2>1, <2>2, <2>3
<1> QED BY <1>3, <1>4, <1>5, SeqEqual

\* An item delivered leaves the queue at its front.
LEMMA DeliverOrder ==
  ASSUME NEW d \in Seq(Items), NEW q \in Seq(Items), q # <<>>
  PROVE  /\ d \o q = Append(d, Head(q)) \o Tail(q)
         /\ (d \o q)[Len(d) + 1] = Head(q)
<1>1. /\ Head(q) \in Items /\ Tail(q) \in Seq(Items)
      /\ Len(d) \in Nat /\ Len(q) \in Nat \ {0} /\ Len(Tail(q)) = Len(q) - 1
      /\ Head(q) = q[1] /\ \A i \in 1 .. Len(q) - 1 : Tail(q)[i] = q[i + 1]
  BY HeadTailProperties, LenProperties, EmptySeq
<1>2. /\ Append(d, Head(q)) \in Seq(Items) /\ Len(Append(d, Head(q))) = Len(d) + 1
      /\ \A i \in 1 .. Len(d) + 1 :
           Append(d, Head(q))[i] = IF i = Len(d) + 1 THEN Head(q) ELSE d[i]
  BY <1>1, AppendProperties
<1>3. /\ d \o q \in Seq(Items) /\ Len(d \o q) = Len(d) + Len(q)
      /\ \A i \in 1 .. Len(d) + Len(q) :
           (d \o q)[i] = IF i <= Len(d) THEN d[i] ELSE q[i - Len(d)]
  BY ConcatProperties
<1>4. /\ Append(d, Head(q)) \o Tail(q) \in Seq(Items)
      /\ Len(Append(d, Head(q)) \o Tail(q)) = Len(d) + Len(q)
      /\ \A i \in 1 .. Len(d) + Len(q) :
           (Append(d, Head(q)) \o Tail(q))[i] =
             IF i <= Len(d) + 1 THEN Append(d, Head(q))[i] ELSE Tail(q)[i - (Len(d) + 1)]
  <2> DEFINE a == Append(d, Head(q))
             b == Tail(q)
  <2>1. /\ a \o b \in Seq(Items) /\ Len(a \o b) = Len(a) + Len(b)
        /\ \A i \in 1 .. Len(a) + Len(b) :
             (a \o b)[i] = IF i <= Len(a) THEN a[i] ELSE b[i - Len(a)]
    BY <1>1, <1>2, ConcatProperties
  <2>2. Len(a) = Len(d) + 1 /\ Len(a) + Len(b) = Len(d) + Len(q)
    BY <1>1, <1>2
  <2> QED BY <2>1, <2>2
<1>5. ASSUME NEW i \in 1 .. Len(d) + Len(q)
      PROVE  (d \o q)[i] = (Append(d, Head(q)) \o Tail(q))[i]
  <2>1. CASE i <= Len(d)
    BY <1>1, <1>2, <1>3, <1>4, <2>1
  <2>2. CASE i = Len(d) + 1
    BY <1>1, <1>2, <1>3, <1>4, <2>2
  <2>3. CASE i > Len(d) + 1
    <3>1. /\ i - (Len(d) + 1) \in 1 .. Len(q) - 1
          /\ i - (Len(d) + 1) + 1 = i - Len(d)
      BY <1>1, <2>3
    <3> QED BY <1>1, <1>3, <1>4, <2>3, <3>1
  <2> QED BY <1>1, <2>1, <2>2, <2>3
<1>6. (d \o q)[Len(d) + 1] = Head(q)
  BY <1>1, <1>3
<1> QED BY <1>3, <1>4, <1>5, <1>6, SeqEqual

\* What a thread that wakes, one that goes to sleep and one that does both cost.
LEMMA Counting ==
  ASSUME NEW S \in SUBSET Threads, NEW T \in SUBSET Threads
  PROVE  /\ Cardinality(S) \in Nat /\ Cardinality(T) \in Nat
         /\ S \subseteq T => Cardinality(S) <= Cardinality(T)
         /\ \A t : S \ {t} \subseteq T => Cardinality(S) <= Cardinality(T) + 1
         /\ \A w : w \in T \ S /\ S \subseteq T => Cardinality(S) + 1 <= Cardinality(T)
         /\ \A t, w : w \in T \ S /\ S \ {t} \subseteq T => Cardinality(S) <= Cardinality(T)
<1>1. IsFiniteSet(S) /\ IsFiniteSet(T) /\ Cardinality(S) \in Nat /\ Cardinality(T) \in Nat
  BY QueueAssumption, FS_Subset, FS_CardinalityType
<1>2. S \subseteq T => Cardinality(S) <= Cardinality(T)
  BY <1>1, FS_Subset
<1>3. ASSUME NEW t, S \ {t} \subseteq T PROVE Cardinality(S) <= Cardinality(T) + 1
  <2>1. /\ Cardinality(S \ {t}) <= Cardinality(T)
        /\ Cardinality(S \ {t}) = IF t \in S THEN Cardinality(S) - 1 ELSE Cardinality(S)
    BY <1>1, <1>3, FS_Subset, FS_RemoveElement
  <2> QED BY <1>1, <2>1
<1>4. ASSUME NEW w, w \in T \ S, S \subseteq T PROVE Cardinality(S) + 1 <= Cardinality(T)
  <2>1. /\ S \cup {w} \subseteq T
        /\ Cardinality(S \cup {w}) = Cardinality(S) + 1
    BY <1>1, <1>4, FS_AddElement
  <2> QED BY <1>1, <2>1, FS_Subset
<1>5. ASSUME NEW t, NEW w, w \in T \ S, S \ {t} \subseteq T
      PROVE  Cardinality(S) <= Cardinality(T)
  <2>1. /\ IsFiniteSet(T \ {w}) /\ Cardinality(T \ {w}) = Cardinality(T) - 1
        /\ S \ {t} \subseteq T \ {w}
    BY <1>1, <1>5, FS_RemoveElement
  <2>2. Cardinality(S \ {t}) <= Cardinality(T) - 1
    BY <2>1, FS_Subset
  <2>3. Cardinality(S \ {t}) = IF t \in S THEN Cardinality(S) - 1 ELSE Cardinality(S)
    BY <1>1, FS_RemoveElement
  <2>4. IsFiniteSet(S \ {t}) /\ Cardinality(S \ {t}) \in Nat
    BY <1>1, FS_RemoveElement, FS_CardinalityType
  <2> QED BY <1>1, <2>2, <2>3, <2>4
<1> QED BY <1>1, <1>2, <1>3, <1>4, <1>5

----------------------------------------------------------------------------
\* Every call and every wakeup keeps the types of the members.
LEMMA TypeStep == TypeOK /\ [Next]_vars => TypeOK'
<1> SUFFICES ASSUME TypeOK, [Next]_vars PROVE TypeOK'
  OBVIOUS
<1>0. /\ queue_ # <<>> => Head(queue_) \in Items /\ Tail(queue_) \in Seq(Items)
      /\ queue_ # <<>> => Len(Tail(queue_)) = Len(queue_) - 1
      /\ \A x \in Items : /\ Append(queue_, x) \in Seq(Items)
                          /\ Len(Append(queue_, x)) = Len(queue_) + 1
                          /\ Append(accepted, x) \in Seq(Items)
                          /\ Append(delivered, x) \in Seq(Items)
  BY DataTypes, HeadTailProperties, AppendProperties
<1> USE QueueAssumption DEF TypeOK, Calls, Pushes, Pops, Timed
<1>1. ASSUME NEW t \in Threads, NEW op \in Pushes, NEW x \in Items, Begin(t, op, x)
      PROVE  TypeOK'
  BY <1>1 DEF Begin
<1>2. ASSUME NEW t \in Threads, NEW op \in Pops \cup {"close"}, Begin(t, op, NoItem)
      PROVE  TypeOK'
  BY <1>2 DEF Begin
<1>3. ASSUME NEW t \in Threads, Push(t) PROVE TypeOK'
  <2>0. t \in AwakeIn(Pushes) /\ UNCHANGED <<call, item, calls>> /\ item[t] \in Items
    BY <1>3 DEF Push, AwakeIn
  <2>1. CASE PushRefused(t)
    BY <2>0, <2>1 DEF PushRefused, Return
  <2>2. CASE PushAccepted(t) /\ Len(queue_) < Capacity
    <3>1. /\ queue_' \in Seq(Items) /\ Len(queue_') <= Capacity
          /\ accepted' \in Seq(Items)
      BY <1>0, <2>0, <2>2, DataTypes DEF PushAccepted
    <3>2. /\ pc' \in [Threads -> {"idle", "enter", "asleep", "woken", "notifyEmpty", "notifyFull"}]
          /\ \A u \in Threads : pc'[u] = pc[u] \/ (u = t /\ pc'[u] = "idle")
                                \/ (pc[u] = "asleep" /\ pc'[u] = "woken")
          /\ expired' = expired \ {t}
      BY <2>0, <2>2 DEF PushAccepted, ReturnNotifying, Notified, AsleepIn
    <3> QED BY <2>0, <2>2, <3>1, <3>2 DEF PushAccepted
  <2>3. CASE PushThrows(t)
    BY <2>0, <2>3 DEF PushThrows, Return
  <2>4. CASE WaitOrGiveUp(t)
    BY <2>0, <2>4 DEF WaitOrGiveUp, AwakeIn
  <2> QED BY <1>3, <2>1, <2>2, <2>3, <2>4, PushSteps
<1>4. ASSUME NEW t \in Threads, Pop(t) PROVE TypeOK'
  <2>0. t \in AwakeIn(Pops) /\ UNCHANGED <<call, item, calls>>
    BY <1>4 DEF Pop, AwakeIn
  <2>1. CASE PopEnds(t)
    BY <2>0, <2>1 DEF PopEnds, Return
  <2>2. CASE PopDelivers(t)
    <3>1. /\ queue_' \in Seq(Items) /\ Len(queue_') <= Capacity
          /\ delivered' \in Seq(Items)
      BY <1>0, <2>2, DataTypes DEF PopDelivers
    <3>2. /\ pc' \in [Threads -> {"idle", "enter", "asleep", "woken", "notifyEmpty", "notifyFull"}]
          /\ \A u \in Threads : pc'[u] = pc[u] \/ (u = t /\ pc'[u] = "idle")
                                \/ (pc[u] = "asleep" /\ pc'[u] = "woken")
          /\ expired' = expired \ {t}
      BY <2>0, <2>2 DEF PopDelivers, ReturnNotifying, AsleepIn
    <3> QED BY <2>0, <2>2, <3>1, <3>2 DEF PopDelivers
  <2>3. CASE PopThrows(t)
    BY <2>0, <2>3 DEF PopThrows, Return
  <2>4. CASE WaitOrGiveUp(t)
    BY <2>0, <2>4 DEF WaitOrGiveUp, AwakeIn
  <2> QED BY <1>4, <2>1, <2>2, <2>3, <2>4, PopSteps
<1>5. ASSUME NEW t \in Threads, CloseSet(t) PROVE TypeOK'
  BY <1>5 DEF CloseSet
<1>6. ASSUME NEW t \in Threads, CloseNotifyEmpty(t) PROVE TypeOK'
  BY <1>6 DEF CloseNotifyEmpty, NotifyAll, AsleepIn
<1>7. ASSUME NEW t \in Threads, CloseNotifyFull(t) PROVE TypeOK'
  BY <1>7 DEF CloseNotifyFull, NotifyAll, AsleepIn
<1>8. ASSUME NEW t \in Threads, Deadline(t) PROVE TypeOK'
  BY <1>8 DEF Deadline
<1>9. ASSUME NEW t \in Threads, Wake(t) PROVE TypeOK'
  BY <1>9 DEF Wake
<1>10. CASE UNCHANGED vars
  BY <1>10 DEF vars
<1> QED BY <1>1, <1>2, <1>3, <1>4, <1>5, <1>6, <1>7, <1>8, <1>9, <1>10, Steps

\* A step that leaves the queue and its flag alone and puts nobody to sleep who
\* waits for ops keeps every wakeup that is on its way to them.
LEMMA NobodyLost ==
  ASSUME TypeOK, [Next]_vars, NEW ops \in {Pushes, Pops}
  PROVE  \/ \E t \in Threads : Push(t) \/ Pop(t)
         \/ /\ AwakeIn(ops) \subseteq AwakeIn(ops)'
            /\ AsleepIn(ops)' \subseteq AsleepIn(ops)
            /\ UNCHANGED <<queue_, pushThrows, popThrows>>
            /\ closed_ => closed_'
<1> USE DEF AwakeIn, AsleepIn, Pushes, Pops
<1>1. ASSUME NEW t \in Threads, NEW op \in Pushes, NEW x \in Items, Begin(t, op, x)
      PROVE  /\ AwakeIn(ops) \subseteq AwakeIn(ops)'
             /\ AsleepIn(ops)' \subseteq AsleepIn(ops)
             /\ UNCHANGED <<queue_, closed_, pushThrows, popThrows>>
  BY <1>1, ThreadTypes DEF Begin
<1>2. ASSUME NEW t \in Threads, NEW op \in Pops \cup {"close"}, Begin(t, op, NoItem)
      PROVE  /\ AwakeIn(ops) \subseteq AwakeIn(ops)'
             /\ AsleepIn(ops)' \subseteq AsleepIn(ops)
             /\ UNCHANGED <<queue_, closed_, pushThrows, popThrows>>
  BY <1>2, ThreadTypes DEF Begin
<1>3. ASSUME NEW t \in Threads, CloseSet(t) \/ CloseNotifyEmpty(t) \/ CloseNotifyFull(t)
      PROVE  /\ AwakeIn(ops) \subseteq AwakeIn(ops)'
             /\ AsleepIn(ops)' \subseteq AsleepIn(ops)
             /\ UNCHANGED <<queue_, pushThrows, popThrows>>
             /\ closed_ => closed_'
  BY <1>3, ThreadTypes DEF CloseSet, CloseNotifyEmpty, CloseNotifyFull, NotifyAll
<1>4. ASSUME NEW t \in Threads, Deadline(t) \/ Wake(t)
      PROVE  /\ AwakeIn(ops) \subseteq AwakeIn(ops)'
             /\ AsleepIn(ops)' \subseteq AsleepIn(ops)
             /\ UNCHANGED <<queue_, closed_, pushThrows, popThrows>>
  BY <1>4, ThreadTypes DEF Deadline, Wake
<1>5. CASE UNCHANGED vars
  BY <1>5 DEF vars
<1> QED BY <1>1, <1>2, <1>3, <1>4, <1>5, Steps

\* The sets of threads do not leave Threads.
LEMMA AwakeTypes ==
  ASSUME NEW ops
  PROVE  AwakeIn(ops) \in SUBSET Threads /\ AwakeIn(ops)' \in SUBSET Threads
BY DEF AwakeIn

\* One notify_one () per item, and the pop that takes none, keep PopsWakeUp.
LEMMA PopsWakeUpStep == IInv /\ [Next]_vars => PopsWakeUp'
<1> SUFFICES ASSUME IInv, [Next]_vars, AsleepIn(Pops)' # {}
             PROVE  Len(queue_') <= Cardinality(AwakeIn(Pops)') + popThrows'
  BY DEF PopsWakeUp
<1> DEFINE S == AwakeIn(Pops)
           T == AwakeIn(Pops)'
<1>0. TypeOK /\ PopsWakeUp
  BY DEF IInv
<1>a. /\ Cardinality(S) \in Nat /\ Cardinality(T) \in Nat
      /\ S \subseteq T => Cardinality(S) <= Cardinality(T)
      /\ \A t : S \ {t} \subseteq T => Cardinality(S) <= Cardinality(T) + 1
      /\ \A w : w \in T \ S /\ S \subseteq T => Cardinality(S) + 1 <= Cardinality(T)
  <2> HIDE DEF S, T
  <2>1. S \in SUBSET Threads /\ T \in SUBSET Threads
    BY AwakeTypes DEF S, T
  <2> QED BY <2>1, Counting
<1>b. /\ Len(queue_) \in Nat /\ popThrows \in Nat /\ (queue_ = <<>> <=> Len(queue_) = 0)
      /\ popThrows' \in Nat
  <2>1. TypeOK'
    BY <1>0, TypeStep
  <2> QED BY <1>0, <2>1, DataTypes DEF TypeOK
<1>1. ASSUME NEW t \in Threads, Push(t)
      PROVE  Len(queue_') <= Cardinality(T) + popThrows'
  <2>0. /\ pc[t] \in {"enter", "woken"} /\ call[t] \in Pushes /\ item[t] \in Items
        /\ call[t] \notin Pops /\ call' = call
    BY <1>0, <1>1 DEF Push, AwakeIn, TypeOK, Pushes, Pops
  <2>1. CASE PushRefused(t) \/ PushThrows(t) \/ WaitOrGiveUp(t)
    <3>1. S \subseteq T /\ AsleepIn(Pops) # {} /\ UNCHANGED <<queue_, popThrows>>
      BY <1>0, <2>0, <2>1, ThreadTypes
         DEF PushRefused, PushThrows, Return, WaitOrGiveUp, AwakeIn, AsleepIn
    <3> QED BY <1>0, <1>a, <1>b, <3>1 DEF PopsWakeUp
  <2>2. CASE PushAccepted(t)
    <3>1. Len(queue_') = Len(queue_) + 1 /\ popThrows' = popThrows
      BY <1>0, <2>0, <2>2, DataTypes, AppendProperties DEF PushAccepted
    <3>2. AsleepIn(Pops) # {}
      BY <1>0, <2>0, <2>2, ThreadTypes
         DEF PushAccepted, ReturnNotifying, Notified, AsleepIn
    <3>3. PICK w \in AsleepIn(Pops) : pc' = [pc EXCEPT ![t] = "idle", ![w] = "woken"]
      BY <2>2, <3>2 DEF PushAccepted, ReturnNotifying, Notified
    <3>4. w \in T \ S /\ S \subseteq T
      BY <1>0, <2>0, <3>3, ThreadTypes DEF AwakeIn, AsleepIn
    <3> QED BY <1>0, <1>a, <1>b, <3>1, <3>2, <3>4 DEF PopsWakeUp
  <2> QED BY <1>1, <2>1, <2>2, PushSteps
<1>2. ASSUME NEW t \in Threads, Pop(t)
      PROVE  Len(queue_') <= Cardinality(T) + popThrows'
  <2>0. /\ pc[t] \in {"enter", "woken"} /\ call[t] \in Pops
        /\ call[t] \notin Pushes /\ call' = call
    BY <1>0, <1>2 DEF Pop, AwakeIn, TypeOK, Pushes, Pops
  <2>1. CASE queue_ = <<>> /\ (PopEnds(t) \/ WaitOrGiveUp(t))
    BY <1>a, <1>b, <2>1 DEF PopEnds, Return, WaitOrGiveUp
  <2>2. CASE PopThrows(t)
    <3>1. /\ S \ {t} \subseteq T /\ AsleepIn(Pops) # {}
          /\ queue_' = queue_ /\ popThrows' = popThrows + 1
      BY <1>0, <2>0, <2>2, ThreadTypes DEF PopThrows, Return, AwakeIn, AsleepIn
    <3>2. Cardinality(S) <= Cardinality(T) + 1
      BY <1>a, <3>1
    <3> HIDE DEF S, T
    <3>3. Len(queue_) <= Cardinality(S) + popThrows
      BY <1>0, <3>1 DEF PopsWakeUp, S
    <3> QED BY <1>a, <1>b, <3>1, <3>2, <3>3
  <2>3. CASE PopDelivers(t)
    <3>1. Len(queue_') = Len(queue_) - 1 /\ popThrows' = popThrows
      BY <1>0, <2>3, DataTypes, HeadTailProperties DEF PopDelivers
    <3>2. S \ {t} \subseteq T /\ AsleepIn(Pops) # {}
      BY <1>0, <2>0, <2>3, ThreadTypes
         DEF PopDelivers, ReturnNotifying, AwakeIn, AsleepIn, Pushes, Pops
    <3>3. Cardinality(S) <= Cardinality(T) + 1
      BY <1>a, <3>2
    <3> HIDE DEF S, T
    <3>4. Len(queue_) <= Cardinality(S) + popThrows
      BY <1>0, <3>2 DEF PopsWakeUp, S
    <3> QED BY <1>a, <1>b, <3>1, <3>3, <3>4
  <2> QED BY <1>2, <2>1, <2>2, <2>3, PopSteps
<1>3. CASE /\ S \subseteq T /\ AsleepIn(Pops)' \subseteq AsleepIn(Pops)
           /\ UNCHANGED <<queue_, popThrows>>
  BY <1>0, <1>3, <1>a, <1>b DEF PopsWakeUp
<1> QED BY <1>0, <1>1, <1>2, <1>3, NobodyLost

\* One notify_one () per place, and the push that takes none, keep PushesWakeUp.
LEMMA PushesWakeUpStep == IInv /\ [Next]_vars => PushesWakeUp'
<1> SUFFICES ASSUME IInv, [Next]_vars, AsleepIn(Pushes)' # {}, ~closed_'
             PROVE  Capacity - Len(queue_') <= Cardinality(AwakeIn(Pushes)') + pushThrows'
  BY DEF PushesWakeUp
<1> DEFINE S == AwakeIn(Pushes)
           T == AwakeIn(Pushes)'
<1>0. TypeOK /\ PushesWakeUp
  BY DEF IInv
<1>a. /\ Cardinality(S) \in Nat /\ Cardinality(T) \in Nat
      /\ S \subseteq T => Cardinality(S) <= Cardinality(T)
      /\ \A t : S \ {t} \subseteq T => Cardinality(S) <= Cardinality(T) + 1
      /\ \A w : w \in T \ S /\ S \subseteq T => Cardinality(S) + 1 <= Cardinality(T)
  <2> HIDE DEF S, T
  <2>1. S \in SUBSET Threads /\ T \in SUBSET Threads
    BY AwakeTypes DEF S, T
  <2> QED BY <2>1, Counting
<1>b. /\ Len(queue_) \in 0 .. Capacity /\ Capacity \in Nat /\ pushThrows \in Nat
      /\ pushThrows' \in Nat
  <2>1. TypeOK'
    BY <1>0, TypeStep
  <2> QED BY <1>0, <2>1, DataTypes DEF TypeOK
<1>1. ASSUME NEW t \in Threads, Push(t)
      PROVE  Capacity - Len(queue_') <= Cardinality(T) + pushThrows'
  <2>0. /\ pc[t] \in {"enter", "woken"} /\ call[t] \in Pushes /\ item[t] \in Items
        /\ call[t] \notin Pops /\ call' = call /\ closed_' = closed_
    BY <1>0, <1>1 DEF Push, AwakeIn, TypeOK, Pushes, Pops, PushRefused, PushAccepted,
                      PushThrows, Return, WaitOrGiveUp
  <2>1. CASE WaitOrGiveUp(t) /\ ~(Len(queue_) < Capacity)
    BY <1>a, <1>b, <2>1 DEF WaitOrGiveUp
  <2>2. CASE PushThrows(t)
    <3>1. /\ S \ {t} \subseteq T /\ AsleepIn(Pushes) # {}
          /\ queue_' = queue_ /\ pushThrows' = pushThrows + 1
      BY <1>0, <2>0, <2>2, ThreadTypes DEF PushThrows, Return, AwakeIn, AsleepIn
    <3>2. Cardinality(S) <= Cardinality(T) + 1
      BY <1>a, <3>1
    <3> HIDE DEF S, T
    <3>3. Capacity - Len(queue_) <= Cardinality(S) + pushThrows
      BY <1>0, <2>0, <3>1 DEF PushesWakeUp, S
    <3> QED BY <1>a, <1>b, <3>1, <3>2, <3>3
  <2>3. CASE PushAccepted(t)
    <3>1. Len(queue_') = Len(queue_) + 1 /\ pushThrows' = pushThrows
      BY <1>0, <2>0, <2>3, DataTypes, AppendProperties DEF PushAccepted
    <3>2. S \ {t} \subseteq T /\ AsleepIn(Pushes) # {}
      BY <1>0, <2>0, <2>3, ThreadTypes
         DEF PushAccepted, ReturnNotifying, Notified, AwakeIn, AsleepIn, Pushes, Pops
    <3>3. Cardinality(S) <= Cardinality(T) + 1
      BY <1>a, <3>2
    <3> HIDE DEF S, T
    <3>4. Capacity - Len(queue_) <= Cardinality(S) + pushThrows
      BY <1>0, <2>0, <3>2 DEF PushesWakeUp, S
    <3> QED BY <1>a, <1>b, <3>1, <3>3, <3>4
  <2>4. CASE closed_
    BY <2>0, <2>4
  <2> QED BY <1>1, <2>1, <2>2, <2>3, <2>4, PushSteps
<1>2. ASSUME NEW t \in Threads, Pop(t)
      PROVE  Capacity - Len(queue_') <= Cardinality(T) + pushThrows'
  <2>0. /\ pc[t] \in {"enter", "woken"} /\ call[t] \in Pops
        /\ call[t] \notin Pushes /\ call' = call /\ closed_' = closed_
    BY <1>0, <1>2 DEF Pop, AwakeIn, TypeOK, Pushes, Pops, PopEnds, PopDelivers, PopThrows,
                      Return, WaitOrGiveUp
  <2>1. CASE PopEnds(t) \/ PopThrows(t) \/ WaitOrGiveUp(t)
    <3>1. S \subseteq T /\ AsleepIn(Pushes) # {} /\ UNCHANGED <<queue_, pushThrows>>
      BY <1>0, <2>0, <2>1, ThreadTypes
         DEF PopEnds, PopThrows, Return, WaitOrGiveUp, AwakeIn, AsleepIn
    <3> QED BY <1>0, <1>a, <1>b, <2>0, <3>1 DEF PushesWakeUp
  <2>2. CASE PopDelivers(t)
    <3>1. Len(queue_') = Len(queue_) - 1 /\ pushThrows' = pushThrows
      BY <1>0, <2>2, DataTypes, HeadTailProperties DEF PopDelivers
    <3>2. AsleepIn(Pushes) # {}
      BY <1>0, <2>0, <2>2, ThreadTypes DEF PopDelivers, ReturnNotifying, AsleepIn
    <3>3. PICK w \in AsleepIn(Pushes) : pc' = [pc EXCEPT ![t] = "idle", ![w] = "woken"]
      BY <2>2, <3>2 DEF PopDelivers, ReturnNotifying
    <3>4. w \in T \ S /\ S \subseteq T
      BY <1>0, <2>0, <3>3, ThreadTypes DEF AwakeIn, AsleepIn
    <3>5. Cardinality(S) + 1 <= Cardinality(T)
      BY <1>a, <3>4
    <3> HIDE DEF S, T
    <3>6. Capacity - Len(queue_) <= Cardinality(S) + pushThrows
      BY <1>0, <2>0, <3>2 DEF PushesWakeUp, S
    <3> QED BY <1>a, <1>b, <3>1, <3>5, <3>6
  <2> QED BY <1>2, <2>1, <2>2, PopSteps
<1>3. CASE /\ S \subseteq T /\ AsleepIn(Pushes)' \subseteq AsleepIn(Pushes)
           /\ UNCHANGED <<queue_, pushThrows>> /\ (closed_ => closed_')
  BY <1>0, <1>3, <1>a, <1>b DEF PushesWakeUp
<1> QED BY <1>0, <1>1, <1>2, <1>3, NobodyLost

\* Only an accepted item joins the queue and only a delivered one leaves it.
LEMMA InOrderStep == IInv /\ [Next]_vars => InOrder'
<1> SUFFICES ASSUME IInv, [Next]_vars PROVE InOrder'
  OBVIOUS
<1>0. TypeOK /\ InOrder
  BY DEF IInv
<1>1. ASSUME NEW t \in Threads, Push(t) PROVE InOrder'
  <2>0. item[t] \in Items
    BY <1>0, <1>1 DEF Push, AwakeIn, TypeOK
  <2>1. CASE PushAccepted(t)
    <3>1. /\ accepted' = Append(delivered \o queue_, item[t])
          /\ queue_' = Append(queue_, item[t]) /\ delivered' = delivered
      BY <1>0, <2>1 DEF PushAccepted, InOrder
    <3> QED BY <1>0, <2>0, <3>1, AppendOrder, DataTypes DEF InOrder
  <2>2. CASE PushRefused(t) \/ PushThrows(t) \/ WaitOrGiveUp(t)
    BY <1>0, <2>2 DEF PushRefused, PushThrows, Return, WaitOrGiveUp, InOrder
  <2> QED BY <1>1, <2>1, <2>2, PushSteps
<1>2. ASSUME NEW t \in Threads, Pop(t) PROVE InOrder'
  <2>1. CASE PopDelivers(t)
    <3>1. /\ delivered' = Append(delivered, Head(queue_)) /\ queue_' = Tail(queue_)
          /\ accepted' = delivered \o queue_ /\ queue_ # <<>>
      BY <1>0, <2>1 DEF PopDelivers, InOrder
    <3> QED BY <1>0, <3>1, DeliverOrder, DataTypes DEF InOrder
  <2>2. CASE PopEnds(t) \/ PopThrows(t) \/ WaitOrGiveUp(t)
    BY <1>0, <2>2 DEF PopEnds, PopThrows, Return, WaitOrGiveUp, InOrder
  <2> QED BY <1>2, <2>1, <2>2, PopSteps
<1>3. CASE UNCHANGED <<queue_, accepted, delivered>>
  BY <1>0, <1>3 DEF InOrder
<1> QED
  BY <1>1, <1>2, <1>3, Steps DEF Begin, CloseSet, CloseNotifyEmpty, CloseNotifyFull,
     NotifyAll, Deadline, Wake, vars

\* A closed queue stays closed, and an empty one that is closed stays empty.
LEMMA EndedForGoodStep == IInv /\ [Next]_vars => EndedForGood'
<1> SUFFICES ASSUME IInv, [Next]_vars PROVE EndedForGood'
  OBVIOUS
<1>0. EndedForGood
  BY DEF IInv
<1>1. ASSUME NEW t \in Threads, Push(t) PROVE EndedForGood'
  BY <1>0, <1>1, PushSteps DEF PushRefused, PushAccepted, PushThrows, Return, WaitOrGiveUp,
     EndedForGood
<1>2. ASSUME NEW t \in Threads, Pop(t) PROVE EndedForGood'
  BY <1>0, <1>2, PopSteps DEF PopEnds, PopDelivers, PopThrows, Return, WaitOrGiveUp,
     EndedForGood
<1>3. CASE UNCHANGED <<queue_, ended>> /\ (closed_ => closed_')
  BY <1>0, <1>3 DEF EndedForGood
<1>4. ASSUME NEW t \in Threads, CloseSet(t)
      PROVE  UNCHANGED <<queue_, ended>> /\ (closed_ => closed_')
  BY <1>4, Zenon DEF CloseSet
<1> QED
  BY <1>1, <1>2, <1>3, <1>4, Steps DEF Begin, CloseNotifyEmpty, CloseNotifyFull,
     NotifyAll, Deadline, Wake, vars

LEMMA Inductive == Spec => []IInv
<1>1. Init => IInv
  <2> SUFFICES ASSUME Init PROVE IInv
    OBVIOUS
  <2>1. TypeOK
    <3>1. /\ queue_ \in Seq(Items) /\ Len(queue_) = 0
          /\ accepted \in Seq(Items) /\ delivered \in Seq(Items)
      BY EmptySeq DEF Init
    <3>2. \A t \in Threads : pc[t] = "idle" /\ call[t] = "close" /\ item[t] = NoItem
      BY DEF Init
    <3>3. /\ calls \in 0 .. MaxCalls
          /\ pushThrows \in 0 .. MaxThrows /\ popThrows \in 0 .. MaxThrows
      BY QueueAssumption DEF Init
    <3>4. /\ pc \in [Threads -> {"idle", "enter", "asleep", "woken", "notifyEmpty", "notifyFull"}]
          /\ call \in [Threads -> Calls] /\ item \in [Threads -> Items \cup {NoItem}]
      BY DEF Init, Calls
    <3>5. closed_ \in BOOLEAN /\ ended \in BOOLEAN /\ expired = {}
      BY Zenon DEF Init
    <3>6. Len(queue_) <= Capacity
      BY <3>1, QueueAssumption
    <3> QED BY <3>1, <3>2, <3>3, <3>4, <3>5, <3>6 DEF TypeOK, Pushes
  <2>2. AsleepIn(Pops) = {} /\ AsleepIn(Pushes) = {}
    BY DEF Init, AsleepIn
  <2>3. InOrder
    BY ConcatEmptySeq, EmptySeq DEF Init, InOrder
  <2>4. PopsWakeUp /\ PushesWakeUp
    BY <2>2 DEF PopsWakeUp, PushesWakeUp
  <2>5. EndedForGood
    BY DEF Init, EndedForGood
  <2> QED BY <2>1, <2>3, <2>4, <2>5 DEF IInv
<1>2. IInv /\ [Next]_vars => IInv'
  <2>1. IInv => TypeOK
    BY DEF IInv
  <2> QED
    BY <2>1, TypeStep, PopsWakeUpStep, PushesWakeUpStep, InOrderStep, EndedForGoodStep
       DEF IInv
<1> QED BY <1>1, <1>2, PTL DEF Spec

----------------------------------------------------------------------------
\* No number of threads, waits, spurious wakeups and timeouts loses a wakeup: an
\* item without an awake pop while a pop sleeps, or a place without an awake push
\* while a push sleeps, is one a call that threw was notified of
\* (concurrent_blocking_queue.h:39-40, 57-58, 72-74, 90-92).
THEOREM WakeupsSuffice == Spec => []NoLostWakeup
<1>1. IInv => NoLostWakeup
  BY DEF IInv, PopsWakeUp, PushesWakeUp, NoLostWakeup
<1> QED BY Inductive, <1>1, PTL

\* After a nullopt of pop () nothing is left, nothing was lost and nothing will
\* be accepted (concurrent_blocking_queue.h:69-70).
THEOREM EndIsFinal == Spec => []NulloptIsFinal
<1>1. IInv => NulloptIsFinal
  <2> SUFFICES ASSUME IInv, ended PROVE closed_ /\ delivered = accepted
    BY DEF NulloptIsFinal
  <2>1. closed_ /\ queue_ = <<>> /\ accepted = delivered \o queue_ /\ TypeOK
    BY DEF IInv, EndedForGood, InOrder
  <2> QED BY <2>1, DataTypes, ConcatEmptySeq
<1> QED BY Inductive, <1>1, PTL

\* The queue implements the bounded queue: items leave once and in the order they
\* were accepted, at most Capacity are queued and none is accepted after close ()
\* (concurrent_blocking_queue.h:24-109).
THEOREM Implements == Spec => ImplementsFifo
<1>1. Init => Fifo!Init
  BY DEF Init, Fifo!Init
<1>2. IInv /\ [Next]_vars => [Fifo!Next]_(Fifo!vars)
  <2> SUFFICES ASSUME IInv, [Next]_vars PROVE [Fifo!Next]_(Fifo!vars)
    OBVIOUS
  <2>0. TypeOK /\ accepted = delivered \o queue_
    BY DEF IInv, InOrder
  <2>1. /\ Len(accepted) = Len(delivered) + Len(queue_)
        /\ Len(delivered) \in Nat /\ Len(queue_) \in 0 .. Capacity /\ Capacity \in Nat
    BY <2>0, DataTypes, ConcatProperties, LenProperties
  <2>2. ASSUME NEW t \in Threads, Push(t) PROVE [Fifo!Next]_(Fifo!vars)
    <3>1. CASE PushAccepted(t) /\ Len(queue_) < Capacity /\ ~closed_
      <4>1. item[t] \in Items
        BY <2>0, <2>2 DEF Push, AwakeIn, TypeOK
      <4>2. Fifo!Push(item[t])
        BY <2>1, <3>1 DEF PushAccepted, Fifo!Push, Fifo!InQueue
      <4> QED BY <4>1, <4>2 DEF Fifo!Next
    <3>2. CASE PushRefused(t) \/ PushThrows(t) \/ WaitOrGiveUp(t)
      BY <3>2 DEF PushRefused, PushThrows, Return, WaitOrGiveUp, Fifo!vars
    <3> QED BY <2>2, <3>1, <3>2, PushSteps
  <2>3. ASSUME NEW t \in Threads, Pop(t) PROVE [Fifo!Next]_(Fifo!vars)
    <3>1. CASE PopDelivers(t)
      <4>1. queue_ # <<>> /\ Len(queue_) > 0
        BY <2>0, <2>1, <3>1, DataTypes DEF PopDelivers
      <4>2. accepted[Len(delivered) + 1] = Head(queue_)
        BY <2>0, <4>1, DeliverOrder, DataTypes
      <4>3. Fifo!Pop
        BY <2>1, <3>1, <4>1, <4>2 DEF PopDelivers, Fifo!Pop, Fifo!InQueue
      <4> QED BY <4>3 DEF Fifo!Next
    <3>2. CASE PopEnds(t) \/ PopThrows(t) \/ WaitOrGiveUp(t)
      BY <3>2 DEF PopEnds, PopThrows, Return, WaitOrGiveUp, Fifo!vars
    <3> QED BY <2>3, <3>1, <3>2, PopSteps
  <2>4. ASSUME NEW t \in Threads, CloseSet(t) PROVE Fifo!Close
    BY <2>4 DEF CloseSet, Fifo!Close
  <2>5. CASE UNCHANGED <<accepted, delivered, closed_>>
    BY <2>5 DEF Fifo!vars
  <2> QED
    BY <2>2, <2>3, <2>4, <2>5, Steps DEF Fifo!Next, Begin, CloseNotifyEmpty,
       CloseNotifyFull, NotifyAll, Deadline, Wake, vars
<1> QED BY Inductive, <1>1, <1>2, PTL DEF Spec, ImplementsFifo, Fifo!Spec
============================================================================
