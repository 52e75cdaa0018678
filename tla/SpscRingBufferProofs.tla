------------------------ MODULE SpscRingBufferProofs ------------------------
(***************************************************************************)
(* Proofs about SpscRingBuffer, for every Capacity, set of items and bound *)
(* on the pushes.  The inductive invariant counts stores instead of        *)
(* comparing indices: the k-th item goes to the slot the k-th value of     *)
(* head_ names, two stores less than Capacity + 1 apart never name the     *)
(* same slot, and what each side has acquired keeps the distance below     *)
(* Capacity + 1.                                                           *)
(***************************************************************************)
EXTENDS SpscRingBuffer, SequenceTheorems, TLAPS

\* The values of head_ walk round the ring; those of tail_ repeat them.
Ring ==
  /\ \A i, j \in 1 .. Len(head_) :
       i <= j /\ j - i <= Capacity + 1 =>
         \/ head_[j] = head_[i] + (j - i)
         \/ head_[j] = head_[i] + (j - i) - (Capacity + 1)
  /\ Len(tail_) <= Len(head_)
  /\ \A k \in 1 .. Len(tail_) : tail_[k] = head_[k]

\* How far the two sides are apart, measured by what each has acquired.
Distances ==
  /\ Len(pushed) = Len(head_) - 1
  /\ Len(popped) = Len(tail_) - 1
  /\ Len(head_) - tailAcq <= Capacity
  /\ ppc # "idle" => Len(head_) - tailAcq < Capacity
  /\ Len(tail_) <= headAcq
  /\ cpc # "idle" => Len(tail_) < headAcq
  /\ psize # -1 => Len(head_) - tailSeen <= psize
  /\ csize # -1 => csize <= headSeen - Len(tail_)

\* The last write and the last read of a slot belong to stores that name it.
SlotUse ==
  /\ \A s \in Slots : published[s] > 1 =>
       /\ published[s] - 1 <= Len(head_)
       /\ head_[published[s] - 1] = s
       /\ ppc # "store" => published[s] <= Len(head_)
  /\ \A s \in Slots : released[s] > 1 =>
       /\ released[s] - 1 <= Len(tail_)
       /\ tail_[released[s] - 1] = s
       /\ cpc # "store" => released[s] <= Len(tail_)

\* The slots between tail_ and head_ hold the items not yet popped.
Contents ==
  /\ \A k \in Len(tail_) .. Len(head_) - 1 : buffer_[head_[k]] = pushed[k]
  /\ ppc = "store" => buffer_[Newest(head_)] = pitem
  /\ cpc = "store" => celem = pushed[Len(tail_)]
  /\ \A k \in 1 .. Len(tail_) - 1 : popped[k] = pushed[k]

IInv == TypeOK /\ Ring /\ Distances /\ SlotUse /\ Contents

----------------------------------------------------------------------------
\* next_head (spsc_ring_buffer.h:27) is the next slot, wrapping after the last.
LEMMA SuccIsNext ==
  ASSUME NEW i \in Slots
  PROVE  /\ Succ(i) = IF i = Capacity THEN 0 ELSE i + 1
         /\ Succ(i) \in Slots
BY SpscAssumption DEF Succ, Slots

\* The size computed from any two indices is a number of items the ring can
\* hold, so also a third thread that reads head_ and tail_ at different times
\* gets a value in range (spsc_ring_buffer.h:52-62).
THEOREM SizeInRange ==
  ASSUME NEW h \in Slots, NEW t \in Slots
  PROVE  SizeOf(h, t) \in 0 .. Capacity
BY SpscAssumption DEF SizeOf, Slots

\* What TypeOK says about the two modification orders, index by index.
LEMMA OrderTypes ==
  ASSUME TypeOK
  PROVE  /\ Len(head_) \in Nat \ {0} /\ Len(tail_) \in Nat \ {0}
         /\ \A k \in 1 .. Len(head_) : head_[k] \in 0 .. Capacity
         /\ \A k \in 1 .. Len(tail_) : tail_[k] \in 0 .. Capacity
         /\ Newest(head_) = head_[Len(head_)] /\ Newest(head_) \in Slots
         /\ Newest(tail_) = tail_[Len(tail_)] /\ Newest(tail_) \in Slots
<1>1. /\ head_ \in Seq(Slots) /\ head_ # <<>>
      /\ tail_ \in Seq(Slots) /\ tail_ # <<>>
  BY DEF TypeOK
<1>2. Len(head_) \in Nat \ {0} /\ Len(tail_) \in Nat \ {0}
  BY <1>1, EmptySeq
<1>3. /\ \A k \in 1 .. Len(head_) : head_[k] \in Slots
      /\ \A k \in 1 .. Len(tail_) : tail_[k] \in Slots
  BY <1>1, ElementOfSeq
<1> QED BY <1>2, <1>3 DEF Newest, Slots

\* What TypeOK says about the numbers each side keeps.
LEMMA CounterTypes ==
  ASSUME TypeOK
  PROVE  /\ tailSeen \in 1 .. Len(tail_) /\ tailAcq \in 1 .. tailSeen
         /\ headSeen \in 1 .. Len(head_) /\ headAcq \in 1 .. headSeen
         /\ psize \in -1 .. Capacity /\ csize \in -1 .. Capacity
BY DEF TypeOK

\* Two stores of head_ at most Capacity apart that name one slot are one store.
LEMMA SameSlotSameStore ==
  ASSUME TypeOK, Ring,
         NEW i \in 1 .. Len(head_), NEW j \in 1 .. Len(head_),
         j - i <= Capacity, i - j <= Capacity, head_[i] = head_[j]
  PROVE  i = j
<1>1. /\ Len(head_) \in Nat
      /\ head_[i] \in 0 .. Capacity /\ head_[j] \in 0 .. Capacity
  BY OrderTypes
<1>2. CASE i <= j
  BY <1>1, <1>2, SpscAssumption DEF Ring
<1>3. CASE j <= i
  BY <1>1, <1>3, SpscAssumption DEF Ring
<1> QED BY <1>1, <1>2, <1>3

\* The numeric half of Ring and Distances, without quantifiers.
LEMMA Numbers ==
  ASSUME TypeOK, Ring, Distances
  PROVE  /\ Len(head_) \in Nat \ {0} /\ Len(tail_) \in Nat \ {0}
         /\ tailAcq \in Nat \ {0} /\ tailSeen \in Nat \ {0}
         /\ headAcq \in Nat \ {0} /\ headSeen \in Nat \ {0}
         /\ tailAcq <= tailSeen /\ tailSeen <= Len(tail_)
         /\ headAcq <= headSeen /\ headSeen <= Len(head_)
         /\ Len(tail_) <= Len(head_) /\ Len(head_) - tailAcq <= Capacity
         /\ Len(tail_) <= headAcq
<1>1. /\ Len(head_) \in Nat \ {0} /\ Len(tail_) \in Nat \ {0}
  BY OrderTypes
<1>2. /\ tailSeen \in 1 .. Len(tail_) /\ tailAcq \in 1 .. tailSeen
      /\ headSeen \in 1 .. Len(head_) /\ headAcq \in 1 .. headSeen
  BY CounterTypes
<1>3. Len(tail_) <= Len(head_)
  BY DEF Ring
<1>4. Len(head_) - tailAcq <= Capacity /\ Len(tail_) <= headAcq
  BY DEF Distances
<1> QED BY <1>1, <1>2, <1>3, <1>4

\* The test of push () says exactly that the k-th store of tail_ is Capacity
\* stores behind head_.
LEMMA FullTest ==
  ASSUME IInv, NEW i \in tailAcq .. Len(tail_)
  PROVE  Succ(Newest(head_)) = tail_[i] <=> Len(head_) - i = Capacity
<1> DEFINE P == Len(head_)
<1>0. TypeOK /\ Ring /\ Distances
  BY DEF IInv
<1>a. /\ P \in Nat \ {0} /\ Len(tail_) \in Nat \ {0} /\ tailAcq \in Nat \ {0}
      /\ P - tailAcq <= Capacity /\ Len(tail_) <= P
  BY <1>0, Numbers
<1>b. i \in 1 .. Len(tail_) /\ i \in 1 .. P /\ P - i <= Capacity /\ i <= P
  BY <1>a, SpscAssumption
<1>1. /\ head_[P] \in Slots /\ head_[i] \in Slots /\ tail_[i] = head_[i]
  BY <1>0, <1>a, <1>b, OrderTypes DEF Ring, Slots
<1>2. \/ head_[P] = head_[i] + (P - i)
      \/ head_[P] = head_[i] + (P - i) - (Capacity + 1)
  BY <1>0, <1>a, <1>b, SpscAssumption DEF Ring
<1>3. Succ(head_[P]) = IF head_[P] = Capacity THEN 0 ELSE head_[P] + 1
  BY <1>1, SuccIsNext
<1> QED BY <1>a, <1>b, <1>1, <1>2, <1>3, SpscAssumption DEF Newest, Slots

\* The test of pop () says exactly that the i-th store of head_ is the one
\* tail_ has reached.
LEMMA EmptyTest ==
  ASSUME IInv, NEW i \in Len(tail_) .. Len(head_)
  PROVE  Newest(tail_) = head_[i] <=> i = Len(tail_)
<1>0. TypeOK /\ Ring /\ Distances
  BY DEF IInv
<1>1. /\ Len(head_) \in Nat \ {0} /\ Len(tail_) \in Nat \ {0}
      /\ tailAcq \in 1 .. Len(tail_)
      /\ Len(tail_) <= Len(head_) /\ Len(head_) - tailAcq <= Capacity
  BY <1>0, Numbers
<1>2. /\ Len(tail_) \in 1 .. Len(head_) /\ i \in 1 .. Len(head_)
      /\ Len(tail_) - i <= Capacity /\ i - Len(tail_) <= Capacity
  BY <1>1, SpscAssumption
<1>3. Newest(tail_) = head_[Len(tail_)]
  BY <1>0, <1>1 DEF Ring, Newest
<1> QED BY <1>0, <1>2, <1>3, SameSlotSameStore

----------------------------------------------------------------------------
\* Every variable keeps its type.
LEMMA TypeInit == Init => TypeOK
BY SpscAssumption, EmptySeq DEF Init, TypeOK, Slots

LEMMA TypeStep ==
  ASSUME TypeOK, [Next]_vars
  PROVE  TypeOK'
<1> USE DEF mem, pvars, cvars
<1>0. /\ Newest(head_) \in Slots /\ Succ(Newest(head_)) \in Slots
      /\ Newest(tail_) \in Slots /\ Succ(Newest(tail_)) \in Slots
      /\ Len(head_) \in Nat \ {0} /\ Len(tail_) \in Nat \ {0}
  BY OrderTypes, SuccIsNext
<1>1. CASE \E item \in Items, i \in 1 .. Len(tail_) : PushLoad(item, i)
  <2>1. PICK item \in Items, i \in 1 .. Len(tail_) : PushLoad(item, i)
    BY <1>1
  <2>2. tailSeen' \in 1 .. Len(tail_') /\ tailAcq' \in 1 .. tailSeen'
    BY <1>0, <2>1, CounterTypes DEF PushLoad
  <2>3. CASE Succ(Newest(head_)) = tail_[i]
    BY <2>1, <2>2, <2>3 DEF PushLoad, TypeOK
  <2>4. CASE Succ(Newest(head_)) # tail_[i]
    BY <2>1, <2>2, <2>4 DEF PushLoad, TypeOK
  <2> QED BY <2>3, <2>4
<1>2. CASE PushWrite
  <2>1. buffer_' \in [Slots -> Items \cup {NoItem}] /\ published' \in [Slots -> Nat]
    <3>1. /\ buffer_ \in [Slots -> Items \cup {NoItem}] /\ pitem \in Items \cup {NoItem}
          /\ published \in [Slots -> Nat]
      BY DEF TypeOK
    <3>2. /\ buffer_' = [buffer_ EXCEPT ![Newest(head_)] = pitem]
          /\ published' = [published EXCEPT ![Newest(head_)] = Len(head_) + 1]
      BY <1>2 DEF PushWrite
    <3>3. Len(head_) + 1 \in Nat /\ Len(tail_) + 1 \in Nat
      BY <1>0
    <3> QED BY <1>0, <3>1, <3>2, <3>3
  <2> QED BY <1>2, <2>1 DEF PushWrite, TypeOK
<1>3. CASE PushStore
  <2>1. head_' \in Seq(Slots) /\ head_' # <<>> /\ Len(head_') = Len(head_) + 1
    <3>1. head_ \in Seq(Slots) /\ head_' = Append(head_, Succ(Newest(head_)))
      BY <1>3 DEF PushStore, TypeOK
    <3> QED BY <1>0, <3>1, AppendProperties
  <2>2. pushed' \in Seq(Items)
    BY <1>3, AppendProperties DEF PushStore, TypeOK
  <2>3. headSeen' \in 1 .. Len(head_') /\ psize' \in -1 .. Capacity
    BY <1>0, <1>3, <2>1, CounterTypes, SpscAssumption DEF PushStore
  <2> QED BY <1>3, <2>1, <2>2, <2>3 DEF PushStore, TypeOK
<1>4. CASE \E i \in 1 .. Len(head_) : PopLoad(i)
  <2>1. PICK i \in 1 .. Len(head_) : PopLoad(i)
    BY <1>4
  <2>2. headSeen' \in 1 .. Len(head_') /\ headAcq' \in 1 .. headSeen'
    BY <1>0, <2>1, CounterTypes DEF PopLoad
  <2> QED BY <2>1, <2>2 DEF PopLoad, TypeOK
<1>5. CASE PopRead
  <2>1. celem' \in Items \cup {NoItem} /\ released' \in [Slots -> Nat]
    <3>1. /\ buffer_ \in [Slots -> Items \cup {NoItem}]
          /\ released \in [Slots -> Nat]
      BY DEF TypeOK
    <3>2. /\ celem' = buffer_[Newest(tail_)]
          /\ released' = [released EXCEPT ![Newest(tail_)] = Len(tail_) + 1]
      BY <1>5 DEF PopRead
    <3>3. Len(head_) + 1 \in Nat /\ Len(tail_) + 1 \in Nat
      BY <1>0
    <3> QED BY <1>0, <3>1, <3>2, <3>3
  <2> QED BY <1>5, <2>1 DEF PopRead, TypeOK
<1>6. CASE PopStore
  <2>1. tail_' \in Seq(Slots) /\ tail_' # <<>> /\ Len(tail_') = Len(tail_) + 1
    <3>1. tail_ \in Seq(Slots) /\ tail_' = Append(tail_, Succ(Newest(tail_)))
      BY <1>6 DEF PopStore, TypeOK
    <3> QED BY <1>0, <3>1, AppendProperties
  <2>2. popped' \in Seq(Items \cup {NoItem})
    BY <1>6, AppendProperties DEF PopStore, TypeOK
  <2>3. tailSeen' \in 1 .. Len(tail_') /\ csize' \in -1 .. Capacity
    BY <1>0, <1>6, <2>1, CounterTypes, SpscAssumption DEF PopStore
  <2> QED BY <1>6, <2>1, <2>2, <2>3 DEF PopStore, TypeOK
<1>7. CASE \E i \in 1 .. Len(tail_) : ProducerSize(i)
  <2>1. PICK i \in 1 .. Len(tail_) : ProducerSize(i)
    BY <1>7
  <2>2. psize' \in -1 .. Capacity
    <3>1. tail_[i] \in Slots /\ psize' = SizeOf(Newest(head_), tail_[i])
      BY <2>1, OrderTypes DEF ProducerSize, Slots
    <3>2. psize' \in 0 .. Capacity
      BY <1>0, <3>1, SizeInRange
    <3> QED BY <3>2, SpscAssumption
  <2>3. tailSeen' \in 1 .. Len(tail_') /\ tailAcq' \in 1 .. tailSeen'
    BY <1>0, <2>1, CounterTypes DEF ProducerSize
  <2> QED BY <2>1, <2>2, <2>3 DEF ProducerSize, TypeOK
<1>8. CASE \E i \in 1 .. Len(head_) : ConsumerSize(i)
  <2>1. PICK i \in 1 .. Len(head_) : ConsumerSize(i)
    BY <1>8
  <2>2. csize' \in -1 .. Capacity
    <3>1. head_[i] \in Slots /\ csize' = SizeOf(head_[i], Newest(tail_))
      BY <2>1, OrderTypes DEF ConsumerSize, Slots
    <3>2. csize' \in 0 .. Capacity
      BY <1>0, <3>1, SizeInRange
    <3> QED BY <3>2, SpscAssumption
  <2>3. headSeen' \in 1 .. Len(head_') /\ headAcq' \in 1 .. headSeen'
    BY <1>0, <2>1, CounterTypes DEF ConsumerSize
  <2> QED BY <2>1, <2>2, <2>3 DEF ConsumerSize, TypeOK
<1>9. CASE UNCHANGED vars
  BY <1>9 DEF vars, TypeOK
<1> QED
  BY <1>1, <1>2, <1>3, <1>4, <1>5, <1>6, <1>7, <1>8, <1>9 DEF Next, Producer, Consumer

\* Type correctness: in particular both indices stay inside the buffer and
\* size () never answers more than Capacity (spsc_ring_buffer.h:27, 47, 58-61).
THEOREM TypeCorrect == Spec => []TypeOK
BY TypeInit, TypeStep, PTL DEF Spec

----------------------------------------------------------------------------
\* Successive values of head_ are successive slots.
LEMMA NextSlot ==
  ASSUME TypeOK, Ring, NEW k \in 1 .. Len(head_), k < Len(head_)
  PROVE  head_[k + 1] = Succ(head_[k])
<1>1. Len(head_) \in Nat /\ k + 1 \in 1 .. Len(head_) /\ (k + 1) - k = 1
  BY OrderTypes
<1>2. head_[k] \in 0 .. Capacity /\ head_[k + 1] \in 0 .. Capacity
  BY <1>1, OrderTypes
<1>3. \/ head_[k + 1] = head_[k] + 1
      \/ head_[k + 1] = head_[k] + 1 - (Capacity + 1)
  BY <1>1, <1>2, SpscAssumption DEF Ring
<1>4. Succ(head_[k]) = IF head_[k] = Capacity THEN 0 ELSE head_[k] + 1
  BY <1>2, SuccIsNext DEF Slots
<1> QED BY <1>2, <1>3, <1>4, SpscAssumption

\* The size computed from two values of head_ is the number of pushes that
\* lie between them.
LEMMA SizeBetween ==
  ASSUME TypeOK, Ring, NEW j \in 1 .. Len(head_), NEW k \in 1 .. Len(head_),
         k <= j, j - k <= Capacity
  PROVE  SizeOf(head_[j], head_[k]) = j - k
<1>1. head_[j] \in 0 .. Capacity /\ head_[k] \in 0 .. Capacity
  BY OrderTypes
<1>2. \/ head_[j] = head_[k] + (j - k)
      \/ head_[j] = head_[k] + (j - k) - (Capacity + 1)
  BY <1>1, SpscAssumption DEF Ring
<1> QED BY <1>1, <1>2, OrderTypes, SpscAssumption DEF SizeOf

\* What the two stores do to their modification orders and histories.
LEMMA PushStoreAppends ==
  ASSUME TypeOK, PushStore
  PROVE  /\ Len(head_') = Len(head_) + 1
         /\ \A k \in 1 .. Len(head_) : head_'[k] = head_[k]
         /\ head_'[Len(head_) + 1] = Succ(head_[Len(head_)])
         /\ Len(pushed') = Len(pushed) + 1
         /\ \A k \in 1 .. Len(pushed) : pushed'[k] = pushed[k]
         /\ pushed'[Len(pushed) + 1] = pitem
         /\ Len(pushed) \in Nat
<1>1. /\ head_ \in Seq(Slots) /\ head_' = Append(head_, Succ(Newest(head_)))
      /\ pushed \in Seq(Items) /\ pitem \in Items /\ pushed' = Append(pushed, pitem)
  BY DEF PushStore, TypeOK
<1>2. Succ(Newest(head_)) \in Slots /\ Newest(head_) = head_[Len(head_)]
  BY OrderTypes, SuccIsNext
<1>3. Len(pushed) \in Nat
  BY <1>1, LenProperties
<1> QED BY <1>1, <1>2, <1>3, AppendProperties

LEMMA PopStoreAppends ==
  ASSUME TypeOK, PopStore
  PROVE  /\ Len(tail_') = Len(tail_) + 1
         /\ \A k \in 1 .. Len(tail_) : tail_'[k] = tail_[k]
         /\ tail_'[Len(tail_) + 1] = Succ(tail_[Len(tail_)])
         /\ Len(popped') = Len(popped) + 1
         /\ \A k \in 1 .. Len(popped) : popped'[k] = popped[k]
         /\ popped'[Len(popped) + 1] = celem
         /\ Len(popped) \in Nat
<1>1. /\ tail_ \in Seq(Slots) /\ tail_' = Append(tail_, Succ(Newest(tail_)))
      /\ popped \in Seq(Items \cup {NoItem}) /\ celem \in Items \cup {NoItem}
      /\ popped' = Append(popped, celem)
  BY DEF PopStore, TypeOK
<1>2. Succ(Newest(tail_)) \in Slots /\ Newest(tail_) = tail_[Len(tail_)]
  BY OrderTypes, SuccIsNext
<1>3. Len(popped) \in Nat
  BY <1>1, LenProperties
<1> QED BY <1>1, <1>2, <1>3, AppendProperties

\* The values of head_ keep walking round the ring.
LEMMA RingStep ==
  ASSUME IInv, [Next]_vars
  PROVE  Ring'
<1>0. TypeOK /\ Ring /\ Distances
  BY DEF IInv
<1> DEFINE P == Len(head_)
           Q == Len(tail_)
<1>n. P \in Nat \ {0} /\ Q \in Nat \ {0} /\ Q <= P
  BY <1>0, Numbers
<1>1. CASE PushStore
  <2>1. /\ Len(head_') = P + 1 /\ head_'[P + 1] = Succ(head_[P])
        /\ \A k \in 1 .. P : head_'[k] = head_[k]
        /\ tail_' = tail_
    BY <1>0, <1>1, PushStoreAppends DEF PushStore
  <2>2. ASSUME NEW i \in 1 .. P + 1, NEW j \in 1 .. P + 1,
               i <= j, j - i <= Capacity + 1
        PROVE  \/ head_'[j] = head_'[i] + (j - i)
               \/ head_'[j] = head_'[i] + (j - i) - (Capacity + 1)
    <3>1. CASE j <= P
      <4>1. i \in 1 .. P /\ j \in 1 .. P
        BY <1>n, <2>2, <3>1
      <4>2. \/ head_[j] = head_[i] + (j - i)
            \/ head_[j] = head_[i] + (j - i) - (Capacity + 1)
        BY <1>0, <2>2, <4>1 DEF Ring
      <4>3. head_'[i] = head_[i] /\ head_'[j] = head_[j]
        BY <2>1, <4>1
      <4>4. head_[i] \in 0 .. Capacity /\ head_[j] \in 0 .. Capacity
        BY <1>0, <4>1, OrderTypes
      <4> QED BY <1>n, <4>1, <4>2, <4>3, <4>4, SpscAssumption
    <3>2. CASE i <= P /\ j = P + 1
      <4>1. i \in 1 .. P /\ P \in 1 .. P /\ P - i <= Capacity /\ i <= P
        BY <1>n, <2>2, <3>2, SpscAssumption
      <4>2. /\ head_[i] \in 0 .. Capacity /\ head_[P] \in 0 .. Capacity
            /\ head_'[i] = head_[i] /\ head_'[j] = Succ(head_[P])
        BY <1>0, <2>1, <3>2, <4>1, OrderTypes
      <4>3. \/ head_[P] = head_[i] + (P - i)
            \/ head_[P] = head_[i] + (P - i) - (Capacity + 1)
        BY <1>0, <4>1, SpscAssumption DEF Ring
      <4>4. Succ(head_[P]) = IF head_[P] = Capacity THEN 0 ELSE head_[P] + 1
        BY <4>2, SuccIsNext DEF Slots
      <4>5. CASE head_[P] = Capacity
        <5>1. head_'[j] = 0 /\ Capacity = head_[i] + (P - i)
          BY <1>n, <4>1, <4>2, <4>3, <4>4, <4>5, SpscAssumption
        <5>2. j - i = (P - i) + 1
          BY <1>n, <3>2, <4>1
        <5>3. 0 = head_[i] + (j - i) - (Capacity + 1)
          <6>1. head_[i] \in Int /\ Capacity \in Int /\ P - i \in Int
            BY <1>n, <4>1, <4>2, SpscAssumption
          <6>2. head_[i] + ((P - i) + 1) - (Capacity + 1) = 0
            BY <5>1, <6>1
          <6> QED BY <5>2, <6>2
        <5> QED BY <4>2, <5>1, <5>3
      <4>6. CASE head_[P] # Capacity
        <5>1. head_'[j] = head_[P] + 1
          BY <4>2, <4>4, <4>6
        <5> QED BY <1>n, <3>2, <4>1, <4>2, <4>3, <5>1, SpscAssumption
      <4> QED BY <4>5, <4>6
    <3>3. CASE i = P + 1 /\ j = P + 1
      <4>1. head_'[j] \in Int
        BY <1>0, <1>n, <2>1, <3>3, OrderTypes, SuccIsNext, SpscAssumption DEF Slots
      <4> QED BY <3>3, <4>1
    <3> QED BY <1>n, <2>2, <3>1, <3>2, <3>3
  <2>3. Len(tail_') <= Len(head_') /\ \A k \in 1 .. Len(tail_') : tail_'[k] = head_'[k]
    BY <1>0, <1>n, <2>1 DEF Ring
  <2> QED BY <2>1, <2>2, <2>3 DEF Ring
<1>2. CASE PopStore
  <2>1. /\ Len(tail_') = Q + 1 /\ tail_'[Q + 1] = Succ(tail_[Q])
        /\ \A k \in 1 .. Q : tail_'[k] = tail_[k]
        /\ head_' = head_
    BY <1>0, <1>2, PopStoreAppends DEF PopStore
  <2>2. Q < P
    BY <1>0, <1>2, Numbers DEF PopStore, Distances
  <2>3. Succ(tail_[Q]) = head_[Q + 1]
    BY <1>0, <1>n, <2>2, NextSlot DEF Ring
  <2>4. \A k \in 1 .. Q + 1 : tail_'[k] = head_[k]
    BY <1>0, <1>n, <2>1, <2>3 DEF Ring
  <2> QED BY <1>0, <1>n, <2>1, <2>2, <2>4 DEF Ring
<1>3. CASE UNCHANGED <<head_, tail_>>
  BY <1>0, <1>3 DEF Ring
<1> QED
  BY <1>1, <1>2, <1>3 DEF Next, Producer, Consumer, vars, mem, PushLoad, PushWrite,
     PopLoad, PopRead, ProducerSize, ConsumerSize

\* Each side stays within Capacity of what it has acquired from the other,
\* and what size () told it stays on the safe side.
LEMMA DistancesStep ==
  ASSUME IInv, [Next]_vars
  PROVE  Distances'
<1>0. TypeOK /\ Ring /\ Distances
  BY DEF IInv
<1> DEFINE P == Len(head_)
           Q == Len(tail_)
<1>n. /\ P \in Nat \ {0} /\ Q \in Nat \ {0}
      /\ tailAcq \in Nat \ {0} /\ tailSeen \in Nat \ {0}
      /\ headAcq \in Nat \ {0} /\ headSeen \in Nat \ {0}
      /\ tailAcq <= tailSeen /\ tailSeen <= Q /\ headAcq <= headSeen /\ headSeen <= P
      /\ Q <= P /\ P - tailAcq <= Capacity /\ Q <= headAcq
      /\ Capacity \in Nat /\ psize \in Int /\ csize \in Int
  BY <1>0, Numbers, CounterTypes, SpscAssumption
<1> USE DEF mem, pvars, cvars
<1>1. CASE \E item \in Items, i \in 1 .. Len(tail_) : PushLoad(item, i)
  <2>1. PICK item \in Items, i \in 1 .. Len(tail_) : PushLoad(item, i)
    BY <1>1
  <2>2. i \in tailAcq .. Q /\ tailSeen' = i /\ tailAcq' = i /\ tailSeen <= i
    BY <1>n, <2>1 DEF PushLoad
  <2>3. ppc' # "idle" => P - i # Capacity
    BY <2>1, <2>2, FullTest DEF PushLoad
  <2> QED BY <1>0, <1>n, <2>1, <2>2, <2>3 DEF PushLoad, Distances
<1>2. CASE PushWrite
  BY <1>0, <1>2 DEF PushWrite, Distances
<1>3. CASE PushStore
  <2>1. Len(head_') = P + 1 /\ Len(pushed') = Len(pushed) + 1
    BY <1>0, <1>3, PushStoreAppends
  <2> QED BY <1>0, <1>n, <1>3, <2>1 DEF PushStore, Distances
<1>4. CASE \E i \in 1 .. Len(head_) : PopLoad(i)
  <2>1. PICK i \in 1 .. Len(head_) : PopLoad(i)
    BY <1>4
  <2>2. i \in Q .. P /\ headSeen' = i /\ headAcq' = i /\ headSeen <= i
    BY <1>n, <2>1 DEF PopLoad
  <2>3. cpc' # "idle" => i # Q
    BY <2>1, <2>2, EmptyTest DEF PopLoad
  <2> QED BY <1>0, <1>n, <2>1, <2>2, <2>3 DEF PopLoad, Distances
<1>5. CASE PopRead
  BY <1>0, <1>5 DEF PopRead, Distances
<1>6. CASE PopStore
  <2>1. Len(tail_') = Q + 1 /\ Len(popped') = Len(popped) + 1
    BY <1>0, <1>6, PopStoreAppends
  <2> QED BY <1>0, <1>n, <1>6, <2>1 DEF PopStore, Distances
<1>7. CASE \E i \in 1 .. Len(tail_) : ProducerSize(i)
  <2>1. PICK i \in 1 .. Len(tail_) : ProducerSize(i)
    BY <1>7
  <2>2. tailSeen' = i /\ tailSeen <= i /\ psize' = SizeOf(head_[P], head_[i])
    BY <1>0, <2>1 DEF ProducerSize, Ring, Newest
  <2>3. i \in 1 .. P /\ P \in 1 .. P /\ i <= P /\ P - i <= Capacity
    BY <1>n, <2>1, <2>2
  <2>4. psize' = P - i
    BY <1>0, <2>2, <2>3, SizeBetween
  <2> QED BY <1>0, <1>n, <2>1, <2>2, <2>3, <2>4 DEF ProducerSize, Distances
<1>8. CASE \E i \in 1 .. Len(head_) : ConsumerSize(i)
  <2>1. PICK i \in 1 .. Len(head_) : ConsumerSize(i)
    BY <1>8
  <2>2. headSeen' = i /\ headSeen <= i /\ csize' = SizeOf(head_[i], tail_[Q])
    BY <2>1 DEF ConsumerSize, Newest
  <2>3. Q \in 1 .. P /\ i \in 1 .. P /\ Q <= i /\ i - Q <= Capacity
    BY <1>n, <2>1, <2>2
  <2>4. tail_[Q] = head_[Q]
    BY <1>0, <1>n DEF Ring
  <2>5. csize' = i - Q
    BY <1>0, <2>2, <2>3, <2>4, SizeBetween
  <2> QED BY <1>0, <1>n, <2>1, <2>2, <2>3, <2>5 DEF ConsumerSize, Distances
<1>9. CASE UNCHANGED vars
  BY <1>0, <1>9 DEF vars, Distances
<1> QED
  BY <1>1, <1>2, <1>3, <1>4, <1>5, <1>6, <1>7, <1>8, <1>9 DEF Next, Producer, Consumer

\* The last write and the last read of a slot stay those of the newest stores
\* that name it.
LEMMA SlotUseStep ==
  ASSUME IInv, [Next]_vars
  PROVE  SlotUse'
<1>0. TypeOK /\ SlotUse
  BY DEF IInv
<1> DEFINE P == Len(head_)
           Q == Len(tail_)
<1>n. /\ P \in Nat \ {0} /\ Q \in Nat \ {0}
      /\ head_[P] = Newest(head_) /\ head_[P] \in Slots
      /\ tail_[Q] = Newest(tail_) /\ tail_[Q] \in Slots
  BY <1>0, OrderTypes
<1>t. published \in [Slots -> Nat] /\ released \in [Slots -> Nat]
  BY <1>0 DEF TypeOK
<1> USE DEF mem, pvars, cvars
<1>1. CASE PushWrite
  <2>1. /\ published' = [published EXCEPT ![head_[P]] = P + 1]
        /\ head_' = head_ /\ tail_' = tail_ /\ released' = released /\ cpc' = cpc
        /\ ppc = "write" /\ ppc' = "store"
    BY <1>1, <1>n DEF PushWrite
  <2>2. \A s \in Slots : published'[s] > 1 =>
          published'[s] - 1 <= P /\ head_[published'[s] - 1] = s
    <3>1. published'[head_[P]] = P + 1 /\ (P + 1) - 1 = P
      BY <1>n, <1>t, <2>1
    <3>2. \A s \in Slots \ {head_[P]} : published'[s] = published[s]
      BY <1>t, <2>1
    <3> QED BY <1>0, <1>n, <3>1, <3>2 DEF SlotUse
  <2> QED BY <1>0, <2>1, <2>2 DEF SlotUse
<1>2. CASE PushStore
  <2>1. /\ Len(head_') = P + 1 /\ \A k \in 1 .. P : head_'[k] = head_[k]
        /\ tail_' = tail_ /\ published' = published /\ released' = released
        /\ cpc' = cpc
    BY <1>0, <1>2, PushStoreAppends DEF PushStore
  <2>2. ASSUME NEW s \in Slots, published[s] > 1
        PROVE  /\ published[s] - 1 <= P + 1
               /\ head_'[published[s] - 1] = s
               /\ published[s] <= P + 1
    <3>1. /\ published[s] \in Nat /\ published[s] - 1 <= P
          /\ head_[published[s] - 1] = s
      BY <1>0, <1>t, <2>2 DEF SlotUse
    <3>2. published[s] - 1 \in 1 .. P
      BY <1>n, <2>2, <3>1
    <3> QED BY <1>n, <2>1, <3>1, <3>2
  <2> QED BY <1>0, <2>1, <2>2 DEF SlotUse
<1>3. CASE PopRead
  <2>1. /\ released' = [released EXCEPT ![tail_[Q]] = Q + 1]
        /\ head_' = head_ /\ tail_' = tail_ /\ published' = published /\ ppc' = ppc
        /\ cpc = "read" /\ cpc' = "store"
    BY <1>3, <1>n DEF PopRead
  <2>2. \A s \in Slots : released'[s] > 1 =>
          released'[s] - 1 <= Q /\ tail_[released'[s] - 1] = s
    <3>1. released'[tail_[Q]] = Q + 1 /\ (Q + 1) - 1 = Q
      BY <1>n, <1>t, <2>1
    <3>2. \A s \in Slots \ {tail_[Q]} : released'[s] = released[s]
      BY <1>t, <2>1
    <3> QED BY <1>0, <1>n, <3>1, <3>2 DEF SlotUse
  <2> QED BY <1>0, <2>1, <2>2 DEF SlotUse
<1>4. CASE PopStore
  <2>1. /\ Len(tail_') = Q + 1 /\ \A k \in 1 .. Q : tail_'[k] = tail_[k]
        /\ head_' = head_ /\ published' = published /\ released' = released
        /\ ppc' = ppc
    BY <1>0, <1>4, PopStoreAppends DEF PopStore
  <2>2. ASSUME NEW s \in Slots, released[s] > 1
        PROVE  /\ released[s] - 1 <= Q + 1
               /\ tail_'[released[s] - 1] = s
               /\ released[s] <= Q + 1
    <3>1. /\ released[s] \in Nat /\ released[s] - 1 <= Q
          /\ tail_[released[s] - 1] = s
      BY <1>0, <1>t, <2>2 DEF SlotUse
    <3>2. released[s] - 1 \in 1 .. Q
      BY <1>n, <2>2, <3>1
    <3> QED BY <1>n, <2>1, <3>1, <3>2
  <2> QED BY <1>0, <2>1, <2>2 DEF SlotUse
<1>5. CASE /\ UNCHANGED <<head_, tail_, published, released>>
           /\ ppc' # "store" => ppc # "store"
           /\ cpc' # "store" => cpc # "store"
  BY <1>0, <1>5 DEF SlotUse
<1>6. CASE \E item \in Items, i \in 1 .. Len(tail_) : PushLoad(item, i)
  BY <1>5, <1>6 DEF PushLoad
<1>7. CASE \E i \in 1 .. Len(head_) : PopLoad(i)
  BY <1>5, <1>7 DEF PopLoad
<1>8. CASE \E i \in 1 .. Len(tail_) : ProducerSize(i)
  BY <1>5, <1>8 DEF ProducerSize
<1>9. CASE \E i \in 1 .. Len(head_) : ConsumerSize(i)
  BY <1>5, <1>9 DEF ConsumerSize
<1>10. CASE UNCHANGED vars
  BY <1>5, <1>10 DEF vars
<1> QED
  BY <1>1, <1>2, <1>3, <1>4, <1>6, <1>7, <1>8, <1>9, <1>10 DEF Next, Producer, Consumer

\* No slot that still holds an item is overwritten, and what pop read is the
\* oldest item.
LEMMA ContentsStep ==
  ASSUME IInv, [Next]_vars
  PROVE  Contents'
<1>0. TypeOK /\ Ring /\ Distances /\ Contents
  BY DEF IInv
<1> DEFINE P == Len(head_)
           Q == Len(tail_)
<1>n. /\ P \in Nat \ {0} /\ Q \in Nat \ {0} /\ Q <= P /\ P - Q <= Capacity
      /\ ppc # "idle" => P - Q < Capacity
      /\ cpc # "idle" => Q < P
      /\ Len(pushed) = P - 1 /\ Len(popped) = Q - 1
  BY <1>0, Numbers, SpscAssumption DEF Distances
<1>m. /\ head_[P] = Newest(head_) /\ head_[P] \in Slots
      /\ tail_[Q] = Newest(tail_) /\ tail_[Q] = head_[Q]
      /\ \A k \in 1 .. P : head_[k] \in Slots
      /\ buffer_ \in [Slots -> Items \cup {NoItem}]
  <2>1. /\ head_[P] = Newest(head_) /\ head_[P] \in Slots /\ tail_[Q] = Newest(tail_)
        /\ \A k \in 1 .. P : head_[k] \in Slots
    BY <1>0, OrderTypes DEF Slots
  <2>2. tail_[Q] = head_[Q]
    BY <1>0, <1>n DEF Ring
  <2>3. buffer_ \in [Slots -> Items \cup {NoItem}]
    BY <1>0 DEF TypeOK
  <2> QED BY <2>1, <2>2, <2>3
<1> USE DEF mem, pvars, cvars
<1>1. CASE PushWrite
  <2>1. /\ buffer_' = [buffer_ EXCEPT ![head_[P]] = pitem] /\ ppc = "write"
        /\ UNCHANGED <<head_, tail_, pitem, cpc, celem, pushed, popped>>
    BY <1>1, <1>m DEF PushWrite
  <2>2. \A k \in Q .. P - 1 : head_[k] # head_[P]
    <3> SUFFICES ASSUME NEW k \in Q .. P - 1, head_[k] = head_[P] PROVE FALSE
      OBVIOUS
    <3>1. /\ k \in 1 .. P /\ P \in 1 .. P /\ k # P
          /\ k - P <= Capacity /\ P - k <= Capacity
      BY <1>n, SpscAssumption
    <3> QED BY <1>0, <3>1, SameSlotSameStore
  <2>3. \A k \in Q .. P - 1 : buffer_'[head_[k]] = buffer_[head_[k]]
    BY <1>m, <1>n, <2>1, <2>2
  <2>4. buffer_'[head_[P]] = pitem
    BY <1>m, <2>1
  <2> QED BY <1>0, <1>m, <2>1, <2>3, <2>4 DEF Contents
<1>2. CASE PushStore
  <2>1. /\ Len(head_') = P + 1 /\ \A k \in 1 .. P : head_'[k] = head_[k]
        /\ \A k \in 1 .. P - 1 : pushed'[k] = pushed[k]
        /\ pushed'[P] = pitem
        /\ ppc = "store" /\ ppc' = "idle"
        /\ UNCHANGED <<tail_, buffer_, cpc, celem, popped>>
    BY <1>0, <1>2, <1>n, PushStoreAppends DEF PushStore
  <2>2. ASSUME NEW k \in Q .. P PROVE buffer_[head_'[k]] = pushed'[k]
    <3>1. CASE k = P
      BY <1>0, <1>m, <1>n, <2>1, <3>1 DEF Contents
    <3>2. CASE k # P
      <4>1. k \in Q .. P - 1 /\ k \in 1 .. P /\ k \in 1 .. P - 1
        BY <1>n, <3>2
      <4> QED BY <1>0, <2>1, <4>1 DEF Contents
    <3> QED BY <3>1, <3>2
  <2>3. cpc = "store" => pushed'[Q] = pushed[Q]
    BY <1>n, <2>1
  <2>4. \A k \in 1 .. Q - 1 : pushed'[k] = pushed[k]
    BY <1>n, <2>1
  <2>5. (P + 1) - 1 = P
    BY <1>n
  <2> QED BY <1>0, <2>1, <2>2, <2>3, <2>4, <2>5 DEF Contents
<1>3. CASE PopRead
  <2>1. /\ celem' = buffer_[head_[Q]] /\ cpc = "read"
        /\ UNCHANGED <<head_, tail_, buffer_, ppc, pitem, pushed, popped>>
    BY <1>3, <1>m DEF PopRead
  <2>2. buffer_[head_[Q]] = pushed[Q]
    BY <1>0, <1>n, <2>1 DEF Contents
  <2> QED BY <1>0, <2>1, <2>2 DEF Contents
<1>4. CASE PopStore
  <2>1. /\ Len(tail_') = Q + 1
        /\ \A k \in 1 .. Q - 1 : popped'[k] = popped[k]
        /\ popped'[Q] = celem
        /\ cpc = "store" /\ cpc' = "idle"
        /\ UNCHANGED <<head_, buffer_, ppc, pitem, pushed>>
    BY <1>0, <1>4, <1>n, PopStoreAppends DEF PopStore
  <2>2. \A k \in 1 .. Q : popped'[k] = pushed[k]
    BY <1>0, <1>n, <2>1 DEF Contents
  <2>3. (Q + 1) - 1 = Q /\ \A k \in Q + 1 .. P - 1 : k \in Q .. P - 1
    BY <1>n
  <2> QED BY <1>0, <2>1, <2>2, <2>3 DEF Contents
<1>5. CASE /\ UNCHANGED <<head_, tail_, buffer_, pushed, popped, celem>>
           /\ ppc' = "store" => ppc = "store" /\ pitem' = pitem
           /\ cpc' = "store" => cpc = "store"
  BY <1>0, <1>5 DEF Contents, Newest
<1>6. CASE \E item \in Items, i \in 1 .. Len(tail_) : PushLoad(item, i)
  BY <1>5, <1>6 DEF PushLoad
<1>7. CASE \E i \in 1 .. Len(head_) : PopLoad(i)
  BY <1>5, <1>7 DEF PopLoad
<1>8. CASE \E i \in 1 .. Len(tail_) : ProducerSize(i)
  BY <1>5, <1>8 DEF ProducerSize
<1>9. CASE \E i \in 1 .. Len(head_) : ConsumerSize(i)
  BY <1>5, <1>9 DEF ConsumerSize
<1>10. CASE UNCHANGED vars
  BY <1>5, <1>10 DEF vars
<1> QED
  BY <1>1, <1>2, <1>3, <1>4, <1>6, <1>7, <1>8, <1>9, <1>10 DEF Next, Producer, Consumer

LEMMA IInvInit == Init => IInv
<1> SUFFICES ASSUME Init PROVE IInv
  OBVIOUS
<1>1. TypeOK
  BY TypeInit
<1>2. /\ head_ = <<0>> /\ tail_ = <<0>> /\ Len(head_) = 1 /\ Len(tail_) = 1
      /\ Len(pushed) = 0 /\ Len(popped) = 0
  BY DEF Init
<1>3. Ring
  BY <1>2, SpscAssumption DEF Ring
<1>4. Distances
  BY <1>2, SpscAssumption DEF Init, Distances
<1>5. SlotUse
  BY <1>2 DEF Init, SlotUse
<1>6. Contents
  BY <1>2 DEF Init, Contents
<1> QED BY <1>1, <1>3, <1>4, <1>5, <1>6 DEF IInv

LEMMA Inductive == Spec => []IInv
<1>1. IInv /\ [Next]_vars => IInv'
  BY TypeStep, RingStep, DistancesStep, SlotUseStep, ContentsStep DEF IInv
<1> QED BY IInvInit, <1>1, PTL DEF Spec

\* Acquire on the other side's index, release on one's own, is enough: no slot
\* is written while the consumer's last read of it is unordered, nor read
\* while the producer's last write is (spsc_ring_buffer.h:29, 32-33, 43, 46-47).
THEOREM NoRace == Spec => []NoDataRace
<1>1. IInv => NoDataRace
  <2> SUFFICES ASSUME IInv PROVE NoDataRace
    OBVIOUS
  <2> DEFINE P == Len(head_)
             Q == Len(tail_)
  <2>0. TypeOK /\ Ring /\ Distances /\ SlotUse
    BY DEF IInv
  <2>1. /\ P \in Nat \ {0} /\ Q \in Nat \ {0} /\ Q <= P
        /\ tailAcq \in Nat \ {0} /\ headAcq \in Nat \ {0}
        /\ tailAcq <= Q /\ headAcq <= P /\ Q <= headAcq
        /\ P - tailAcq <= Capacity /\ Capacity \in Nat
    BY <2>0, Numbers, SpscAssumption
  <2>2. /\ head_[P] = Newest(head_) /\ head_[P] \in Slots
        /\ tail_[Q] = Newest(tail_) /\ tail_[Q] \in Slots
    BY <2>0, OrderTypes
  <2>3. published \in [Slots -> Nat] /\ released \in [Slots -> Nat]
    BY <2>0 DEF TypeOK
  <2>4. ASSUME ppc = "write" PROVE released[head_[P]] <= tailAcq
    <3> SUFFICES ASSUME released[head_[P]] > tailAcq PROVE FALSE
      BY <2>1, <2>2, <2>3
    <3> DEFINE k == released[head_[P]] - 1
    <3>1. released[head_[P]] \in Nat /\ released[head_[P]] > 1
      BY <2>1, <2>2, <2>3
    <3>2. k <= Q /\ tail_[k] = head_[P]
      BY <2>0, <2>2, <3>1 DEF SlotUse
    <3>3. /\ k \in 1 .. Q /\ k \in 1 .. P /\ P \in 1 .. P /\ tailAcq <= k
      BY <2>1, <3>1, <3>2
    <3>4. head_[k] = head_[P]
      BY <2>0, <3>2, <3>3 DEF Ring
    <3>5. P - k < Capacity /\ k - P <= Capacity
      BY <2>0, <2>1, <2>4, <3>3 DEF Distances
    <3>6. k = P
      BY <2>0, <2>1, <3>3, <3>4, <3>5, SameSlotSameStore
    <3>7. Q = P /\ released[head_[P]] = Q + 1
      BY <2>1, <3>1, <3>2, <3>6
    <3>8. cpc # "store"
      BY <2>0, <2>1, <3>7 DEF Distances
    <3>9. released[head_[P]] <= Q
      BY <2>0, <2>2, <3>1, <3>8 DEF SlotUse
    <3> QED BY <2>1, <3>7, <3>9
  <2>5. ASSUME cpc = "read" PROVE published[tail_[Q]] <= headAcq
    <3> SUFFICES ASSUME published[tail_[Q]] > headAcq PROVE FALSE
      BY <2>1, <2>2, <2>3
    <3> DEFINE k == published[tail_[Q]] - 1
    <3>1. published[tail_[Q]] \in Nat /\ published[tail_[Q]] > 1
      BY <2>1, <2>2, <2>3
    <3>2. k <= P /\ head_[k] = tail_[Q]
      BY <2>0, <2>2, <3>1 DEF SlotUse
    <3>3. Q < headAcq
      BY <2>0, <2>5 DEF Distances
    <3>4. k \in 1 .. P /\ Q \in 1 .. P /\ Q < k
      BY <2>1, <3>1, <3>2, <3>3
    <3>5. head_[k] = head_[Q]
      BY <2>0, <2>1, <3>2 DEF Ring
    <3>6. k - Q <= Capacity /\ Q - k <= Capacity
      BY <2>1, <3>4
    <3>7. k = Q
      BY <2>0, <3>4, <3>5, <3>6, SameSlotSameStore
    <3> QED BY <2>1, <3>4, <3>7
  <2> QED BY <2>2, <2>4, <2>5 DEF NoDataRace
<1> QED BY Inductive, <1>1, PTL

\* What size () told a thread stays on the safe side until its next operation,
\* however old the values it read (spsc_ring_buffer.h:52-62).
THEOREM SizeConservative == Spec => []SizeIsConservative
<1>1. IInv => SizeIsConservative
  <2> SUFFICES ASSUME IInv PROVE SizeIsConservative
    OBVIOUS
  <2>1. TypeOK /\ Ring /\ Distances
    BY DEF IInv
  <2>2. psize \in Int /\ csize \in Int /\ Capacity \in Nat
    BY <2>1, CounterTypes, SpscAssumption
  <2> QED BY <2>1, <2>2, Numbers DEF Distances, SizeIsConservative
<1> QED BY Inductive, <1>1, PTL

\* A push after size () < Capacity and a pop after size () > 0 succeed,
\* whichever value their load returns (spsc_ring_buffer.h:29-30, 43-44).
THEOREM NoRefusal == Spec => []NoRefusalAfterSize
<1>1. IInv => NoRefusalAfterSize
  <2> SUFFICES ASSUME IInv PROVE NoRefusalAfterSize
    OBVIOUS
  <2> DEFINE P == Len(head_)
             Q == Len(tail_)
  <2>0. TypeOK /\ Ring /\ Distances
    BY DEF IInv
  <2>1. /\ P \in Nat \ {0} /\ Q \in Nat \ {0}
        /\ tailAcq \in Nat \ {0} /\ tailSeen \in Nat \ {0} /\ tailAcq <= tailSeen
        /\ headAcq \in Nat \ {0} /\ headSeen \in Nat \ {0} /\ headAcq <= headSeen
        /\ Q <= headAcq /\ Capacity \in Nat /\ psize \in Int /\ csize \in Int
    BY <2>0, Numbers, CounterTypes, SpscAssumption
  <2>2. ASSUME psize \in 0 .. Capacity - 1, NEW i \in tailSeen .. Q
        PROVE  Succ(Newest(head_)) # tail_[i]
    <3>1. i \in tailAcq .. Q
      BY <2>1
    <3>2. P - i # Capacity
      BY <2>0, <2>1, <2>2 DEF Distances
    <3> QED BY <3>1, <3>2, FullTest
  <2>3. ASSUME csize > 0, NEW i \in headSeen .. P
        PROVE  Newest(tail_) # head_[i]
    <3>1. i \in Q .. P
      BY <2>1
    <3>2. i # Q
      BY <2>0, <2>1, <2>3 DEF Distances
    <3> QED BY <3>1, <3>2, EmptyTest
  <2> QED BY <2>2, <2>3 DEF NoRefusalAfterSize
<1> QED BY Inductive, <1>1, PTL

\* The ring implements the bounded queue: items come out once and in order, and
\* never more than Capacity are between the stores of head_ and of tail_
\* (spsc_ring_buffer.h:24-50).
THEOREM Implements == Spec => ImplementsFifo
<1>1. Init => Fifo!Init
  BY DEF Init, Fifo!Init
<1>2. IInv /\ [Next]_vars => [Fifo!Next]_(Fifo!vars)
  <2> SUFFICES ASSUME IInv, [Next]_vars PROVE [Fifo!Next]_(Fifo!vars)
    OBVIOUS
  <2> DEFINE P == Len(head_)
             Q == Len(tail_)
  <2>0. TypeOK /\ Ring /\ Distances /\ Contents
    BY DEF IInv
  <2>1. /\ P \in Nat \ {0} /\ Q \in Nat \ {0}
        /\ tailAcq \in Nat \ {0} /\ tailAcq <= Q
        /\ headAcq \in Nat \ {0} /\ headAcq <= P
        /\ Len(pushed) = P - 1 /\ Len(popped) = Q - 1 /\ Capacity \in Nat
    BY <2>0, Numbers, SpscAssumption DEF Distances
  <2>2. CASE PushStore
    <3>1. pitem \in Items /\ pushed' = Append(pushed, pitem) /\ popped' = popped
      BY <2>0, <2>2 DEF PushStore, TypeOK
    <3>2. Len(pushed) - Len(popped) < Capacity
      BY <2>0, <2>1, <2>2 DEF PushStore, Distances
    <3>3. Fifo!Push(pitem)
      BY <3>1, <3>2 DEF Fifo!Push, Fifo!InQueue
    <3> QED BY <3>1, <3>3 DEF Fifo!Next
  <2>3. CASE PopStore
    <3>1. popped' = Append(popped, celem) /\ pushed' = pushed /\ celem = pushed[Q]
      BY <2>0, <2>3 DEF PopStore, Contents, pvars
    <3>2. Len(pushed) - Len(popped) > 0 /\ Len(popped) + 1 = Q
      BY <2>0, <2>1, <2>3 DEF PopStore, Distances
    <3>3. Fifo!Pop
      BY <3>1, <3>2 DEF Fifo!Pop, Fifo!InQueue
    <3> QED BY <3>3 DEF Fifo!Next
  <2>4. CASE UNCHANGED <<pushed, popped>>
    BY <2>4 DEF Fifo!vars
  <2> QED
    BY <2>2, <2>3, <2>4 DEF Next, Producer, Consumer, vars, PushLoad, PushWrite,
       PopLoad, PopRead, ProducerSize, ConsumerSize
<1> QED BY Inductive, <1>1, <1>2, PTL DEF Spec, ImplementsFifo, Fifo!Spec
============================================================================
