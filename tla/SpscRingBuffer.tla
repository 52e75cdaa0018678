--------------------------- MODULE SpscRingBuffer ---------------------------
(***************************************************************************)
(* null/spsc_ring_buffer.h: one producer thread calls push (), size () and *)
(* is_full (), one consumer thread calls pop (), size () and is_empty (),  *)
(* without a lock.  Every access to shared memory is a step.               *)
(*                                                                         *)
(* The atomics head_ and tail_ follow the C++11 memory model: each is kept *)
(* as its modification order (all values ever stored, oldest first), a     *)
(* load returns any value not older than the newest one the same thread    *)
(* has already loaded (coherence), and an acquire load also orders what    *)
(* precedes the store it read before what follows the load.  buffer_ is    *)
(* ordinary memory: each slot remembers which store of head_ publishes its *)
(* last write and which store of tail_ publishes its last read, so that an *)
(* access that is not ordered after the previous conflicting one shows.    *)
(***************************************************************************)
EXTENDS Integers, Sequences

CONSTANTS
  Capacity,     \* the template parameter
  Items,        \* the values of T
  NoItem,       \* the value-initialised T of a slot never written
  MaxPushes     \* bound: items the producer pushes before it retires

ASSUME SpscAssumption == Capacity \in Nat /\ MaxPushes \in Nat

VARIABLES
  head_, tail_,         \* modification orders; the last value is the newest
  buffer_,              \* the slots
  published,            \* slot -> index in head_ of the store publishing its last write
  released,             \* slot -> index in tail_ of the store publishing its last read
  ppc, pitem,           \* the producer: position in push () and its argument
  tailSeen, tailAcq,    \* newest store of tail_ it has loaded, and acquired
  psize,                \* what size () last told it, -1 once it pushed since
  cpc, celem,           \* the consumer: position in pop () and what it read
  headSeen, headAcq,    \* newest store of head_ it has loaded, and acquired
  csize,                \* what size () last told it, -1 once it popped since
  pushed, popped        \* history: items of the pushes, of the pops, that returned true

pvars == <<ppc, pitem, tailSeen, tailAcq, psize>>
cvars == <<cpc, celem, headSeen, headAcq, csize>>
mem   == <<head_, tail_, buffer_, published, released>>
vars  == <<mem, pvars, cvars, pushed, popped>>

Slots == 0 .. Capacity

\* Faulty variant: the index does not wrap.
SuccUnwrapped(i) == i + 1

Succ(i) == (i + 1) % (Capacity + 1)

\* The value of the atomic that its only writer reads back.
Newest(order) == order[Len(order)]

\* Faulty variants: the spare slot counted or not, an empty ring taken for a
\* wrapped one.
SizeOfOffByOne(h, t) == IF h >= t THEN h - t ELSE Capacity - (t - h)
SizeOfStrict(h, t) == IF h > t THEN h - t ELSE (Capacity + 1) - (t - h)

SizeOf(h, t) == IF h >= t THEN h - t ELSE (Capacity + 1) - (t - h)

Init ==
  /\ head_ = <<0>> /\ tail_ = <<0>>
  /\ buffer_ = [s \in Slots |-> NoItem]
  /\ published = [s \in Slots |-> 1]
  /\ released = [s \in Slots |-> 1]
  /\ ppc = "idle" /\ pitem = NoItem /\ tailSeen = 1 /\ tailAcq = 1 /\ psize = -1
  /\ cpc = "idle" /\ celem = NoItem /\ headSeen = 1 /\ headAcq = 1 /\ csize = -1
  /\ pushed = <<>> /\ popped = <<>>

(***************************************************************************)
(* push (item).  PushLoad reads head_ (its own variable) and the i-th      *)
(* value of tail_, and returns false when the ring looks full.             *)
(***************************************************************************)
\* Faulty variants: tail_ loaded without acquire; no test whether the ring is
\* full.
PushLoadRelaxed(item, i) ==
  /\ ppc = "idle" /\ Len(pushed) < MaxPushes /\ i \in tailSeen .. Len(tail_)
  /\ tailSeen' = i
  /\ Succ(Newest(head_)) # tail_[i]
  /\ ppc' = "write" /\ pitem' = item
  /\ UNCHANGED <<mem, tailAcq, psize, cvars, pushed, popped>>

PushLoadUnchecked(item, i) ==
  /\ ppc = "idle" /\ Len(pushed) < MaxPushes /\ i \in tailSeen .. Len(tail_)
  /\ tailSeen' = i /\ tailAcq' = i
  /\ ppc' = "write" /\ pitem' = item
  /\ UNCHANGED <<mem, psize, cvars, pushed, popped>>

PushLoad(item, i) ==
  /\ ppc = "idle"
  /\ Len(pushed) < MaxPushes
  /\ i \in tailSeen .. Len(tail_)
  /\ tailSeen' = i
  /\ tailAcq' = i
  /\ IF Succ(Newest(head_)) = tail_[i]
     THEN UNCHANGED <<ppc, pitem>>
     ELSE ppc' = "write" /\ pitem' = item
  /\ UNCHANGED <<mem, psize, cvars, pushed, popped>>

PushWrite ==
  /\ ppc = "write"
  /\ buffer_' = [buffer_ EXCEPT ![Newest(head_)] = pitem]
  /\ published' = [published EXCEPT ![Newest(head_)] = Len(head_) + 1]
  /\ ppc' = "store"
  /\ UNCHANGED <<head_, tail_, released, pitem, tailSeen, tailAcq, psize, cvars,
                 pushed, popped>>

PushStore ==
  /\ ppc = "store"
  /\ head_' = Append(head_, Succ(Newest(head_)))
  /\ pushed' = Append(pushed, pitem)
  /\ ppc' = "idle"
  /\ psize' = -1
  /\ UNCHANGED <<tail_, buffer_, published, released, pitem, tailSeen, tailAcq,
                 cvars, popped>>

(***************************************************************************)
(* pop (elem), the mirror image.                                           *)
(***************************************************************************)
PopLoad(i) ==
  /\ cpc = "idle"
  /\ i \in headSeen .. Len(head_)
  /\ headSeen' = i
  /\ headAcq' = i
  /\ IF Newest(tail_) = head_[i]
     THEN UNCHANGED cpc
     ELSE cpc' = "read"
  /\ UNCHANGED <<mem, pvars, celem, csize, pushed, popped>>

PopRead ==
  /\ cpc = "read"
  /\ celem' = buffer_[Newest(tail_)]
  /\ released' = [released EXCEPT ![Newest(tail_)] = Len(tail_) + 1]
  /\ cpc' = "store"
  /\ UNCHANGED <<head_, tail_, buffer_, published, pvars, headSeen, headAcq, csize,
                 pushed, popped>>

PopStore ==
  /\ cpc = "store"
  /\ tail_' = Append(tail_, Succ(Newest(tail_)))
  /\ popped' = Append(popped, celem)
  /\ cpc' = "idle"
  /\ csize' = -1
  /\ UNCHANGED <<head_, buffer_, published, released, pvars, celem, headSeen,
                 headAcq, pushed>>

(***************************************************************************)
(* size () called by either side between two operations.  Its loads are    *)
(* relaxed: they move what the thread has seen, not what it has acquired.  *)
(* is_full () and is_empty () are size () = Capacity and size () = 0.      *)
(***************************************************************************)
ProducerSize(i) ==
  /\ ppc = "idle"
  /\ i \in tailSeen .. Len(tail_)
  /\ tailSeen' = i
  /\ psize' = SizeOf(Newest(head_), tail_[i])
  /\ UNCHANGED <<mem, ppc, pitem, tailAcq, cvars, pushed, popped>>

ConsumerSize(i) ==
  /\ cpc = "idle"
  /\ i \in headSeen .. Len(head_)
  /\ headSeen' = i
  /\ csize' = SizeOf(head_[i], Newest(tail_))
  /\ UNCHANGED <<mem, pvars, cpc, celem, headAcq, pushed, popped>>

Producer ==
  \/ \E item \in Items, i \in 1 .. Len(tail_) : PushLoad(item, i)
  \/ PushWrite
  \/ PushStore
  \/ \E i \in 1 .. Len(tail_) : ProducerSize(i)

Consumer ==
  \/ \E i \in 1 .. Len(head_) : PopLoad(i)
  \/ PopRead
  \/ PopStore
  \/ \E i \in 1 .. Len(head_) : ConsumerSize(i)

Next == Producer \/ Consumer

Spec == Init /\ [][Next]_vars

----------------------------------------------------------------------------
TypeOK ==
  /\ head_ \in Seq(Slots) /\ head_ # <<>>
  /\ tail_ \in Seq(Slots) /\ tail_ # <<>>
  /\ buffer_ \in [Slots -> Items \cup {NoItem}]
  /\ published \in [Slots -> Nat]
  /\ released \in [Slots -> Nat]
  /\ ppc \in {"idle", "write", "store"}
  /\ pitem \in Items \cup {NoItem} /\ (ppc # "idle" => pitem \in Items)
  /\ tailSeen \in 1 .. Len(tail_) /\ tailAcq \in 1 .. tailSeen
  /\ psize \in -1 .. Capacity
  /\ cpc \in {"idle", "read", "store"}
  /\ celem \in Items \cup {NoItem}
  /\ headSeen \in 1 .. Len(head_) /\ headAcq \in 1 .. headSeen
  /\ csize \in -1 .. Capacity
  /\ pushed \in Seq(Items)
  /\ popped \in Seq(Items \cup {NoItem})

\* Neither thread touches a slot while the other's last access to it is not
\* ordered before: the acquire loads of push and pop (spsc_ring_buffer.h:29,
\* 43) are enough, and the relaxed ones of size and is_full never are needed.
NoDataRace ==
  /\ ppc = "write" => released[Newest(head_)] <= tailAcq
  /\ cpc = "read" => published[Newest(tail_)] <= headAcq

\* size (), stale as it may be, errs on the safe side for its caller: to the
\* producer it never reports less than what is queued, to the consumer never
\* more, whatever the other thread did since.
SizeIsConservative ==
  /\ psize # -1 => psize >= Len(pushed) - Len(popped)
  /\ csize # -1 => csize <= Len(pushed) - Len(popped)

\* A thread that learnt from size (), is_full () or is_empty () that its call
\* will succeed is never refused, whichever older value the next load returns.
NoRefusalAfterSize ==
  /\ psize \in 0 .. Capacity - 1 =>
       \A i \in tailSeen .. Len(tail_) : Succ(Newest(head_)) # tail_[i]
  /\ csize > 0 =>
       \A i \in headSeen .. Len(head_) : Newest(tail_) # head_[i]

\* Items come out once, in the order they went in, with never more than
\* Capacity between the two: push and pop implement a bounded queue that is
\* never closed, at the stores of head_ and tail_.
Fifo == INSTANCE BoundedFifo WITH
          accepted <- pushed, delivered <- popped, closed <- FALSE

ImplementsFifo == Fifo!Spec
============================================================================
