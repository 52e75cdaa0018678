------------------------------ MODULE SharedPtr ------------------------------
(***************************************************************************)
(* null/shared_ptr.h and null/weak_ptr.h: reference-counted ownership of   *)
(* objects by shared_ptr handles, observed by weak_ptr handles, used by    *)
(* several threads.  Any thread may operate on any handle that no other    *)
(* thread is operating on (two threads on one handle would be a race of    *)
(* the callers); the control blocks are what the threads share.  Each      *)
(* atomic read-modify-write of a counter is a step, and so are the calls   *)
(* of the deleter and of delete.  A freed control block's address may be   *)
(* used again.  A construction whose allocation throws deletes the object  *)
(* and changes nothing else.                                               *)
(*                                                                         *)
(* An assignment builds a temporary, swaps it in, and destroys what came   *)
(* out: the old reference is then held by the thread alone (ref), and      *)
(* given up in DropUse or DropWeak.                                        *)
(*                                                                         *)
(* The counters are what orders the accesses of one owner to the object    *)
(* before the deleter run by another.  To see whether their memory orders  *)
(* do, the history follows one access: aware are the threads, handles and  *)
(* counters it happened before.  Whoever hands a handle from one thread to *)
(* another orders the two; beyond that only an acq_rel operation makes its *)
(* thread and its counter share what they know, while a relaxed one reads  *)
(* and keeps the counter's release sequence but learns nothing from it.    *)
(***************************************************************************)
EXTENDS Integers, FiniteSets

CONSTANTS
  Threads,
  SharedPtrs, WeakPtrs,     \* the handles
  Blocks,                   \* addresses of control blocks, each with its object
  Null                      \* of a handle that is empty

ASSUME SharedPtrAssumption ==
  /\ IsFiniteSet(Threads) /\ IsFiniteSet(SharedPtrs) /\ IsFiniteSet(WeakPtrs)
  /\ Null \notin Blocks

VARIABLES
  sp, wp,                   \* cb_ of each handle
  use_count, weak_count,
  object,                   \* of each block: "none" (block not allocated), "alive", "disposed"
  pc, ref,                  \* each thread's next step, and the block it is about
  weak, target, count,      \* in lock (): the weak_ptr, where its result goes, the value seen
  traced, aware             \* history: the block one access is followed of, and who knows of it

handles  == <<sp, wp>>
counters == <<use_count, weak_count>>
locals   == <<weak, target, count>>
trace    == <<traced, aware>>
vars     == <<handles, counters, object, pc, ref, locals, trace>>

Init ==
  /\ sp = [h \in SharedPtrs |-> Null]
  /\ wp = [h \in WeakPtrs |-> Null]
  /\ use_count = [b \in Blocks |-> 0] /\ weak_count = [b \in Blocks |-> 0]
  /\ object = [b \in Blocks |-> "none"]
  /\ pc = [t \in Threads |-> "idle"]
  /\ ref = [t \in Threads |-> Null]
  /\ weak = [t \in Threads |-> Null] /\ target = [t \in Threads |-> Null]
  /\ count = [t \in Threads |-> 0]
  /\ traced = Null /\ aware = {}

\* Handles some lock () is still working on.
Busy == UNION {{weak[t], target[t]} : t \in {u \in Threads : pc[u] = "cas"}}

\* Those who meet in an operation share what they know.
Sharing(who) == IF aware \cap who # {} THEN aware \cup who ELSE aware

\* t starts an operation on the handles hs.
Starts(t, hs) ==
  /\ pc[t] = "idle" /\ hs \cap Busy = {}
  /\ aware' = Sharing({t} \cup hs) /\ UNCHANGED traced

\* An acq_rel operation of t on a counter of its block, at the end of which the
\* handles hs are its callers' again.  Faulty variant: a relaxed one.
Relaxed(t, counter, hs) == aware' = Sharing({t} \cup hs) /\ UNCHANGED traced

AcquireRelease(t, counter, hs) ==
  /\ aware' = Sharing({t} \cup hs \cup IF ref[t] = traced THEN {counter} ELSE {})
  /\ UNCHANGED traced

\* The temporary that holds old, if anything, is destroyed next, at step next.
Drops(t, old, next) ==
  /\ pc' = [pc EXCEPT ![t] = IF old = Null THEN "idle" ELSE next]
  /\ ref' = [ref EXCEPT ![t] = old]

\* Faulty variant: the copy is not counted.
IncrementNone(counter, b) == counter

Increment(counter, b) == IF b = Null THEN counter ELSE [counter EXCEPT ![b] = @ + 1]

(***************************************************************************)
(* shared_ptr: construction and reset (ptr), copy, move, swap, and reset   *)
(* () or the destructor.                                                   *)
(***************************************************************************)
MakeShared(t, h, b) ==
  /\ Starts(t, {h}) /\ object[b] = "none"
  /\ object' = [object EXCEPT ![b] = "alive"]
  /\ use_count' = [use_count EXCEPT ![b] = 1]
  /\ weak_count' = [weak_count EXCEPT ![b] = 1]
  /\ sp' = [sp EXCEPT ![h] = b]
  /\ Drops(t, sp[h], "dropUse")
  /\ UNCHANGED <<wp, locals>>

CopyShared(t, from, to) ==
  /\ Starts(t, {from, to})
  /\ use_count' = Increment(use_count, sp[from])
  /\ sp' = [sp EXCEPT ![to] = sp[from]]
  /\ Drops(t, sp[to], "dropUse")
  /\ UNCHANGED <<wp, weak_count, object, locals>>

MoveShared(t, from, to) ==
  /\ Starts(t, {from, to}) /\ from # to
  /\ sp' = [sp EXCEPT ![to] = sp[from], ![from] = Null]
  /\ Drops(t, sp[to], "dropUse")
  /\ UNCHANGED <<wp, counters, object, locals>>

SwapShared(t, one, other) ==
  /\ Starts(t, {one, other})
  /\ sp' = [sp EXCEPT ![one] = sp[other], ![other] = sp[one]]
  /\ UNCHANGED <<wp, counters, object, pc, ref, locals>>

ResetShared(t, h) ==
  /\ Starts(t, {h})
  /\ sp' = [sp EXCEPT ![h] = Null]
  /\ Drops(t, sp[h], "dropUse")
  /\ UNCHANGED <<wp, counters, object, locals>>

(***************************************************************************)
(* weak_ptr, from a shared_ptr or from another weak_ptr.                   *)
(***************************************************************************)
AssignWeak(t, b, to) ==
  /\ weak_count' = Increment(weak_count, b)
  /\ wp' = [wp EXCEPT ![to] = b]
  /\ Drops(t, wp[to], "dropWeak")
  /\ UNCHANGED <<sp, use_count, object, locals>>

WeakFromShared(t, from, to) == Starts(t, {from, to}) /\ AssignWeak(t, sp[from], to)

CopyWeak(t, from, to) == Starts(t, {from, to}) /\ AssignWeak(t, wp[from], to)

MoveWeak(t, from, to) ==
  /\ Starts(t, {from, to}) /\ from # to
  /\ wp' = [wp EXCEPT ![to] = wp[from], ![from] = Null]
  /\ Drops(t, wp[to], "dropWeak")
  /\ UNCHANGED <<sp, counters, object, locals>>

SwapWeak(t, one, other) ==
  /\ Starts(t, {one, other})
  /\ wp' = [wp EXCEPT ![one] = wp[other], ![other] = wp[one]]
  /\ UNCHANGED <<sp, counters, object, pc, ref, locals>>

ResetWeak(t, h) ==
  /\ Starts(t, {h})
  /\ wp' = [wp EXCEPT ![h] = Null]
  /\ Drops(t, wp[h], "dropWeak")
  /\ UNCHANGED <<sp, counters, object, locals>>

\* use_count () of a weak_ptr; expired () says that it is zero.
UseCount(w) == IF wp[w] = Null THEN 0 ELSE use_count[wp[w]]

(***************************************************************************)
(* sp = wp.lock (): load use_count, and unless it is zero try to increment *)
(* it from the value seen.  A compare_exchange_weak that fails without     *)
(* cause changes nothing; one that fails rightly has loaded the new value. *)
(***************************************************************************)
LockLoad(t, w, h) ==
  /\ Starts(t, {w, h}) /\ UseCount(w) # 0
  /\ count' = [count EXCEPT ![t] = UseCount(w)]
  /\ weak' = [weak EXCEPT ![t] = w]
  /\ target' = [target EXCEPT ![t] = h]
  /\ pc' = [pc EXCEPT ![t] = "cas"]
  /\ ref' = [ref EXCEPT ![t] = wp[w]]
  /\ UNCHANGED <<handles, counters, object>>

\* lock () returns a shared_ptr for b, or an empty one, which h receives.
LockReturns(t, h, b) ==
  /\ sp' = [sp EXCEPT ![h] = b]
  /\ Drops(t, sp[h], "dropUse")
  /\ weak' = [weak EXCEPT ![t] = Null]
  /\ target' = [target EXCEPT ![t] = Null]
  /\ count' = [count EXCEPT ![t] = 0]
  /\ UNCHANGED <<wp, weak_count, object>>

LockExpired(t, w, h) ==
  /\ Starts(t, {w, h}) /\ UseCount(w) = 0
  /\ LockReturns(t, h, Null)
  /\ UNCHANGED use_count

\* Faulty variant: the counter is incremented whatever it has become.
SeenNonZero(t) == count[t] # 0

Unchanged(t) == use_count[ref[t]] = count[t]

CasSucceeds(t) ==
  /\ Unchanged(t)
  /\ use_count' = [use_count EXCEPT ![ref[t]] = count[t] + 1]
  /\ AcquireRelease(t, "use", {weak[t], target[t]})
  /\ LockReturns(t, target[t], ref[t])

CasRetries(t) ==
  /\ use_count[ref[t]] \notin {count[t], 0}
  /\ count' = [count EXCEPT ![t] = use_count[ref[t]]]
  /\ UNCHANGED <<handles, counters, object, pc, ref, weak, target, trace>>

CasExpired(t) ==
  /\ use_count[ref[t]] = 0
  /\ aware' = Sharing({t, weak[t], target[t]}) /\ UNCHANGED traced
  /\ LockReturns(t, target[t], Null)
  /\ UNCHANGED use_count

LockCas(t) ==
  pc[t] = "cas" /\ (CasSucceeds(t) \/ CasRetries(t) \/ CasExpired(t))

(***************************************************************************)
(* An access to the object through operator* or operator-> of h.           *)
(***************************************************************************)
Use(t, h) ==
  /\ pc[t] = "idle" /\ h \notin Busy /\ sp[h] # Null
  /\ traced = Null
  /\ traced' = sp[h] /\ aware' = {t, h}
  /\ UNCHANGED <<handles, counters, object, pc, ref, locals>>

(***************************************************************************)
(* dec_use_count () and dec_weak_count ().                                 *)
(***************************************************************************)
DropUse(t) ==
  /\ pc[t] = "dropUse"
  /\ use_count' = [use_count EXCEPT ![ref[t]] = @ - 1]
  /\ IF use_count[ref[t]] = 1
     THEN pc' = [pc EXCEPT ![t] = "dispose"] /\ UNCHANGED ref
     ELSE Drops(t, Null, "idle")
  /\ AcquireRelease(t, "use", {})
  /\ UNCHANGED <<handles, weak_count, object, locals>>

\* Faulty variant: the owners' share of weak_count is not given back.
AfterDisposeNone == "idle"

AfterDispose == "dropWeak"

\* The deleter's access to the object is followed in its turn.
Dispose(t) ==
  /\ pc[t] = "dispose"
  /\ object' = [object EXCEPT ![ref[t]] = "disposed"]
  /\ pc' = [pc EXCEPT ![t] = AfterDispose]
  /\ IF traced \in {ref[t], Null}
     THEN traced' = ref[t] /\ aware' = {t}
     ELSE UNCHANGED trace
  /\ UNCHANGED <<handles, counters, ref, locals>>

\* Faulty variant: the value after the decrement taken for the one before.
LastButOne(b) == weak_count[b] = 0

Last(b) == weak_count[b] = 1

DropWeak(t) ==
  /\ pc[t] = "dropWeak"
  /\ weak_count' = [weak_count EXCEPT ![ref[t]] = @ - 1]
  /\ IF Last(ref[t])
     THEN pc' = [pc EXCEPT ![t] = "destroy"] /\ UNCHANGED ref
     ELSE Drops(t, Null, "idle")
  /\ AcquireRelease(t, "weak", {})
  /\ UNCHANGED <<handles, use_count, object, locals>>

Destroy(t) ==
  /\ pc[t] = "destroy"
  /\ object' = [object EXCEPT ![ref[t]] = "none"]
  /\ Drops(t, Null, "idle")
  /\ IF traced = ref[t] THEN traced' = Null /\ aware' = {} ELSE UNCHANGED trace
  /\ UNCHANGED <<handles, counters, locals>>

Release(t) == DropUse(t) \/ Dispose(t) \/ DropWeak(t) \/ Destroy(t)

Next ==
  \E t \in Threads :
    \/ \E h \in SharedPtrs, b \in Blocks : MakeShared(t, h, b)
    \/ \E from, to \in SharedPtrs :
         CopyShared(t, from, to) \/ MoveShared(t, from, to) \/ SwapShared(t, from, to)
    \/ \E h \in SharedPtrs : ResetShared(t, h)
    \/ \E from \in SharedPtrs, to \in WeakPtrs : WeakFromShared(t, from, to)
    \/ \E from, to \in WeakPtrs :
         CopyWeak(t, from, to) \/ MoveWeak(t, from, to) \/ SwapWeak(t, from, to)
    \/ \E h \in WeakPtrs : ResetWeak(t, h)
    \/ \E w \in WeakPtrs, h \in SharedPtrs : LockLoad(t, w, h) \/ LockExpired(t, w, h)
    \/ \E h \in SharedPtrs : Use(t, h)
    \/ LockCas(t)
    \/ Release(t)

Spec == Init /\ [][Next]_vars

----------------------------------------------------------------------------
TypeOK ==
  /\ sp \in [SharedPtrs -> Blocks \cup {Null}]
  /\ wp \in [WeakPtrs -> Blocks \cup {Null}]
  /\ use_count \in [Blocks -> Nat] /\ weak_count \in [Blocks -> Nat]
  /\ object \in [Blocks -> {"none", "alive", "disposed"}]
  /\ pc \in [Threads -> {"idle", "cas", "dropUse", "dispose", "dropWeak", "destroy"}]
  /\ ref \in [Threads -> Blocks \cup {Null}]
  /\ weak \in [Threads -> WeakPtrs \cup {Null}]
  /\ target \in [Threads -> SharedPtrs \cup {Null}]
  /\ count \in [Threads -> Nat]
  /\ traced \in Blocks \cup {Null}
  /\ aware \subseteq Threads \cup SharedPtrs \cup WeakPtrs \cup {"use", "weak"}
  /\ \A t \in Threads : pc[t] # "idle" => ref[t] \in Blocks
  /\ \A t \in Threads : pc[t] = "cas" =>
       weak[t] \in WeakPtrs /\ target[t] \in SharedPtrs /\ count[t] > 0

At(step, b) == {t \in Threads : pc[t] = step /\ ref[t] = b}
Owners(b)    == {h \in SharedPtrs : sp[h] = b}
Observers(b) == {h \in WeakPtrs : wp[h] = b}

\* Both counters say what they stand for at every moment: use_count the handles
\* and temporaries that own the object, weak_count those that observe it plus
\* one for all the owners together until the object is disposed
\* (shared_ptr.h:34, 61-76).
CountsExact ==
  /\ TypeOK
  /\ \A b \in Blocks :
       /\ use_count[b] = Cardinality(Owners(b)) + Cardinality(At("dropUse", b))
       /\ weak_count[b] = Cardinality(Observers(b)) + Cardinality(At("dropWeak", b))
                          + IF use_count[b] > 0 \/ At("dispose", b) # {} THEN 1 ELSE 0

\* What a handle or a thread can still reach exists: an owner's object is alive,
\* an observer's block is allocated, the deleter runs on a live object, once,
\* and delete on a block nobody can reach (shared_ptr.h:65-67, 75).
NoUseAfterFree ==
  /\ \A h \in SharedPtrs : sp[h] # Null => object[sp[h]] = "alive"
  /\ \A h \in WeakPtrs : wp[h] # Null => object[wp[h]] # "none"
  /\ \A t \in Threads :
       /\ pc[t] \in {"dropUse", "dispose"} => object[ref[t]] = "alive"
       /\ pc[t] \in {"cas", "dropWeak"} => object[ref[t]] # "none"
       /\ pc[t] = "dispose" => Owners(ref[t]) = {} /\ At("dispose", ref[t]) = {t}
       /\ pc[t] = "destroy" =>
            /\ object[ref[t]] = "disposed"
            /\ Observers(ref[t]) = {}
            /\ \A u \in Threads \ {t} : pc[u] # "idle" => ref[u] # ref[t]

\* No object and no block is lost: one that exists is held by a handle or is on
\* its way out in some thread.
NoLeak ==
  \A b \in Blocks :
    /\ object[b] = "alive" =>
         Owners(b) \cup At("dropUse", b) \cup At("dispose", b) # {}
    /\ object[b] # "none" =>
         Owners(b) \cup Observers(b)
           \cup At("dropUse", b) \cup At("dispose", b)
           \cup At("dropWeak", b) \cup At("destroy", b) # {}

\* What an owner did with the object happens before the deleter, and what the
\* deleter did before the delete of the block, whichever threads run them and
\* however often owners and observers came and went in between
\* (shared_ptr.h:36-46, 55-57, 64, 70).
DisposedAfterUses ==
  \A t \in Threads :
    pc[t] \in {"dispose", "destroy"} /\ ref[t] = traced => t \in aware

\* expired () is final: once the last owner is gone lock () brings nothing back,
\* whatever value of use_count it had seen (weak_ptr.h:134-138, shared_ptr.h:48-59).
NoResurrection ==
  [][\A b \in Blocks : object[b] # "none" /\ use_count[b] = 0 => use_count'[b] = 0]_vars
============================================================================
