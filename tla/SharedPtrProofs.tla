--------------------------- MODULE SharedPtrProofs ---------------------------
(***************************************************************************)
(* Proofs about SharedPtr, for any number of threads, handles and blocks.  *)
(* The inductive invariant counts, for each block, who holds a share of    *)
(* its two counters and where the threads are that take it down, and fixes *)
(* by these numbers whether the object is alive, disposed or gone.  For    *)
(* the memory orders it says who is certain to know of the access that is  *)
(* followed: as long as owners remain, use_count or one of them; after the *)
(* deleter, weak_count or one of the observers.                            *)
(***************************************************************************)
EXTENDS SharedPtr, FiniteSetTheorems, TLAPS

\* The counters of b, the threads that take it down, and the state of its object.
Held(b) ==
  /\ use_count[b] = Cardinality(Owners(b)) + Cardinality(At("dropUse", b))
  /\ weak_count[b] = Cardinality(Observers(b)) + Cardinality(At("dropWeak", b))
                     + IF use_count[b] > 0 \/ Cardinality(At("dispose", b)) > 0 THEN 1 ELSE 0
  /\ Cardinality(At("dispose", b)) <= 1 /\ Cardinality(At("destroy", b)) <= 1
  /\ Cardinality(At("dispose", b)) > 0 => use_count[b] = 0
  /\ Cardinality(At("destroy", b)) > 0 => weak_count[b] = 0
  /\ object[b] = "alive" <=> use_count[b] > 0 \/ Cardinality(At("dispose", b)) > 0
  /\ object[b] = "none" <=> weak_count[b] = 0 /\ Cardinality(At("destroy", b)) = 0

\* lock () works on a weak_ptr that no other operation touches meanwhile.
LockHolds == \A t \in Threads : pc[t] = "cas" => wp[weak[t]] = ref[t]

\* Who knows of the access that is followed.
OwnersKnow(b) ==
  "use" \in aware \/ (Owners(b) \cup At("dropUse", b)) \cap aware # {}

ObserversKnow(b) ==
  "weak" \in aware \/ (Observers(b) \cup At("dropWeak", b)) \cap aware # {}

Known ==
  traced # Null =>
    /\ object[traced] # "none"
    /\ use_count[traced] > 0 => OwnersKnow(traced)
    /\ object[traced] = "disposed" /\ weak_count[traced] > 0 => ObserversKnow(traced)
    /\ At("dispose", traced) \cup At("destroy", traced) \subseteq aware

IInv == TypeOK /\ (\A b \in Blocks : Held(b)) /\ LockHolds /\ Known

----------------------------------------------------------------------------
\* 1 or 0: how often x is counted in S.
One(x, S) == IF x \in S THEN 1 ELSE 0

\* S has become T, and only the membership of those in D may have changed.
Apart(D, S, T) == S \ D = T \ D

\* A set that only x leaves or joins.
LEMMA Changed ==
  ASSUME NEW S, IsFiniteSet(S), NEW T, NEW x, Apart({x}, S, T)
  PROVE  /\ IsFiniteSet(T)
         /\ Cardinality(T) = Cardinality(S) - One(x, S) + One(x, T)
<1>1. /\ IsFiniteSet(S \ {x})
      /\ Cardinality(S \ {x}) = IF x \in S THEN Cardinality(S) - 1 ELSE Cardinality(S)
  BY FS_RemoveElement
<1>2. Cardinality(S) \in Nat /\ Cardinality(S \ {x}) \in Nat
  BY <1>1, FS_CardinalityType
<1>3. T \ {x} = S \ {x}
  BY DEF Apart
<1>4. CASE x \in T
  <2>1. T = (T \ {x}) \cup {x} /\ x \notin T \ {x}
    BY <1>4
  <2>2. IsFiniteSet(T) /\ Cardinality(T) = Cardinality(T \ {x}) + 1
    BY <1>1, <1>3, <2>1, FS_AddElement
  <2> QED BY <1>1, <1>2, <1>3, <1>4, <2>2 DEF One
<1>5. CASE x \notin T
  <2>1. T = S \ {x}
    BY <1>3, <1>5
  <2> QED BY <1>1, <1>2, <1>5, <2>1 DEF One
<1> QED BY <1>4, <1>5

\* A set that only x and y leave or join.
LEMMA Exchanged ==
  ASSUME NEW S, IsFiniteSet(S), NEW T, NEW x, NEW y, x # y, Apart({x, y}, S, T)
  PROVE  Cardinality(T) =
           Cardinality(S) - One(x, S) - One(y, S) + One(x, T) + One(y, T)
<1> DEFINE M == (S \ {x}) \cup (T \cap {x})
<1>1. Apart({x}, S, M) /\ Apart({y}, M, T)
  BY DEF Apart
<1>2. One(x, M) = One(x, T) /\ One(y, M) = One(y, S)
  BY DEF One
<1> HIDE DEF M
<1>3. IsFiniteSet(M) /\ Cardinality(M) = Cardinality(S) - One(x, S) + One(x, M)
  BY <1>1, Changed
<1>4. Cardinality(T) = Cardinality(M) - One(y, M) + One(y, T)
  BY <1>1, <1>3, Changed
<1>5. Cardinality(S) \in Nat
  BY FS_CardinalityType
<1> QED BY <1>2, <1>3, <1>4, <1>5 DEF One

\* The sets that are counted are finite.
LEMMA Finite ==
  \A b : /\ IsFiniteSet(Owners(b)) /\ IsFiniteSet(Observers(b))
         /\ \A step : IsFiniteSet(At(step, b))
<1>1. \A b : /\ Owners(b) \in SUBSET SharedPtrs /\ Observers(b) \in SUBSET WeakPtrs
             /\ \A step : At(step, b) \in SUBSET Threads
  BY DEF Owners, Observers, At
<1> QED BY <1>1, SharedPtrAssumption, FS_Subset

LEMMA Numbers ==
  \A b : /\ Cardinality(Owners(b)) \in Nat /\ Cardinality(Observers(b)) \in Nat
         /\ \A step : Cardinality(At(step, b)) \in Nat
BY Finite, FS_CardinalityType

\* Who is in a set makes its number positive.
LEMMA Present ==
  \A b : /\ \A h \in SharedPtrs : sp[h] = b => Cardinality(Owners(b)) > 0
         /\ \A h \in WeakPtrs : wp[h] = b => Cardinality(Observers(b)) > 0
         /\ \A t \in Threads : ref[t] = b => Cardinality(At(pc[t], b)) > 0
<1> TAKE b
<1>1. ASSUME NEW h \in SharedPtrs, sp[h] = b PROVE Cardinality(Owners(b)) > 0
  <2>1. Owners(b) # {}
    BY <1>1 DEF Owners
  <2> QED BY Finite, Numbers, <2>1, FS_EmptySet
<1>2. ASSUME NEW h \in WeakPtrs, wp[h] = b PROVE Cardinality(Observers(b)) > 0
  <2>1. Observers(b) # {}
    BY <1>2 DEF Observers
  <2> QED BY Finite, Numbers, <2>1, FS_EmptySet
<1>3. ASSUME NEW t \in Threads, ref[t] = b PROVE Cardinality(At(pc[t], b)) > 0
  <2>1. At(pc[t], b) # {}
    BY <1>3 DEF At
  <2> QED BY Finite, Numbers, <2>1, FS_EmptySet
<1> QED BY <1>1, <1>2, <1>3

\* A thread that goes on leaves the step and the block it was at.
LEMMA ThreadGoes ==
  ASSUME NEW t \in Threads, \A u \in Threads \ {t} : pc'[u] = pc[u] /\ ref'[u] = ref[u],
         NEW step, NEW c
  PROVE  Cardinality(At(step, c)') =
           Cardinality(At(step, c))
             - (IF pc[t] = step /\ ref[t] = c THEN 1 ELSE 0)
             + (IF pc'[t] = step /\ ref'[t] = c THEN 1 ELSE 0)
<1>1. /\ Apart({t}, At(step, c), At(step, c)')
      /\ One(t, At(step, c)) = IF pc[t] = step /\ ref[t] = c THEN 1 ELSE 0
      /\ One(t, At(step, c)') = IF pc'[t] = step /\ ref'[t] = c THEN 1 ELSE 0
  BY DEF Apart, At, One
<1>2. Cardinality(At(step, c)') =
        Cardinality(At(step, c)) - One(t, At(step, c)) + One(t, At(step, c)')
  BY <1>1, Finite, Changed
<1> QED BY <1>1, <1>2

\* A thread that holds the reference old alone is on its way to drop it.
LEMMA DropsCounts ==
  ASSUME TypeOK, NEW t \in Threads, pc[t] \in {"idle", "cas"},
         NEW old, NEW next \in {"dropUse", "dropWeak"}, Drops(t, old, next),
         NEW c \in Blocks
  PROVE  /\ Cardinality(At(next, c)') = Cardinality(At(next, c)) + (IF old = c THEN 1 ELSE 0)
         /\ \A step \in {"dropUse", "dispose", "dropWeak", "destroy"} \ {next} :
              Cardinality(At(step, c)') = Cardinality(At(step, c))
<1>1. /\ \A u \in Threads \ {t} : pc'[u] = pc[u] /\ ref'[u] = ref[u]
      /\ pc'[t] = (IF old = Null THEN "idle" ELSE next) /\ ref'[t] = old
  BY DEF Drops, TypeOK
<1>2. \A step :
        Cardinality(At(step, c)') =
          Cardinality(At(step, c))
            - (IF pc[t] = step /\ ref[t] = c THEN 1 ELSE 0)
            + (IF pc'[t] = step /\ ref'[t] = c THEN 1 ELSE 0)
  BY <1>1, ThreadGoes
<1>3. old = c => old # Null
  BY SharedPtrAssumption
<1>4. Cardinality(At(next, c)') = Cardinality(At(next, c)) + (IF old = c THEN 1 ELSE 0)
  BY <1>1, <1>2, <1>3, Numbers
<1>5. ASSUME NEW step \in {"dropUse", "dispose", "dropWeak", "destroy"} \ {next}
      PROVE  Cardinality(At(step, c)') = Cardinality(At(step, c))
  <2>1. pc[t] # step /\ pc'[t] # step
    BY <1>1
  <2>2. Cardinality(At(step, c)) \in Nat
    BY Numbers
  <2>3. Cardinality(At(step, c)') = Cardinality(At(step, c)) - 0 + 0
    BY <1>2, <2>1
  <2> QED BY <2>2, <2>3
<1> QED BY <1>4, <1>5

\* A shared_ptr h takes another reference and the one it had becomes a temporary:
\* one more owner of the new, counting the temporaries, and none of another block.
LEMMA SharedCounts ==
  ASSUME TypeOK, NEW t \in Threads, pc[t] \in {"idle", "cas"}, NEW h \in SharedPtrs,
         \A x \in SharedPtrs \ {h} : sp'[x] = sp[x],
         Drops(t, sp[h], "dropUse"), NEW c \in Blocks
  PROVE  /\ Cardinality(Owners(c)') + Cardinality(At("dropUse", c)')
              = Cardinality(Owners(c)) + Cardinality(At("dropUse", c))
                + (IF sp'[h] = c THEN 1 ELSE 0)
         /\ \A step \in {"dispose", "dropWeak", "destroy"} :
              Cardinality(At(step, c)') = Cardinality(At(step, c))
<1>1. /\ Apart({h}, Owners(c), Owners(c)')
      /\ One(h, Owners(c)) = IF sp[h] = c THEN 1 ELSE 0
      /\ One(h, Owners(c)') = IF sp'[h] = c THEN 1 ELSE 0
  BY DEF Apart, Owners, One
<1>2. Cardinality(Owners(c)') = Cardinality(Owners(c)) - One(h, Owners(c)) + One(h, Owners(c)')
  BY <1>1, Finite, Changed
<1>3. /\ Cardinality(At("dropUse", c)')
           = Cardinality(At("dropUse", c)) + (IF sp[h] = c THEN 1 ELSE 0)
      /\ \A step \in {"dispose", "dropWeak", "destroy"} :
           Cardinality(At(step, c)') = Cardinality(At(step, c))
  BY DropsCounts
<1> QED BY <1>1, <1>2, <1>3, Numbers

\* The same of a weak_ptr.
LEMMA WeakCounts ==
  ASSUME TypeOK, NEW t \in Threads, pc[t] \in {"idle", "cas"}, NEW h \in WeakPtrs,
         \A x \in WeakPtrs \ {h} : wp'[x] = wp[x],
         Drops(t, wp[h], "dropWeak"), NEW c \in Blocks
  PROVE  /\ Cardinality(Observers(c)') + Cardinality(At("dropWeak", c)')
              = Cardinality(Observers(c)) + Cardinality(At("dropWeak", c))
                + (IF wp'[h] = c THEN 1 ELSE 0)
         /\ \A step \in {"dropUse", "dispose", "destroy"} :
              Cardinality(At(step, c)') = Cardinality(At(step, c))
<1>1. /\ Apart({h}, Observers(c), Observers(c)')
      /\ One(h, Observers(c)) = IF wp[h] = c THEN 1 ELSE 0
      /\ One(h, Observers(c)') = IF wp'[h] = c THEN 1 ELSE 0
  BY DEF Apart, Observers, One
<1>2. Cardinality(Observers(c)')
        = Cardinality(Observers(c)) - One(h, Observers(c)) + One(h, Observers(c)')
  BY <1>1, Finite, Changed
<1>3. /\ Cardinality(At("dropWeak", c)')
           = Cardinality(At("dropWeak", c)) + (IF wp[h] = c THEN 1 ELSE 0)
      /\ \A step \in {"dropUse", "dispose", "destroy"} :
           Cardinality(At(step, c)') = Cardinality(At(step, c))
  BY DropsCounts
<1> QED BY <1>1, <1>2, <1>3, Numbers

\* What a move takes from the owners is the reference that it overwrites, and
\* that has become a temporary.
LEMMA MoveSharedCounts ==
  ASSUME TypeOK, NEW t \in Threads, NEW from \in SharedPtrs, NEW to \in SharedPtrs,
         MoveShared(t, from, to), NEW c \in Blocks
  PROVE  /\ Cardinality(Owners(c)') + Cardinality(At("dropUse", c)')
              = Cardinality(Owners(c)) + Cardinality(At("dropUse", c))
         /\ \A step \in {"dispose", "dropWeak", "destroy"} :
              Cardinality(At(step, c)') = Cardinality(At(step, c))
<1>1. /\ from # to /\ sp'[to] = sp[from] /\ sp'[from] = Null
      /\ \A x \in SharedPtrs \ {from, to} : sp'[x] = sp[x]
  BY DEF MoveShared, TypeOK
<1>2. /\ Apart({from, to}, Owners(c), Owners(c)')
      /\ One(from, Owners(c)) = One(to, Owners(c)') /\ One(from, Owners(c)') = 0
      /\ One(to, Owners(c)) = IF sp[to] = c THEN 1 ELSE 0
      /\ One(from, Owners(c)) \in {0, 1}
  BY <1>1, SharedPtrAssumption DEF Apart, Owners, One
<1>3. Cardinality(Owners(c)')
        = Cardinality(Owners(c)) - One(from, Owners(c)) - One(to, Owners(c))
          + One(from, Owners(c)') + One(to, Owners(c)')
  BY <1>1, <1>2, Finite, Exchanged
<1>4. /\ Cardinality(At("dropUse", c)')
           = Cardinality(At("dropUse", c)) + (IF sp[to] = c THEN 1 ELSE 0)
      /\ \A step \in {"dispose", "dropWeak", "destroy"} :
           Cardinality(At(step, c)') = Cardinality(At(step, c))
  BY DropsCounts DEF MoveShared, Starts
<1> QED BY <1>2, <1>3, <1>4, Numbers

LEMMA MoveWeakCounts ==
  ASSUME TypeOK, NEW t \in Threads, NEW from \in WeakPtrs, NEW to \in WeakPtrs,
         MoveWeak(t, from, to), NEW c \in Blocks
  PROVE  /\ Cardinality(Observers(c)') + Cardinality(At("dropWeak", c)')
              = Cardinality(Observers(c)) + Cardinality(At("dropWeak", c))
         /\ \A step \in {"dropUse", "dispose", "destroy"} :
              Cardinality(At(step, c)') = Cardinality(At(step, c))
<1>1. /\ from # to /\ wp'[to] = wp[from] /\ wp'[from] = Null
      /\ \A x \in WeakPtrs \ {from, to} : wp'[x] = wp[x]
  BY DEF MoveWeak, TypeOK
<1>2. /\ Apart({from, to}, Observers(c), Observers(c)')
      /\ One(from, Observers(c)) = One(to, Observers(c)') /\ One(from, Observers(c)') = 0
      /\ One(to, Observers(c)) = IF wp[to] = c THEN 1 ELSE 0
      /\ One(from, Observers(c)) \in {0, 1}
  BY <1>1, SharedPtrAssumption DEF Apart, Observers, One
<1>3. Cardinality(Observers(c)')
        = Cardinality(Observers(c)) - One(from, Observers(c)) - One(to, Observers(c))
          + One(from, Observers(c)') + One(to, Observers(c)')
  BY <1>1, <1>2, Finite, Exchanged
<1>4. /\ Cardinality(At("dropWeak", c)')
           = Cardinality(At("dropWeak", c)) + (IF wp[to] = c THEN 1 ELSE 0)
      /\ \A step \in {"dropUse", "dispose", "destroy"} :
           Cardinality(At(step, c)') = Cardinality(At(step, c))
  BY DropsCounts DEF MoveWeak, Starts
<1> QED BY <1>2, <1>3, <1>4, Numbers

\* A swap only exchanges who the owners are, or the observers.
LEMMA SwapCounts ==
  ASSUME TypeOK, NEW t \in Threads, NEW c
  PROVE  /\ \A one, other \in SharedPtrs :
              SwapShared(t, one, other) => Cardinality(Owners(c)') = Cardinality(Owners(c))
         /\ \A one, other \in WeakPtrs :
              SwapWeak(t, one, other) => Cardinality(Observers(c)') = Cardinality(Observers(c))
<1>1. ASSUME NEW one \in SharedPtrs, NEW other \in SharedPtrs, SwapShared(t, one, other)
      PROVE  Cardinality(Owners(c)') = Cardinality(Owners(c))
  <2>1. CASE one = other
    <3>1. sp' = sp
      BY <1>1, <2>1 DEF SwapShared, TypeOK
    <3> QED BY <3>1 DEF Owners
  <2>2. CASE one # other
    <3>1. /\ sp'[one] = sp[other] /\ sp'[other] = sp[one]
          /\ \A x \in SharedPtrs \ {one, other} : sp'[x] = sp[x]
      BY <1>1, <2>2 DEF SwapShared, TypeOK
    <3>2. /\ Apart({one, other}, Owners(c), Owners(c)')
          /\ One(one, Owners(c)') = One(other, Owners(c))
          /\ One(other, Owners(c)') = One(one, Owners(c))
          /\ One(one, Owners(c)) \in {0, 1} /\ One(other, Owners(c)) \in {0, 1}
      BY <3>1 DEF Apart, Owners, One
    <3>3. Cardinality(Owners(c)')
            = Cardinality(Owners(c)) - One(one, Owners(c)) - One(other, Owners(c))
              + One(one, Owners(c)') + One(other, Owners(c)')
      BY <2>2, <3>2, Finite, Exchanged
    <3> QED BY <3>2, <3>3, Numbers
  <2> QED BY <2>1, <2>2
<1>2. ASSUME NEW one \in WeakPtrs, NEW other \in WeakPtrs, SwapWeak(t, one, other)
      PROVE  Cardinality(Observers(c)') = Cardinality(Observers(c))
  <2>1. CASE one = other
    <3>1. wp' = wp
      BY <1>2, <2>1 DEF SwapWeak, TypeOK
    <3> QED BY <3>1 DEF Observers
  <2>2. CASE one # other
    <3>1. /\ wp'[one] = wp[other] /\ wp'[other] = wp[one]
          /\ \A x \in WeakPtrs \ {one, other} : wp'[x] = wp[x]
      BY <1>2, <2>2 DEF SwapWeak, TypeOK
    <3>2. /\ Apart({one, other}, Observers(c), Observers(c)')
          /\ One(one, Observers(c)') = One(other, Observers(c))
          /\ One(other, Observers(c)') = One(one, Observers(c))
          /\ One(one, Observers(c)) \in {0, 1} /\ One(other, Observers(c)) \in {0, 1}
      BY <3>1 DEF Apart, Observers, One
    <3>3. Cardinality(Observers(c)')
            = Cardinality(Observers(c)) - One(one, Observers(c)) - One(other, Observers(c))
              + One(one, Observers(c)') + One(other, Observers(c)')
      BY <2>2, <3>2, Finite, Exchanged
    <3> QED BY <3>2, <3>3, Numbers
  <2> QED BY <2>1, <2>2
<1> QED BY <1>1, <1>2

\* What is not touched is counted as before.
LEMMA Same ==
  /\ sp' = sp => \A b : Owners(b)' = Owners(b)
  /\ wp' = wp => \A b : Observers(b)' = Observers(b)
  /\ pc' = pc /\ ref' = ref => \A step, b : At(step, b)' = At(step, b)
BY DEF Owners, Observers, At

\* What a handle or a thread holds is counted.
LEMMA Holding ==
  ASSUME TypeOK, \A b \in Blocks : Held(b)
  PROVE  /\ \A h \in SharedPtrs : sp[h] \in Blocks => use_count[sp[h]] > 0
         /\ \A h \in WeakPtrs : wp[h] \in Blocks => weak_count[wp[h]] > 0
         /\ \A t \in Threads :
              /\ pc[t] = "dropUse" => use_count[ref[t]] > 0
              /\ pc[t] = "dropWeak" => weak_count[ref[t]] > 0
<1>1. ASSUME NEW h \in SharedPtrs, sp[h] \in Blocks PROVE use_count[sp[h]] > 0
  BY <1>1, Present, Numbers DEF Held
<1>2. ASSUME NEW h \in WeakPtrs, wp[h] \in Blocks PROVE weak_count[wp[h]] > 0
  <2>1. Cardinality(Observers(wp[h])) > 0 /\ Cardinality(At("dropWeak", wp[h])) \in Nat
        /\ Cardinality(Observers(wp[h])) \in Nat
    BY <1>2, Present, Numbers
  <2> QED BY <1>2, <2>1 DEF Held
<1>3. ASSUME NEW t \in Threads, pc[t] = "dropUse" PROVE use_count[ref[t]] > 0
  <2>1. ref[t] \in Blocks
    BY <1>3 DEF TypeOK
  <2>2. Cardinality(At("dropUse", ref[t])) > 0
    BY <1>3, Present
  <2> QED BY <2>1, <2>2, Numbers DEF Held
<1>4. ASSUME NEW t \in Threads, pc[t] = "dropWeak" PROVE weak_count[ref[t]] > 0
  <2>1. ref[t] \in Blocks
    BY <1>4 DEF TypeOK
  <2>2. Cardinality(At("dropWeak", ref[t])) > 0
    BY <1>4, Present
  <2> QED BY <2>1, <2>2, Numbers DEF Held
<1> QED BY <1>1, <1>2, <1>3, <1>4

----------------------------------------------------------------------------
(***************************************************************************)
(* A step keeps the types.                                                 *)
(***************************************************************************)
Steps == {"idle", "cas", "dropUse", "dispose", "dropWeak", "destroy"}

LEMMA DropsTyped ==
  ASSUME TypeOK, NEW t \in Threads, NEW old \in Blocks \cup {Null},
         NEW next \in {"dropUse", "dropWeak"}, Drops(t, old, next)
  PROVE  /\ pc' \in [Threads -> Steps] /\ ref' \in [Threads -> Blocks \cup {Null}]
         /\ \A u \in Threads : pc'[u] # "idle" => ref'[u] \in Blocks
         /\ pc'[t] # "cas" /\ \A u \in Threads \ {t} : pc'[u] = pc[u]
BY DEF Drops, TypeOK, Steps

LEMMA SharingTyped ==
  ASSUME TypeOK,
         NEW who \in SUBSET (Threads \cup SharedPtrs \cup WeakPtrs \cup {"use", "weak"})
  PROVE  Sharing(who) \subseteq Threads \cup SharedPtrs \cup WeakPtrs \cup {"use", "weak"}
BY DEF TypeOK, Sharing

\* Every step keeps the types: no counter is decremented below zero.
LEMMA TypeStep ==
  ASSUME TypeOK, \A b \in Blocks : Held(b), Next
  PROVE  TypeOK'
<1> PICK t \in Threads :
    \/ \E h \in SharedPtrs, b \in Blocks : MakeShared(t, h, b)
    \/ \E from, to \in SharedPtrs :
         CopyShared(t, from, to) \/ MoveShared(t, from, to) \/ SwapShared(t, from, to)
    \/ \E h \in SharedPtrs : ResetShared(t, h)
    \/ \E from \in SharedPtrs, to \in WeakPtrs : WeakFromShared(t, from, to)
    \/ \E from, to \in WeakPtrs :
         CopyWeak(t, from, to) \/ MoveWeak(t, from, to) \/ SwapWeak(t, from, to)
    \/ \E h \in WeakPtrs : ResetWeak(t, h)
    \/ \E w \in WeakPtrs, h \in SharedPtrs : LockLoad(t, w, h) \/ LockExpired(t, w, h)
    \/ \E h \in SharedPtrs : Use(t, h)
    \/ LockCas(t)
    \/ Release(t)
  BY DEF Next
<1> USE DEF TypeOK, Steps, handles, counters, locals, trace
<1>1. ASSUME NEW h \in SharedPtrs, NEW b \in Blocks, MakeShared(t, h, b) PROVE TypeOK'
  <2>1. sp[h] \in Blocks \cup {Null} /\ Drops(t, sp[h], "dropUse")
    BY <1>1 DEF MakeShared
  <2>2. aware' \subseteq Threads \cup SharedPtrs \cup WeakPtrs \cup {"use", "weak"}
    BY <1>1, SharingTyped DEF MakeShared, Starts
  <2> QED BY <1>1, <2>1, <2>2, DropsTyped DEF MakeShared, Starts
<1>2. ASSUME NEW from \in SharedPtrs, NEW to \in SharedPtrs, CopyShared(t, from, to) PROVE TypeOK'
  <2>1. sp[to] \in Blocks \cup {Null} /\ Drops(t, sp[to], "dropUse")
    BY <1>2 DEF CopyShared
  <2>2. aware' \subseteq Threads \cup SharedPtrs \cup WeakPtrs \cup {"use", "weak"}
    BY <1>2, SharingTyped DEF CopyShared, Starts
  <2>3. use_count' \in [Blocks -> Nat]
    BY <1>2 DEF CopyShared, Increment
  <2> QED BY <1>2, <2>1, <2>2, <2>3, DropsTyped DEF CopyShared, Starts
<1>3. ASSUME NEW from \in SharedPtrs, NEW to \in SharedPtrs, MoveShared(t, from, to) PROVE TypeOK'
  <2>1. sp[to] \in Blocks \cup {Null} /\ Drops(t, sp[to], "dropUse")
    BY <1>3 DEF MoveShared
  <2>2. aware' \subseteq Threads \cup SharedPtrs \cup WeakPtrs \cup {"use", "weak"}
    BY <1>3, SharingTyped DEF MoveShared, Starts
  <2> QED BY <1>3, <2>1, <2>2, DropsTyped DEF MoveShared, Starts
<1>4. ASSUME NEW one \in SharedPtrs, NEW other \in SharedPtrs, SwapShared(t, one, other) PROVE TypeOK'
  <2>1. aware' \subseteq Threads \cup SharedPtrs \cup WeakPtrs \cup {"use", "weak"}
    BY <1>4, SharingTyped DEF SwapShared, Starts
  <2> QED BY <1>4, <2>1 DEF SwapShared, Starts
<1>5. ASSUME NEW h \in SharedPtrs, ResetShared(t, h) PROVE TypeOK'
  <2>1. sp[h] \in Blocks \cup {Null} /\ Drops(t, sp[h], "dropUse")
    BY <1>5 DEF ResetShared
  <2>2. aware' \subseteq Threads \cup SharedPtrs \cup WeakPtrs \cup {"use", "weak"}
    BY <1>5, SharingTyped DEF ResetShared, Starts
  <2> QED BY <1>5, <2>1, <2>2, DropsTyped DEF ResetShared, Starts
<1>6. ASSUME NEW b \in Blocks \cup {Null}, NEW to \in WeakPtrs, NEW from \in SharedPtrs \cup WeakPtrs,
             Starts(t, {from, to}), AssignWeak(t, b, to)
      PROVE  TypeOK'
  <2>1. wp[to] \in Blocks \cup {Null} /\ Drops(t, wp[to], "dropWeak")
    BY <1>6 DEF AssignWeak
  <2>2. aware' \subseteq Threads \cup SharedPtrs \cup WeakPtrs \cup {"use", "weak"}
    BY <1>6, SharingTyped DEF Starts
  <2>3. weak_count' \in [Blocks -> Nat]
    BY <1>6 DEF AssignWeak, Increment
  <2> QED BY <1>6, <2>1, <2>2, <2>3, DropsTyped DEF AssignWeak, Starts
<1>7. ASSUME NEW from \in WeakPtrs, NEW to \in WeakPtrs, MoveWeak(t, from, to) PROVE TypeOK'
  <2>1. wp[to] \in Blocks \cup {Null} /\ Drops(t, wp[to], "dropWeak")
    BY <1>7 DEF MoveWeak
  <2>2. aware' \subseteq Threads \cup SharedPtrs \cup WeakPtrs \cup {"use", "weak"}
    BY <1>7, SharingTyped DEF MoveWeak, Starts
  <2> QED BY <1>7, <2>1, <2>2, DropsTyped DEF MoveWeak, Starts
<1>8. ASSUME NEW one \in WeakPtrs, NEW other \in WeakPtrs, SwapWeak(t, one, other) PROVE TypeOK'
  <2>1. aware' \subseteq Threads \cup SharedPtrs \cup WeakPtrs \cup {"use", "weak"}
    BY <1>8, SharingTyped DEF SwapWeak, Starts
  <2> QED BY <1>8, <2>1 DEF SwapWeak, Starts
<1>9. ASSUME NEW h \in WeakPtrs, ResetWeak(t, h) PROVE TypeOK'
  <2>1. wp[h] \in Blocks \cup {Null} /\ Drops(t, wp[h], "dropWeak")
    BY <1>9 DEF ResetWeak
  <2>2. aware' \subseteq Threads \cup SharedPtrs \cup WeakPtrs \cup {"use", "weak"}
    BY <1>9, SharingTyped DEF ResetWeak, Starts
  <2> QED BY <1>9, <2>1, <2>2, DropsTyped DEF ResetWeak, Starts
<1>10. ASSUME NEW w \in WeakPtrs, NEW h \in SharedPtrs, LockLoad(t, w, h) PROVE TypeOK'
  <2>1. aware' \subseteq Threads \cup SharedPtrs \cup WeakPtrs \cup {"use", "weak"}
    BY <1>10, SharingTyped DEF LockLoad, Starts
  <2>2. wp[w] \in Blocks /\ UseCount(w) \in Nat /\ UseCount(w) > 0
    BY <1>10 DEF LockLoad, UseCount
  <2> QED BY <1>10, <2>1, <2>2 DEF LockLoad, Starts
<1>11. ASSUME NEW h \in SharedPtrs, NEW b \in Blocks \cup {Null}, LockReturns(t, h, b),
              use_count' \in [Blocks -> Nat], traced' = traced,
              aware' \subseteq Threads \cup SharedPtrs \cup WeakPtrs \cup {"use", "weak"}
       PROVE  TypeOK'
  <2>1. sp[h] \in Blocks \cup {Null} /\ Drops(t, sp[h], "dropUse")
    BY <1>11 DEF LockReturns
  <2> QED BY <1>11, <2>1, DropsTyped DEF LockReturns
<1>12. ASSUME NEW w \in WeakPtrs, NEW h \in SharedPtrs, LockExpired(t, w, h) PROVE TypeOK'
  <2>1. aware' \subseteq Threads \cup SharedPtrs \cup WeakPtrs \cup {"use", "weak"}
    BY <1>12, SharingTyped DEF LockExpired, Starts
  <2> QED BY <1>12, <1>11, <2>1 DEF LockExpired, Starts
<1>13. ASSUME NEW h \in SharedPtrs, Use(t, h) PROVE TypeOK'
  BY <1>13 DEF Use
<1>14. CASE LockCas(t)
  <2>1. weak[t] \in WeakPtrs /\ target[t] \in SharedPtrs /\ ref[t] \in Blocks
    BY <1>14 DEF LockCas
  <2>2. CASE CasSucceeds(t)
    <3>1. aware' \subseteq Threads \cup SharedPtrs \cup WeakPtrs \cup {"use", "weak"}
      BY <2>1, <2>2, SharingTyped DEF CasSucceeds, AcquireRelease
    <3>2. use_count' \in [Blocks -> Nat] /\ traced' = traced
      BY <2>1, <2>2 DEF CasSucceeds, AcquireRelease
    <3>3. LockReturns(t, target[t], ref[t])
      BY <2>2 DEF CasSucceeds
    <3> QED BY <1>11, <2>1, <3>1, <3>2, <3>3
  <2>3. CASE CasRetries(t)
    BY <2>1, <2>3 DEF CasRetries
  <2>4. CASE CasExpired(t)
    <3>1. aware' \subseteq Threads \cup SharedPtrs \cup WeakPtrs \cup {"use", "weak"}
      BY <2>1, <2>4, SharingTyped DEF CasExpired
    <3> QED BY <1>11, <2>1, <2>4, <3>1 DEF CasExpired
  <2> QED BY <1>14, <2>2, <2>3, <2>4 DEF LockCas
<1>15. CASE Release(t)
  <2>1. CASE DropUse(t)
    <3>1. aware' \subseteq Threads \cup SharedPtrs \cup WeakPtrs \cup {"use", "weak"}
      BY <2>1, SharingTyped DEF DropUse, AcquireRelease
    <3>2. ref[t] \in Blocks /\ use_count[ref[t]] > 0
      BY <2>1, Holding DEF DropUse
    <3>3. use_count' \in [Blocks -> Nat]
      BY <2>1, <3>2 DEF DropUse
    <3>4. /\ pc' \in [Threads -> Steps] /\ ref' \in [Threads -> Blocks \cup {Null}]
          /\ \A u \in Threads : pc'[u] # "idle" => ref'[u] \in Blocks
          /\ pc'[t] # "cas" /\ \A u \in Threads \ {t} : pc'[u] = pc[u]
      BY <2>1, <3>2 DEF DropUse, Drops
    <3> QED BY <2>1, <3>1, <3>3, <3>4 DEF DropUse, AcquireRelease
  <2>2. CASE Dispose(t)
    BY <2>2 DEF Dispose, AfterDispose
  <2>3. CASE DropWeak(t)
    <3>1. aware' \subseteq Threads \cup SharedPtrs \cup WeakPtrs \cup {"use", "weak"}
      BY <2>3, SharingTyped DEF DropWeak, AcquireRelease
    <3>2. ref[t] \in Blocks /\ weak_count[ref[t]] > 0
      BY <2>3, Holding DEF DropWeak
    <3>3. weak_count' \in [Blocks -> Nat]
      BY <2>3, <3>2 DEF DropWeak
    <3>4. /\ pc' \in [Threads -> Steps] /\ ref' \in [Threads -> Blocks \cup {Null}]
          /\ \A u \in Threads : pc'[u] # "idle" => ref'[u] \in Blocks
          /\ pc'[t] # "cas" /\ \A u \in Threads \ {t} : pc'[u] = pc[u]
      BY <2>3, <3>2 DEF DropWeak, Drops
    <3> QED BY <2>3, <3>1, <3>3, <3>4 DEF DropWeak, AcquireRelease
  <2>4. CASE Destroy(t)
    BY <2>4 DEF Destroy, Drops
  <2> QED BY <1>15, <2>1, <2>2, <2>3, <2>4 DEF Release
<1>16. ASSUME NEW from \in SharedPtrs, NEW to \in WeakPtrs, WeakFromShared(t, from, to) PROVE TypeOK'
  BY <1>6, <1>16 DEF WeakFromShared
<1>17. ASSUME NEW from \in WeakPtrs, NEW to \in WeakPtrs, CopyWeak(t, from, to) PROVE TypeOK'
  BY <1>6, <1>17 DEF CopyWeak
<1> HIDE DEF TypeOK
<1> QED BY <1>1, <1>2, <1>3, <1>4, <1>5, <1>7, <1>8, <1>9, <1>10, <1>12, <1>13, <1>14, <1>15,
           <1>16, <1>17

----------------------------------------------------------------------------
(***************************************************************************)
(* A step keeps the numbers.                                               *)
(***************************************************************************)
\* The numbers of b that Held relates to the counters.
OwnersOf(b)    == Cardinality(Owners(b)) + Cardinality(At("dropUse", b))
ObserversOf(b) == Cardinality(Observers(b)) + Cardinality(At("dropWeak", b))

\* Its counters and its object are as before, and so are the threads that take it down.
Still(b) ==
  /\ use_count'[b] = use_count[b] /\ weak_count'[b] = weak_count[b] /\ object'[b] = object[b]
  /\ \A step \in {"dispose", "destroy"} : Cardinality(At(step, b)') = Cardinality(At(step, b))

LEMMA HeldStill ==
  ASSUME NEW b \in Blocks, Held(b), Still(b),
         OwnersOf(b)' = OwnersOf(b), ObserversOf(b)' = ObserversOf(b)
  PROVE  Held(b)'
BY DEF Held, Still, OwnersOf, ObserversOf

\* A thread's next step as it changes in Dispose, DropUse, DropWeak and Destroy.
LEMMA ThreadSteps ==
  ASSUME NEW t \in Threads, NEW next, next # pc[t],
         \A u \in Threads \ {t} : pc'[u] = pc[u] /\ ref'[u] = ref[u],
         pc'[t] = next, next = "idle" \/ ref'[t] = ref[t], NEW b
  PROVE  \A step \in {"dropUse", "dispose", "dropWeak", "destroy"} :
           Cardinality(At(step, b)') =
             Cardinality(At(step, b))
               - (IF step = pc[t] /\ b = ref[t] THEN 1 ELSE 0)
               + (IF step = next /\ b = ref[t] THEN 1 ELSE 0)
<1> SUFFICES ASSUME NEW step \in {"dropUse", "dispose", "dropWeak", "destroy"}
             PROVE  Cardinality(At(step, b)') =
                      Cardinality(At(step, b))
                        - (IF step = pc[t] /\ b = ref[t] THEN 1 ELSE 0)
                        + (IF step = next /\ b = ref[t] THEN 1 ELSE 0)
  OBVIOUS
<1>1. Cardinality(At(step, b)') =
        Cardinality(At(step, b))
          - (IF pc[t] = step /\ ref[t] = b THEN 1 ELSE 0)
          + (IF pc'[t] = step /\ ref'[t] = b THEN 1 ELSE 0)
  BY ThreadGoes
<1>2. (pc'[t] = step /\ ref'[t] = b) <=> (step = next /\ b = ref[t])
  OBVIOUS
<1> QED BY <1>1, <1>2

\* One more owner of a block that had one, or of none.
LEMMA HeldOwner ==
  ASSUME TypeOK, NEW b \in Blocks, Held(b),
         NEW d \in {0, 1}, d = 1 => use_count[b] > 0,
         use_count'[b] = use_count[b] + d,
         weak_count'[b] = weak_count[b], object'[b] = object[b],
         OwnersOf(b)' = OwnersOf(b) + d, ObserversOf(b)' = ObserversOf(b),
         \A step \in {"dispose", "destroy"} : Cardinality(At(step, b)') = Cardinality(At(step, b))
  PROVE  Held(b)'
BY DEF Held, OwnersOf, ObserversOf, TypeOK

\* One more observer of a block that is still counted.
LEMMA HeldObserver ==
  ASSUME TypeOK, NEW b \in Blocks, Held(b),
         NEW d \in {0, 1}, d = 1 => weak_count[b] > 0,
         use_count'[b] = use_count[b],
         weak_count'[b] = weak_count[b] + d, object'[b] = object[b],
         OwnersOf(b)' = OwnersOf(b), ObserversOf(b)' = ObserversOf(b) + d,
         \A step \in {"dispose", "destroy"} : Cardinality(At(step, b)') = Cardinality(At(step, b))
  PROVE  Held(b)'
<1>1. /\ ObserversOf(b) \in Nat
      /\ \A step : Cardinality(At(step, b)) \in Nat
  BY Numbers DEF ObserversOf
<1> QED BY <1>1 DEF Held, OwnersOf, ObserversOf, TypeOK

\* Operations of shared_ptr.
LEMMA HeldShared ==
  ASSUME TypeOK, \A b \in Blocks : Held(b), NEW t \in Threads, NEW c \in Blocks
  PROVE  /\ \A h \in SharedPtrs, b \in Blocks : MakeShared(t, h, b) => Held(c)'
         /\ \A from, to \in SharedPtrs :
              CopyShared(t, from, to) \/ MoveShared(t, from, to) \/ SwapShared(t, from, to)
                => Held(c)'
         /\ \A h \in SharedPtrs : ResetShared(t, h) => Held(c)'
<1>1. ASSUME NEW h \in SharedPtrs, NEW b \in Blocks, MakeShared(t, h, b) PROVE Held(c)'
  <2>1. /\ pc[t] = "idle" /\ Drops(t, sp[h], "dropUse") /\ sp'[h] = b
        /\ \A x \in SharedPtrs \ {h} : sp'[x] = sp[x]
    BY <1>1 DEF MakeShared, Starts, TypeOK
  <2>2. /\ OwnersOf(c)' = OwnersOf(c) + (IF b = c THEN 1 ELSE 0)
        /\ \A step \in {"dispose", "dropWeak", "destroy"} :
             Cardinality(At(step, c)') = Cardinality(At(step, c))
    BY <2>1, SharedCounts DEF OwnersOf
  <2>3. Observers(c)' = Observers(c)
    BY <1>1, Same DEF MakeShared
  <2>4. ObserversOf(c)' = ObserversOf(c)
    BY <2>2, <2>3 DEF ObserversOf
  <2>5. CASE b = c
    <3>1. /\ object[c] = "none" /\ object'[c] = "alive"
          /\ use_count'[c] = 1 /\ weak_count'[c] = 1
      BY <1>1, <2>5 DEF MakeShared, TypeOK
    <3>2. /\ weak_count[c] = 0 /\ Cardinality(At("destroy", c)) = 0
          /\ use_count[c] = 0 /\ Cardinality(At("dispose", c)) = 0
      BY <3>1, Numbers DEF Held, TypeOK
    <3>3. OwnersOf(c) = 0 /\ ObserversOf(c) = 0
      BY <3>2, Numbers DEF Held, OwnersOf, ObserversOf
    <3>4. OwnersOf(c)' = 1 /\ ObserversOf(c)' = 0
      BY <2>2, <2>4, <2>5, <3>3
    <3> QED BY <2>2, <3>1, <3>2, <3>4 DEF Held, OwnersOf, ObserversOf
  <2>6. CASE b # c
    <3>1. Still(c)
      BY <1>1, <2>2, <2>6 DEF MakeShared, TypeOK, Still
    <3>2. OwnersOf(c)' = OwnersOf(c)
      BY <2>2, <2>6, Numbers DEF OwnersOf
    <3> QED BY <2>4, <3>1, <3>2, HeldStill
  <2> QED BY <2>5, <2>6
<1>2. ASSUME NEW from \in SharedPtrs, NEW to \in SharedPtrs, CopyShared(t, from, to)
      PROVE  Held(c)'
  <2> DEFINE d == IF sp[from] = c THEN 1 ELSE 0
  <2>1. /\ pc[t] = "idle" /\ Drops(t, sp[to], "dropUse") /\ sp'[to] = sp[from]
        /\ \A x \in SharedPtrs \ {to} : sp'[x] = sp[x]
    BY <1>2 DEF CopyShared, Starts, TypeOK
  <2>2. /\ OwnersOf(c)' = OwnersOf(c) + d
        /\ \A step \in {"dispose", "dropWeak", "destroy"} :
             Cardinality(At(step, c)') = Cardinality(At(step, c))
    BY <2>1, SharedCounts DEF OwnersOf
  <2>3. Observers(c)' = Observers(c)
    BY <1>2, Same DEF CopyShared
  <2>4. ObserversOf(c)' = ObserversOf(c)
    BY <2>2, <2>3 DEF ObserversOf
  <2>5. use_count'[c] = use_count[c] + d /\ d \in {0, 1}
    BY <1>2, SharedPtrAssumption DEF CopyShared, Increment, TypeOK
  <2>6. d = 1 => use_count[c] > 0
    BY Holding
  <2>7. weak_count'[c] = weak_count[c] /\ object'[c] = object[c]
    BY <1>2 DEF CopyShared
  <2> HIDE DEF d
  <2> QED BY <2>2, <2>4, <2>5, <2>6, <2>7, HeldOwner
<1>3. ASSUME NEW from \in SharedPtrs, NEW to \in SharedPtrs, MoveShared(t, from, to)
      PROVE  Held(c)'
  <2>1. /\ OwnersOf(c)' = OwnersOf(c)
        /\ \A step \in {"dispose", "dropWeak", "destroy"} :
             Cardinality(At(step, c)') = Cardinality(At(step, c))
    BY <1>3, MoveSharedCounts DEF OwnersOf
  <2>2. Observers(c)' = Observers(c)
    BY <1>3, Same DEF MoveShared
  <2>3. ObserversOf(c)' = ObserversOf(c)
    BY <2>1, <2>2 DEF ObserversOf
  <2>4. Still(c)
    BY <1>3, <2>1 DEF MoveShared, counters, Still
  <2> QED BY <2>1, <2>3, <2>4, HeldStill
<1>4. ASSUME NEW one \in SharedPtrs, NEW other \in SharedPtrs, SwapShared(t, one, other)
      PROVE  Held(c)'
  <2>1. /\ Observers(c)' = Observers(c) /\ \A step : At(step, c)' = At(step, c)
        /\ Cardinality(Owners(c)') = Cardinality(Owners(c))
    BY <1>4, Same, SwapCounts DEF SwapShared
  <2>2. OwnersOf(c)' = OwnersOf(c) /\ ObserversOf(c)' = ObserversOf(c)
    BY <2>1 DEF OwnersOf, ObserversOf
  <2>3. Still(c)
    BY <1>4, <2>1 DEF SwapShared, counters, Still
  <2> QED BY <2>2, <2>3, HeldStill
<1>5. ASSUME NEW h \in SharedPtrs, ResetShared(t, h) PROVE Held(c)'
  <2>1. /\ pc[t] = "idle" /\ Drops(t, sp[h], "dropUse") /\ sp'[h] = Null
        /\ \A x \in SharedPtrs \ {h} : sp'[x] = sp[x]
    BY <1>5 DEF ResetShared, Starts, TypeOK
  <2>2. /\ OwnersOf(c)' = OwnersOf(c) + (IF Null = c THEN 1 ELSE 0)
        /\ \A step \in {"dispose", "dropWeak", "destroy"} :
             Cardinality(At(step, c)') = Cardinality(At(step, c))
    BY <2>1, SharedCounts DEF OwnersOf
  <2>3. Observers(c)' = Observers(c)
    BY <1>5, Same DEF ResetShared
  <2>4. OwnersOf(c)' = OwnersOf(c) /\ ObserversOf(c)' = ObserversOf(c)
    BY <2>2, <2>3, SharedPtrAssumption, Numbers DEF OwnersOf, ObserversOf
  <2>5. Still(c)
    BY <1>5, <2>2 DEF ResetShared, counters, Still
  <2> QED BY <2>4, <2>5, HeldStill
<1> QED BY <1>1, <1>2, <1>3, <1>4, <1>5

\* Operations of weak_ptr.
LEMMA HeldWeak ==
  ASSUME TypeOK, \A b \in Blocks : Held(b), NEW t \in Threads, NEW c \in Blocks
  PROVE  /\ \A from \in SharedPtrs, to \in WeakPtrs : WeakFromShared(t, from, to) => Held(c)'
         /\ \A from, to \in WeakPtrs :
              CopyWeak(t, from, to) \/ MoveWeak(t, from, to) \/ SwapWeak(t, from, to) => Held(c)'
         /\ \A h \in WeakPtrs : ResetWeak(t, h) => Held(c)'
<1>1. ASSUME NEW b, NEW to \in WeakPtrs, pc[t] = "idle", b \in Blocks => weak_count[b] > 0,
             AssignWeak(t, b, to)
      PROVE  Held(c)'
  <2> DEFINE d == IF b = c THEN 1 ELSE 0
  <2>1. /\ pc[t] = "idle" /\ Drops(t, wp[to], "dropWeak") /\ wp'[to] = b
        /\ \A x \in WeakPtrs \ {to} : wp'[x] = wp[x]
    BY <1>1 DEF AssignWeak, TypeOK
  <2>2. /\ ObserversOf(c)' = ObserversOf(c) + d
        /\ \A step \in {"dropUse", "dispose", "destroy"} :
             Cardinality(At(step, c)') = Cardinality(At(step, c))
    BY <2>1, WeakCounts DEF ObserversOf
  <2>3. Owners(c)' = Owners(c)
    BY <1>1, Same DEF AssignWeak
  <2>4. OwnersOf(c)' = OwnersOf(c)
    BY <2>2, <2>3 DEF OwnersOf
  <2>5. weak_count'[c] = weak_count[c] + d /\ d \in {0, 1}
    BY <1>1, SharedPtrAssumption DEF AssignWeak, Increment, TypeOK
  <2>6. d = 1 => weak_count[c] > 0
    BY <1>1
  <2>7. use_count'[c] = use_count[c] /\ object'[c] = object[c]
    BY <1>1 DEF AssignWeak
  <2> HIDE DEF d
  <2> QED BY <2>2, <2>4, <2>5, <2>6, <2>7, HeldObserver
<1>2. ASSUME NEW from \in SharedPtrs, NEW to \in WeakPtrs, WeakFromShared(t, from, to)
      PROVE  Held(c)'
  <2>1. ASSUME sp[from] \in Blocks PROVE weak_count[sp[from]] > 0
    <3>1. use_count[sp[from]] > 0
      BY <2>1, Holding
    <3> QED BY <2>1, <3>1, Numbers DEF Held
  <2> QED BY <1>1, <1>2, <2>1 DEF WeakFromShared, Starts
<1>3. ASSUME NEW from \in WeakPtrs, NEW to \in WeakPtrs, CopyWeak(t, from, to) PROVE Held(c)'
  <2>1. wp[from] \in Blocks => weak_count[wp[from]] > 0
    BY Holding
  <2> QED BY <1>1, <1>3, <2>1 DEF CopyWeak, Starts
<1>4. ASSUME NEW from \in WeakPtrs, NEW to \in WeakPtrs, MoveWeak(t, from, to) PROVE Held(c)'
  <2>1. /\ ObserversOf(c)' = ObserversOf(c)
        /\ \A step \in {"dropUse", "dispose", "destroy"} :
             Cardinality(At(step, c)') = Cardinality(At(step, c))
    BY <1>4, MoveWeakCounts DEF ObserversOf
  <2>2. Owners(c)' = Owners(c)
    BY <1>4, Same DEF MoveWeak
  <2>3. OwnersOf(c)' = OwnersOf(c)
    BY <2>1, <2>2 DEF OwnersOf
  <2>4. Still(c)
    BY <1>4, <2>1 DEF MoveWeak, counters, Still
  <2> QED BY <2>1, <2>3, <2>4, HeldStill
<1>5. ASSUME NEW one \in WeakPtrs, NEW other \in WeakPtrs, SwapWeak(t, one, other) PROVE Held(c)'
  <2>1. /\ Owners(c)' = Owners(c) /\ \A step : At(step, c)' = At(step, c)
        /\ Cardinality(Observers(c)') = Cardinality(Observers(c))
    BY <1>5, Same, SwapCounts DEF SwapWeak
  <2>2. OwnersOf(c)' = OwnersOf(c) /\ ObserversOf(c)' = ObserversOf(c)
    BY <2>1 DEF OwnersOf, ObserversOf
  <2>3. Still(c)
    BY <1>5, <2>1 DEF SwapWeak, counters, Still
  <2> QED BY <2>2, <2>3, HeldStill
<1>6. ASSUME NEW h \in WeakPtrs, ResetWeak(t, h) PROVE Held(c)'
  <2>1. /\ pc[t] = "idle" /\ Drops(t, wp[h], "dropWeak") /\ wp'[h] = Null
        /\ \A x \in WeakPtrs \ {h} : wp'[x] = wp[x]
    BY <1>6 DEF ResetWeak, Starts, TypeOK
  <2>2. /\ ObserversOf(c)' = ObserversOf(c) + (IF Null = c THEN 1 ELSE 0)
        /\ \A step \in {"dropUse", "dispose", "destroy"} :
             Cardinality(At(step, c)') = Cardinality(At(step, c))
    BY <2>1, WeakCounts DEF ObserversOf
  <2>3. Owners(c)' = Owners(c)
    BY <1>6, Same DEF ResetWeak
  <2>4. OwnersOf(c)' = OwnersOf(c) /\ ObserversOf(c)' = ObserversOf(c)
    BY <2>2, <2>3, SharedPtrAssumption, Numbers DEF OwnersOf, ObserversOf
  <2>5. Still(c)
    BY <1>6, <2>2 DEF ResetWeak, counters, Still
  <2> QED BY <2>4, <2>5, HeldStill
<1> QED BY <1>2, <1>3, <1>4, <1>5, <1>6

\* lock () of a weak_ptr, and an access to the object.
LEMMA HeldLock ==
  ASSUME TypeOK, \A b \in Blocks : Held(b), NEW t \in Threads, NEW c \in Blocks
  PROVE  /\ \A w \in WeakPtrs, h \in SharedPtrs :
              LockLoad(t, w, h) \/ LockExpired(t, w, h) => Held(c)'
         /\ \A h \in SharedPtrs : Use(t, h) => Held(c)'
         /\ LockCas(t) => Held(c)'
<1>1. ASSUME NEW w \in WeakPtrs, NEW h \in SharedPtrs, LockLoad(t, w, h) PROVE Held(c)'
  <2>1. /\ \A u \in Threads \ {t} : pc'[u] = pc[u] /\ ref'[u] = ref[u]
        /\ pc[t] = "idle" /\ pc'[t] = "cas"
    BY <1>1 DEF LockLoad, Starts, TypeOK
  <2>2. ASSUME NEW step, step \notin {"idle", "cas"} PROVE At(step, c)' = At(step, c)
    BY <2>1, <2>2 DEF At
  <2>3. Owners(c)' = Owners(c) /\ Observers(c)' = Observers(c)
    BY <1>1, Same DEF LockLoad, handles
  <2>4. OwnersOf(c)' = OwnersOf(c) /\ ObserversOf(c)' = ObserversOf(c)
    BY <2>2, <2>3 DEF OwnersOf, ObserversOf
  <2>5. Still(c)
    BY <1>1, <2>2 DEF LockLoad, counters, Still
  <2> QED BY <2>4, <2>5, HeldStill
<1>2. ASSUME NEW h \in SharedPtrs, NEW b, pc[t] \in {"idle", "cas"}, LockReturns(t, h, b)
      PROVE  /\ OwnersOf(c)' = OwnersOf(c) + (IF b = c THEN 1 ELSE 0)
             /\ ObserversOf(c)' = ObserversOf(c)
             /\ weak_count'[c] = weak_count[c] /\ object'[c] = object[c]
             /\ \A step \in {"dispose", "destroy"} :
                  Cardinality(At(step, c)') = Cardinality(At(step, c))
  <2>1. /\ Drops(t, sp[h], "dropUse") /\ sp'[h] = b
        /\ \A x \in SharedPtrs \ {h} : sp'[x] = sp[x]
    BY <1>2 DEF LockReturns, TypeOK
  <2>2. /\ OwnersOf(c)' = OwnersOf(c) + (IF b = c THEN 1 ELSE 0)
        /\ \A step \in {"dispose", "dropWeak", "destroy"} :
             Cardinality(At(step, c)') = Cardinality(At(step, c))
    BY <1>2, <2>1, SharedCounts DEF OwnersOf
  <2>3. Observers(c)' = Observers(c)
    BY <1>2, Same DEF LockReturns
  <2> QED BY <1>2, <2>2, <2>3 DEF LockReturns, ObserversOf
<1>3. ASSUME NEW h \in SharedPtrs, pc[t] \in {"idle", "cas"}, LockReturns(t, h, Null),
             use_count' = use_count
      PROVE  Held(c)'
  <2>1. OwnersOf(c)' = OwnersOf(c) /\ ObserversOf(c)' = ObserversOf(c)
    BY <1>2, <1>3, SharedPtrAssumption, Numbers DEF OwnersOf
  <2>2. Still(c)
    BY <1>2, <1>3 DEF Still
  <2> QED BY <2>1, <2>2, HeldStill
<1>4. ASSUME NEW w \in WeakPtrs, NEW h \in SharedPtrs, LockExpired(t, w, h) PROVE Held(c)'
  BY <1>3, <1>4 DEF LockExpired, Starts
<1>5. ASSUME NEW h \in SharedPtrs, Use(t, h) PROVE Held(c)'
  <2>1. /\ Owners(c)' = Owners(c) /\ Observers(c)' = Observers(c)
        /\ \A step : At(step, c)' = At(step, c)
    BY <1>5, Same DEF Use, handles
  <2>2. OwnersOf(c)' = OwnersOf(c) /\ ObserversOf(c)' = ObserversOf(c)
    BY <2>1 DEF OwnersOf, ObserversOf
  <2>3. Still(c)
    BY <1>5, <2>1 DEF Use, counters, Still
  <2> QED BY <2>2, <2>3, HeldStill
<1>6. CASE LockCas(t)
  <2>1. pc[t] = "cas" /\ target[t] \in SharedPtrs /\ ref[t] \in Blocks
    BY <1>6 DEF LockCas, TypeOK
  <2>2. CASE CasSucceeds(t)
    <3> DEFINE d == IF ref[t] = c THEN 1 ELSE 0
    <3>1. LockReturns(t, target[t], ref[t])
      BY <2>2 DEF CasSucceeds
    <3>2. /\ OwnersOf(c)' = OwnersOf(c) + d /\ ObserversOf(c)' = ObserversOf(c)
          /\ weak_count'[c] = weak_count[c] /\ object'[c] = object[c]
          /\ \A step \in {"dispose", "destroy"} :
               Cardinality(At(step, c)') = Cardinality(At(step, c))
      BY <1>2, <2>1, <3>1
    <3>3. use_count'[c] = use_count[c] + d /\ d \in {0, 1}
      BY <2>1, <2>2 DEF CasSucceeds, Unchanged, TypeOK
    <3>4. d = 1 => use_count[c] > 0
      BY <2>1, <2>2 DEF CasSucceeds, Unchanged, TypeOK
    <3> HIDE DEF d
    <3> QED BY <3>2, <3>3, <3>4, HeldOwner
  <2>3. CASE CasRetries(t)
    <3>1. /\ Owners(c)' = Owners(c) /\ Observers(c)' = Observers(c)
          /\ \A step : At(step, c)' = At(step, c)
      BY <2>3, Same DEF CasRetries, handles
    <3>2. OwnersOf(c)' = OwnersOf(c) /\ ObserversOf(c)' = ObserversOf(c)
      BY <3>1 DEF OwnersOf, ObserversOf
    <3>3. Still(c)
      BY <2>3, <3>1 DEF CasRetries, counters, Still
    <3> QED BY <3>2, <3>3, HeldStill
  <2>4. CASE CasExpired(t)
    BY <1>3, <2>1, <2>4 DEF CasExpired
  <2> QED BY <1>6, <2>2, <2>3, <2>4 DEF LockCas
<1> QED BY <1>1, <1>4, <1>5, <1>6

\* dec_use_count () and dec_weak_count ().
LEMMA HeldRelease ==
  ASSUME TypeOK, \A b \in Blocks : Held(b), NEW t \in Threads, NEW c \in Blocks, Release(t)
  PROVE  Held(c)'
<1>1. \A step : Cardinality(At(step, c)) \in Nat /\ (pc[t] = step /\ ref[t] = c =>
                                                       Cardinality(At(step, c)) > 0)
  BY Numbers, Present
<1>2. Cardinality(Owners(c)) \in Nat /\ Cardinality(Observers(c)) \in Nat
  BY Numbers
<1>3. ref[t] \in Blocks
  BY DEF Release, DropUse, Dispose, DropWeak, Destroy, TypeOK
<1>4. Owners(c)' = Owners(c) /\ Observers(c)' = Observers(c)
  BY Same DEF Release, DropUse, Dispose, DropWeak, Destroy, handles
<1>6. CASE DropUse(t)
  <2> DEFINE next == IF use_count[ref[t]] = 1 THEN "dispose" ELSE "idle"
  <2>1. /\ pc[t] = "dropUse" /\ pc'[t] = next /\ (next = "idle" \/ ref'[t] = ref[t]) /\ next # "dropUse"
        /\ \A u \in Threads \ {t} : pc'[u] = pc[u] /\ ref'[u] = ref[u]
    BY <1>6 DEF DropUse, Drops, TypeOK
  <2>2. \A step \in {"dropUse", "dispose", "dropWeak", "destroy"} :
          Cardinality(At(step, c)') =
            Cardinality(At(step, c))
              - (IF step = "dropUse" /\ c = ref[t] THEN 1 ELSE 0)
              + (IF step = next /\ c = ref[t] THEN 1 ELSE 0)
    <3> HIDE DEF next
    <3> QED BY <2>1, ThreadSteps
  <2>3. /\ use_count'[c] = use_count[c] - (IF c = ref[t] THEN 1 ELSE 0)
        /\ weak_count'[c] = weak_count[c] /\ object'[c] = object[c]
        /\ use_count[c] \in Nat /\ weak_count[c] \in Nat
    BY <1>6, <1>3 DEF DropUse, TypeOK
  <2>4. CASE c = ref[t]
    <3>1. /\ Cardinality(At("dropUse", c)') = Cardinality(At("dropUse", c)) - 1
          /\ Cardinality(At("dispose", c)')
               = Cardinality(At("dispose", c)) + (IF use_count[c] = 1 THEN 1 ELSE 0)
          /\ Cardinality(At("dropWeak", c)') = Cardinality(At("dropWeak", c))
          /\ Cardinality(At("destroy", c)') = Cardinality(At("destroy", c))
      BY <1>1, <2>2, <2>4
    <3>2. Cardinality(At("dropUse", c)) > 0
      BY <1>1, <2>1, <2>4
    <3>3. Held(c)
      OBVIOUS
    <3>4. /\ Cardinality(At("dispose", c)) = 0 /\ use_count[c] > 0 /\ weak_count[c] > 0
          /\ Cardinality(At("destroy", c)) = 0
      BY <1>1, <1>2, <3>2, <3>3 DEF Held
    <3>5. /\ use_count'[c] > 0 \/ Cardinality(At("dispose", c)') > 0
          /\ use_count'[c] > 0 => Cardinality(At("dispose", c)') = 0
          /\ Cardinality(At("dispose", c)') \in {0, 1}
      BY <2>3, <2>4, <3>1, <3>4
    <3>6. use_count'[c] = Cardinality(Owners(c)') + Cardinality(At("dropUse", c)')
      BY <1>1, <1>2, <1>4, <2>3, <2>4, <3>1, <3>3 DEF Held
    <3>7. /\ weak_count[c] = Cardinality(Observers(c)) + Cardinality(At("dropWeak", c)) + 1
          /\ object[c] = "alive"
      BY <3>3, <3>4 DEF Held
    <3> QED BY <1>4, <2>3, <3>1, <3>4, <3>5, <3>6, <3>7 DEF Held
  <2>5. CASE c # ref[t]
    <3>1. \A step \in {"dropUse", "dispose", "dropWeak", "destroy"} :
            Cardinality(At(step, c)') = Cardinality(At(step, c))
      BY <1>1, <2>2, <2>5
    <3>2. OwnersOf(c)' = OwnersOf(c) /\ ObserversOf(c)' = ObserversOf(c)
      BY <1>4, <3>1 DEF OwnersOf, ObserversOf
    <3>3. Still(c)
      BY <2>3, <2>5, <3>1 DEF Still
    <3> QED BY <3>2, <3>3, HeldStill
  <2> QED BY <2>4, <2>5
<1>7. CASE Dispose(t)
  <2>1. /\ pc[t] = "dispose" /\ pc'[t] = "dropWeak" /\ ref'[t] = ref[t]
        /\ \A u \in Threads \ {t} : pc'[u] = pc[u] /\ ref'[u] = ref[u]
    BY <1>7 DEF Dispose, AfterDispose, TypeOK
  <2>2. \A step \in {"dropUse", "dispose", "dropWeak", "destroy"} :
          Cardinality(At(step, c)') =
            Cardinality(At(step, c))
              - (IF step = "dispose" /\ c = ref[t] THEN 1 ELSE 0)
              + (IF step = "dropWeak" /\ c = ref[t] THEN 1 ELSE 0)
    BY <2>1, ThreadSteps
  <2>3. /\ use_count'[c] = use_count[c] /\ weak_count'[c] = weak_count[c]
        /\ object'[c] = IF c = ref[t] THEN "disposed" ELSE object[c]
        /\ use_count[c] \in Nat /\ weak_count[c] \in Nat
    BY <1>7, <1>3 DEF Dispose, counters, TypeOK
  <2>4. CASE c = ref[t]
    <3>1. /\ Cardinality(At("dispose", c)') = Cardinality(At("dispose", c)) - 1
          /\ Cardinality(At("dropWeak", c)') = Cardinality(At("dropWeak", c)) + 1
          /\ Cardinality(At("dropUse", c)') = Cardinality(At("dropUse", c))
          /\ Cardinality(At("destroy", c)') = Cardinality(At("destroy", c))
      BY <1>1, <2>2, <2>4
    <3>2. Cardinality(At("dispose", c)) > 0
      BY <1>1, <2>1, <2>4
    <3>3. Held(c)
      OBVIOUS
    <3> QED BY <1>1, <1>2, <1>4, <2>3, <2>4, <3>1, <3>2, <3>3 DEF Held
  <2>5. CASE c # ref[t]
    <3>1. \A step \in {"dropUse", "dispose", "dropWeak", "destroy"} :
            Cardinality(At(step, c)') = Cardinality(At(step, c))
      BY <1>1, <2>2, <2>5
    <3>2. OwnersOf(c)' = OwnersOf(c) /\ ObserversOf(c)' = ObserversOf(c)
      BY <1>4, <3>1 DEF OwnersOf, ObserversOf
    <3>3. Still(c)
      BY <2>3, <2>5, <3>1 DEF Still
    <3> QED BY <3>2, <3>3, HeldStill
  <2> QED BY <2>4, <2>5
<1>8. CASE DropWeak(t)
  <2> DEFINE next == IF weak_count[ref[t]] = 1 THEN "destroy" ELSE "idle"
  <2>1. /\ pc[t] = "dropWeak" /\ pc'[t] = next /\ (next = "idle" \/ ref'[t] = ref[t]) /\ next # "dropWeak"
        /\ \A u \in Threads \ {t} : pc'[u] = pc[u] /\ ref'[u] = ref[u]
    BY <1>8 DEF DropWeak, Drops, TypeOK, Last
  <2>2. \A step \in {"dropUse", "dispose", "dropWeak", "destroy"} :
          Cardinality(At(step, c)') =
            Cardinality(At(step, c))
              - (IF step = "dropWeak" /\ c = ref[t] THEN 1 ELSE 0)
              + (IF step = next /\ c = ref[t] THEN 1 ELSE 0)
    <3> HIDE DEF next
    <3> QED BY <2>1, ThreadSteps
  <2>3. /\ weak_count'[c] = weak_count[c] - (IF c = ref[t] THEN 1 ELSE 0)
        /\ use_count'[c] = use_count[c] /\ object'[c] = object[c]
        /\ use_count[c] \in Nat /\ weak_count[c] \in Nat
    BY <1>8, <1>3 DEF DropWeak, TypeOK
  <2>4. CASE c = ref[t]
    <3>1. /\ Cardinality(At("dropWeak", c)') = Cardinality(At("dropWeak", c)) - 1
          /\ Cardinality(At("destroy", c)')
               = Cardinality(At("destroy", c)) + (IF weak_count[c] = 1 THEN 1 ELSE 0)
          /\ Cardinality(At("dropUse", c)') = Cardinality(At("dropUse", c))
          /\ Cardinality(At("dispose", c)') = Cardinality(At("dispose", c))
      BY <1>1, <2>2, <2>4
    <3>2. Cardinality(At("dropWeak", c)) > 0
      BY <1>1, <2>1, <2>4
    <3>3. Held(c)
      OBVIOUS
    <3>4. Cardinality(At("destroy", c)) = 0
      BY <1>1, <1>2, <3>2, <3>3 DEF Held
    <3> QED BY <1>1, <1>2, <1>4, <2>3, <2>4, <3>1, <3>2, <3>3, <3>4 DEF Held
  <2>5. CASE c # ref[t]
    <3>1. \A step \in {"dropUse", "dispose", "dropWeak", "destroy"} :
            Cardinality(At(step, c)') = Cardinality(At(step, c))
      BY <1>1, <2>2, <2>5
    <3>2. OwnersOf(c)' = OwnersOf(c) /\ ObserversOf(c)' = ObserversOf(c)
      BY <1>4, <3>1 DEF OwnersOf, ObserversOf
    <3>3. Still(c)
      BY <2>3, <2>5, <3>1 DEF Still
    <3> QED BY <3>2, <3>3, HeldStill
  <2> QED BY <2>4, <2>5
<1>9. CASE Destroy(t)
  <2>1. /\ pc[t] = "destroy" /\ pc'[t] = "idle"
        /\ \A u \in Threads \ {t} : pc'[u] = pc[u] /\ ref'[u] = ref[u]
    BY <1>9 DEF Destroy, Drops, TypeOK
  <2>2. \A step \in {"dropUse", "dispose", "dropWeak", "destroy"} :
          Cardinality(At(step, c)') =
            Cardinality(At(step, c))
              - (IF step = "destroy" /\ c = ref[t] THEN 1 ELSE 0)
              + (IF step = "idle" /\ c = ref[t] THEN 1 ELSE 0)
    BY <2>1, ThreadSteps
  <2>3. /\ use_count'[c] = use_count[c] /\ weak_count'[c] = weak_count[c]
        /\ object'[c] = IF c = ref[t] THEN "none" ELSE object[c]
        /\ use_count[c] \in Nat /\ weak_count[c] \in Nat
    BY <1>9, <1>3 DEF Destroy, counters, TypeOK
  <2>4. CASE c = ref[t]
    <3>1. /\ Cardinality(At("dispose", c)') = Cardinality(At("dispose", c))
          /\ Cardinality(At("dropWeak", c)') = Cardinality(At("dropWeak", c))
          /\ Cardinality(At("dropUse", c)') = Cardinality(At("dropUse", c))
          /\ Cardinality(At("destroy", c)') = Cardinality(At("destroy", c)) - 1
      BY <1>1, <2>2, <2>4
    <3>2. Cardinality(At("destroy", c)) > 0
      BY <1>1, <2>1, <2>4
    <3>3. Held(c)
      OBVIOUS
    <3> QED BY <1>1, <1>2, <1>4, <2>3, <2>4, <3>1, <3>2, <3>3 DEF Held
  <2>5. CASE c # ref[t]
    <3>1. \A step \in {"dropUse", "dispose", "dropWeak", "destroy"} :
            Cardinality(At(step, c)') = Cardinality(At(step, c))
      BY <1>1, <2>2, <2>5
    <3>2. OwnersOf(c)' = OwnersOf(c) /\ ObserversOf(c)' = ObserversOf(c)
      BY <1>4, <3>1 DEF OwnersOf, ObserversOf
    <3>3. Still(c)
      BY <2>3, <2>5, <3>1 DEF Still
    <3> QED BY <3>2, <3>3, HeldStill
  <2> QED BY <2>4, <2>5
<1> QED BY <1>6, <1>7, <1>8, <1>9 DEF Release

\* Every step keeps the numbers of every block.
LEMMA HeldStep ==
  ASSUME TypeOK, \A b \in Blocks : Held(b), Next
  PROVE  \A c \in Blocks : Held(c)'
BY HeldShared, HeldWeak, HeldLock, HeldRelease DEF Next

----------------------------------------------------------------------------
(***************************************************************************)
(* A step leaves the weak_ptr of a lock () alone.                          *)
(***************************************************************************)
LEMMA LockStep ==
  ASSUME TypeOK, LockHolds, Next
  PROVE  LockHolds'
<1> PICK t \in Threads :
    \/ \E h \in SharedPtrs, b \in Blocks : MakeShared(t, h, b)
    \/ \E from, to \in SharedPtrs :
         CopyShared(t, from, to) \/ MoveShared(t, from, to) \/ SwapShared(t, from, to)
    \/ \E h \in SharedPtrs : ResetShared(t, h)
    \/ \E from \in SharedPtrs, to \in WeakPtrs : WeakFromShared(t, from, to)
    \/ \E from, to \in WeakPtrs :
         CopyWeak(t, from, to) \/ MoveWeak(t, from, to) \/ SwapWeak(t, from, to)
    \/ \E h \in WeakPtrs : ResetWeak(t, h)
    \/ \E w \in WeakPtrs, h \in SharedPtrs : LockLoad(t, w, h) \/ LockExpired(t, w, h)
    \/ \E h \in SharedPtrs : Use(t, h)
    \/ LockCas(t)
    \/ Release(t)
  BY DEF Next
<1>1. ASSUME NEW u \in Threads, u # t, pc[u] = "cas"
      PROVE  weak[u] \in Busy /\ weak[u] \in WeakPtrs /\ wp[weak[u]] = ref[u]
  BY <1>1 DEF Busy, TypeOK, LockHolds
<1>2. ASSUME \A u \in Threads \ {t} : pc'[u] = pc[u] /\ ref'[u] = ref[u] /\ weak'[u] = weak[u],
             pc'[t] = "cas" => wp'[weak'[t]] = ref'[t],
             \A w \in Busy \cap WeakPtrs : wp'[w] = wp[w]
      PROVE  LockHolds'
  BY <1>1, <1>2 DEF LockHolds
<1>3. ASSUME NEW old, NEW next \in {"dropUse", "dropWeak", "idle"}, Drops(t, old, next), weak' = weak,
             \A w \in Busy \cap WeakPtrs : wp'[w] = wp[w]
      PROVE  LockHolds'
  BY <1>2, <1>3 DEF Drops, TypeOK
<1>4. ASSUME NEW h \in SharedPtrs, NEW b \in Blocks, MakeShared(t, h, b) PROVE LockHolds'
  BY <1>3, <1>4 DEF MakeShared, locals
<1>5. ASSUME NEW from \in SharedPtrs, NEW to \in SharedPtrs, CopyShared(t, from, to) PROVE LockHolds'
  BY <1>3, <1>5 DEF CopyShared, locals
<1>6. ASSUME NEW from \in SharedPtrs, NEW to \in SharedPtrs, MoveShared(t, from, to) PROVE LockHolds'
  BY <1>3, <1>6 DEF MoveShared, locals
<1>7. ASSUME NEW one \in SharedPtrs, NEW other \in SharedPtrs, SwapShared(t, one, other)
      PROVE  LockHolds'
  BY <1>7 DEF SwapShared, locals, LockHolds
<1>8. ASSUME NEW h \in SharedPtrs, ResetShared(t, h) PROVE LockHolds'
  BY <1>3, <1>8 DEF ResetShared, locals
<1>9. ASSUME NEW b, NEW to \in WeakPtrs, NEW from, Starts(t, {from, to}), AssignWeak(t, b, to)
      PROVE  LockHolds'
  <2>1. \A w \in Busy \cap WeakPtrs : wp'[w] = wp[w]
    BY <1>9 DEF Starts, AssignWeak, TypeOK
  <2> QED BY <1>3, <1>9, <2>1 DEF AssignWeak, locals
<1>10. ASSUME NEW from \in WeakPtrs, NEW to \in WeakPtrs, MoveWeak(t, from, to) PROVE LockHolds'
  <2>1. \A w \in Busy \cap WeakPtrs : wp'[w] = wp[w]
    BY <1>10 DEF Starts, MoveWeak, TypeOK
  <2> QED BY <1>3, <1>10, <2>1 DEF MoveWeak, locals
<1>11. ASSUME NEW one \in WeakPtrs, NEW other \in WeakPtrs, SwapWeak(t, one, other) PROVE LockHolds'
  <2>1. \A w \in Busy \cap WeakPtrs : wp'[w] = wp[w]
    BY <1>11 DEF Starts, SwapWeak, TypeOK
  <2>2. pc'[t] # "cas"
    BY <1>11 DEF Starts, SwapWeak
  <2> QED BY <1>2, <1>11, <2>1, <2>2 DEF SwapWeak, locals
<1>12. ASSUME NEW h \in WeakPtrs, ResetWeak(t, h) PROVE LockHolds'
  <2>1. \A w \in Busy \cap WeakPtrs : wp'[w] = wp[w]
    BY <1>12 DEF Starts, ResetWeak, TypeOK
  <2> QED BY <1>3, <1>12, <2>1 DEF ResetWeak, locals
<1>13. ASSUME NEW w \in WeakPtrs, NEW h \in SharedPtrs, LockLoad(t, w, h) PROVE LockHolds'
  BY <1>2, <1>13 DEF LockLoad, handles, TypeOK
<1>14. ASSUME NEW h, NEW b, LockReturns(t, h, b) PROVE LockHolds'
  BY <1>2, <1>14 DEF LockReturns, Drops, TypeOK
<1>15. ASSUME NEW w \in WeakPtrs, NEW h \in SharedPtrs, LockExpired(t, w, h) PROVE LockHolds'
  BY <1>14, <1>15 DEF LockExpired
<1>16. ASSUME NEW h \in SharedPtrs, Use(t, h) PROVE LockHolds'
  BY <1>16 DEF Use, handles, locals, LockHolds
<1>17. CASE LockCas(t)
  <2>1. CASE CasSucceeds(t)
    BY <1>14, <2>1 DEF CasSucceeds
  <2>2. CASE CasRetries(t)
    BY <2>2 DEF CasRetries, handles, LockHolds
  <2>3. CASE CasExpired(t)
    BY <1>14, <2>3 DEF CasExpired
  <2> QED BY <1>17, <2>1, <2>2, <2>3 DEF LockCas
<1>18. CASE Release(t)
  <2>1. /\ \A u \in Threads \ {t} : pc'[u] = pc[u] /\ ref'[u] = ref[u]
        /\ pc'[t] # "cas" /\ weak' = weak /\ wp' = wp
    BY <1>18 DEF Release, DropUse, Dispose, DropWeak, Destroy, Drops, AfterDispose, handles, locals,
                 TypeOK
  <2> QED BY <1>2, <2>1
<1>19. ASSUME NEW from \in SharedPtrs, NEW to \in WeakPtrs, WeakFromShared(t, from, to) PROVE LockHolds'
  BY <1>9, <1>19 DEF WeakFromShared
<1>20. ASSUME NEW from \in WeakPtrs, NEW to \in WeakPtrs, CopyWeak(t, from, to) PROVE LockHolds'
  BY <1>9, <1>20 DEF CopyWeak
<1> QED BY <1>4, <1>5, <1>6, <1>7, <1>8, <1>10, <1>11, <1>12, <1>13, <1>15, <1>16, <1>17, <1>18,
           <1>19, <1>20

----------------------------------------------------------------------------
(***************************************************************************)
(* A step keeps who knows of the access that is followed.                  *)
(***************************************************************************)
\* Who meets those who know knows as well, and nobody forgets.
LEMMA Learning ==
  \A who : /\ aware \subseteq Sharing(who)
           /\ aware \cap who # {} => who \subseteq Sharing(who)
BY DEF Sharing

\* The parts of Known that keep it when neither the access nor the object changes.
LEMMA KnownKept ==
  ASSUME Known, NEW c, c = traced, traced' = c,
         c # Null =>
           /\ object'[c] = object[c]
           /\ use_count'[c] > 0 => use_count[c] > 0
           /\ object[c] = "disposed" /\ weak_count'[c] > 0 => weak_count[c] > 0
           /\ OwnersKnow(c) => OwnersKnow(c)'
           /\ ObserversKnow(c) => ObserversKnow(c)'
           /\ At("dispose", c)' \cup At("destroy", c)' \subseteq aware'
  PROVE  Known'
BY DEF Known

\* A thread that takes over a reference leaves the other steps alone.
LEMMA DropsKeeps ==
  ASSUME TypeOK, NEW t \in Threads, pc[t] \in {"idle", "cas"},
         NEW old, NEW next \in {"dropUse", "dropWeak"}, Drops(t, old, next), NEW c
  PROVE  /\ \A step \in {"dropUse", "dropWeak"} : At(step, c) \subseteq At(step, c)'
         /\ \A step \in {"dispose", "destroy"} : At(step, c)' = At(step, c)
         /\ c # Null /\ old = c => t \in At(next, c)'
BY DEF Drops, At, TypeOK

\* An owner or observer that is assigned over passes what it knows to the thread
\* that has its old reference.
LEMMA OwnersPass ==
  ASSUME TypeOK, NEW t \in Threads, pc[t] \in {"idle", "cas"}, NEW h \in SharedPtrs,
         \A x \in SharedPtrs \ {h} : sp'[x] = sp[x],
         Drops(t, sp[h], "dropUse"), NEW c, c # Null,
         aware \subseteq aware', h \in aware => t \in aware', OwnersKnow(c)
  PROVE  OwnersKnow(c)'
<1>1. /\ At("dropUse", c) \subseteq At("dropUse", c)'
      /\ sp[h] = c => t \in At("dropUse", c)'
  BY DropsKeeps
<1>2. Owners(c) \subseteq Owners(c)' \cup {h}
      /\ (h \in Owners(c) => sp[h] = c)
  BY DEF Owners
<1> QED BY <1>1, <1>2 DEF OwnersKnow

LEMMA ObserversPass ==
  ASSUME TypeOK, NEW t \in Threads, pc[t] \in {"idle", "cas"}, NEW h \in WeakPtrs,
         \A x \in WeakPtrs \ {h} : wp'[x] = wp[x],
         Drops(t, wp[h], "dropWeak"), NEW c, c # Null,
         aware \subseteq aware', h \in aware => t \in aware', ObserversKnow(c)
  PROVE  ObserversKnow(c)'
<1>1. /\ At("dropWeak", c) \subseteq At("dropWeak", c)'
      /\ wp[h] = c => t \in At("dropWeak", c)'
  BY DropsKeeps
<1>2. Observers(c) \subseteq Observers(c)' \cup {h}
      /\ (h \in Observers(c) => wp[h] = c)
  BY DEF Observers
<1> QED BY <1>1, <1>2 DEF ObserversKnow

\* Those who are not concerned keep what they know.
LEMMA OthersKnow ==
  ASSUME NEW c, aware \subseteq aware'
  PROVE  /\ Owners(c) \subseteq Owners(c)' /\ At("dropUse", c) \subseteq At("dropUse", c)'
              /\ OwnersKnow(c) => OwnersKnow(c)'
         /\ Observers(c) \subseteq Observers(c)' /\ At("dropWeak", c) \subseteq At("dropWeak", c)'
              /\ ObserversKnow(c) => ObserversKnow(c)'
BY DEF OwnersKnow, ObserversKnow

\* Operations of shared_ptr.
LEMMA KnownShared ==
  ASSUME TypeOK, \A b \in Blocks : Held(b), Known, NEW t \in Threads
  PROVE  /\ \A h \in SharedPtrs, b \in Blocks : MakeShared(t, h, b) => Known'
         /\ \A from, to \in SharedPtrs :
              CopyShared(t, from, to) \/ MoveShared(t, from, to) \/ SwapShared(t, from, to)
                => Known'
         /\ \A h \in SharedPtrs : ResetShared(t, h) => Known'
<1> PICK c : c = traced
  OBVIOUS
<1>1. c # Null => c \in Blocks
  BY DEF TypeOK
<1>2. ASSUME NEW hs, Starts(t, hs)
      PROVE  /\ pc[t] = "idle" /\ traced' = traced /\ aware \subseteq aware'
             /\ \A x \in hs : x \in aware => {t} \cup hs \subseteq aware'
  BY <1>2, Learning DEF Starts
<1>3. ASSUME c # Null, NEW old, Drops(t, old, "dropUse"), wp' = wp, pc[t] = "idle",
             aware \subseteq aware'
      PROVE  /\ ObserversKnow(c) => ObserversKnow(c)'
             /\ At("dispose", c)' \cup At("destroy", c)' \subseteq aware'
  <2>1. /\ At("dropWeak", c) \subseteq At("dropWeak", c)'
        /\ At("dispose", c)' = At("dispose", c) /\ At("destroy", c)' = At("destroy", c)
    BY <1>3, DropsKeeps
  <2>2. Observers(c)' = Observers(c)
    BY <1>3, Same
  <2>3. At("dispose", c) \cup At("destroy", c) \subseteq aware
    BY <1>3 DEF Known
  <2> QED BY <1>3, <2>1, <2>2, <2>3, OthersKnow
<1>4. ASSUME NEW h \in SharedPtrs, NEW b \in Blocks, MakeShared(t, h, b) PROVE Known'
  <2>1. /\ Starts(t, {h}) /\ Drops(t, sp[h], "dropUse") /\ wp' = wp
        /\ \A x \in SharedPtrs \ {h} : sp'[x] = sp[x]
    BY <1>4 DEF MakeShared, TypeOK
  <2>2. /\ pc[t] = "idle" /\ traced' = traced /\ aware \subseteq aware'
        /\ h \in aware => t \in aware'
    BY <1>2, <2>1
  <2>3. ASSUME c # Null
        PROVE  /\ object'[c] = object[c] /\ use_count'[c] = use_count[c]
               /\ weak_count'[c] = weak_count[c]
    <3>1. b # c
      BY <1>4, <2>3 DEF MakeShared, Known
    <3> QED BY <1>4, <3>1 DEF MakeShared
  <2>4. c # Null /\ OwnersKnow(c) => OwnersKnow(c)'
    BY <2>1, <2>2, OwnersPass
  <2>5. c # Null => /\ ObserversKnow(c) => ObserversKnow(c)'
                    /\ At("dispose", c)' \cup At("destroy", c)' \subseteq aware'
    BY <1>3, <2>1, <2>2
  <2> QED BY <2>2, <2>3, <2>4, <2>5, KnownKept
<1>5. ASSUME NEW from \in SharedPtrs, NEW to \in SharedPtrs, CopyShared(t, from, to) PROVE Known'
  <2>1. /\ Starts(t, {from, to}) /\ Drops(t, sp[to], "dropUse") /\ wp' = wp
        /\ \A x \in SharedPtrs \ {to} : sp'[x] = sp[x]
    BY <1>5 DEF CopyShared, TypeOK
  <2>2. /\ pc[t] = "idle" /\ traced' = traced /\ aware \subseteq aware'
        /\ to \in aware => t \in aware'
    BY <1>2, <2>1
  <2>3. ASSUME c # Null
        PROVE  /\ object'[c] = object[c] /\ weak_count'[c] = weak_count[c]
               /\ use_count'[c] > 0 => use_count[c] > 0
    <3>1. sp[from] = c => use_count[c] > 0
      BY <1>1, <2>3, Holding
    <3>2. sp[from] # c => use_count'[c] = use_count[c]
      BY <1>5 DEF CopyShared, Increment
    <3> QED BY <1>5, <3>1, <3>2 DEF CopyShared
  <2>4. c # Null /\ OwnersKnow(c) => OwnersKnow(c)'
    BY <2>1, <2>2, OwnersPass
  <2>5. c # Null => /\ ObserversKnow(c) => ObserversKnow(c)'
                    /\ At("dispose", c)' \cup At("destroy", c)' \subseteq aware'
    BY <1>3, <2>1, <2>2
  <2> QED BY <2>2, <2>3, <2>4, <2>5, KnownKept
<1>6. ASSUME NEW from \in SharedPtrs, NEW to \in SharedPtrs, MoveShared(t, from, to) PROVE Known'
  <2>1. /\ Starts(t, {from, to}) /\ Drops(t, sp[to], "dropUse") /\ wp' = wp
        /\ from # to /\ sp'[to] = sp[from]
        /\ \A x \in SharedPtrs \ {from, to} : sp'[x] = sp[x]
    BY <1>6 DEF MoveShared, TypeOK
  <2>2. /\ pc[t] = "idle" /\ traced' = traced /\ aware \subseteq aware'
        /\ from \in aware \/ to \in aware => t \in aware' /\ to \in aware'
    BY <1>2, <2>1
  <2>3. /\ object' = object /\ weak_count' = weak_count /\ use_count' = use_count
    BY <1>6 DEF MoveShared, counters
  <2>4. ASSUME c # Null, OwnersKnow(c) PROVE OwnersKnow(c)'
    <3>1. /\ At("dropUse", c) \subseteq At("dropUse", c)'
          /\ sp[to] = c => t \in At("dropUse", c)'
      BY <2>1, <2>2, <2>4, DropsKeeps
    <3>2. /\ Owners(c) \subseteq Owners(c)' \cup {from, to}
          /\ from \in Owners(c) => to \in Owners(c)'
          /\ to \in Owners(c) => sp[to] = c
      BY <2>1 DEF Owners
    <3> QED BY <2>2, <2>4, <3>1, <3>2 DEF OwnersKnow
  <2>5. c # Null => /\ ObserversKnow(c) => ObserversKnow(c)'
                    /\ At("dispose", c)' \cup At("destroy", c)' \subseteq aware'
    BY <1>3, <2>1, <2>2
  <2> QED BY <2>2, <2>3, <2>4, <2>5, KnownKept
<1>7. ASSUME NEW one \in SharedPtrs, NEW other \in SharedPtrs, SwapShared(t, one, other)
      PROVE  Known'
  <2>1. /\ Starts(t, {one, other}) /\ wp' = wp /\ pc' = pc /\ ref' = ref
        /\ sp'[one] = sp[other] /\ sp'[other] = sp[one]
        /\ \A x \in SharedPtrs \ {one, other} : sp'[x] = sp[x]
    BY <1>7 DEF SwapShared, TypeOK
  <2>2. /\ pc[t] = "idle" /\ traced' = traced /\ aware \subseteq aware'
        /\ one \in aware \/ other \in aware => one \in aware' /\ other \in aware'
    BY <1>2, <2>1
  <2>3. /\ object' = object /\ weak_count' = weak_count /\ use_count' = use_count
    BY <1>7 DEF SwapShared, counters
  <2>4. Observers(c)' = Observers(c) /\ \A step : At(step, c)' = At(step, c)
    BY <2>1, Same
  <2>5. ASSUME c # Null, OwnersKnow(c) PROVE OwnersKnow(c)'
    <3>1. /\ Owners(c) \subseteq Owners(c)' \cup {one, other}
          /\ one \in Owners(c) => other \in Owners(c)'
          /\ other \in Owners(c) => one \in Owners(c)'
      BY <2>1 DEF Owners
    <3> QED BY <2>2, <2>4, <2>5, <3>1 DEF OwnersKnow
  <2>6. ObserversKnow(c) => ObserversKnow(c)'
    BY <2>2, <2>4, OthersKnow
  <2>7. c # Null => At("dispose", c)' \cup At("destroy", c)' \subseteq aware'
    BY <2>2, <2>4 DEF Known
  <2> QED BY <2>2, <2>3, <2>5, <2>6, <2>7, KnownKept
<1>8. ASSUME NEW h \in SharedPtrs, ResetShared(t, h) PROVE Known'
  <2>1. /\ Starts(t, {h}) /\ Drops(t, sp[h], "dropUse") /\ wp' = wp
        /\ \A x \in SharedPtrs \ {h} : sp'[x] = sp[x]
    BY <1>8 DEF ResetShared, TypeOK
  <2>2. /\ pc[t] = "idle" /\ traced' = traced /\ aware \subseteq aware'
        /\ h \in aware => t \in aware'
    BY <1>2, <2>1
  <2>3. /\ object' = object /\ weak_count' = weak_count /\ use_count' = use_count
    BY <1>8 DEF ResetShared, counters
  <2>4. c # Null /\ OwnersKnow(c) => OwnersKnow(c)'
    BY <2>1, <2>2, OwnersPass
  <2>5. c # Null => /\ ObserversKnow(c) => ObserversKnow(c)'
                    /\ At("dispose", c)' \cup At("destroy", c)' \subseteq aware'
    BY <1>3, <2>1, <2>2
  <2> QED BY <2>2, <2>3, <2>4, <2>5, KnownKept
<1> QED BY <1>4, <1>5, <1>6, <1>7, <1>8

\* Operations of weak_ptr.
LEMMA KnownWeak ==
  ASSUME TypeOK, \A b \in Blocks : Held(b), Known, NEW t \in Threads
  PROVE  /\ \A from \in SharedPtrs, to \in WeakPtrs : WeakFromShared(t, from, to) => Known'
         /\ \A from, to \in WeakPtrs :
              CopyWeak(t, from, to) \/ MoveWeak(t, from, to) \/ SwapWeak(t, from, to) => Known'
         /\ \A h \in WeakPtrs : ResetWeak(t, h) => Known'
<1> PICK c : c = traced
  OBVIOUS
<1>1. c # Null => c \in Blocks
  BY DEF TypeOK
<1>2. ASSUME NEW hs, Starts(t, hs)
      PROVE  /\ pc[t] = "idle" /\ traced' = traced /\ aware \subseteq aware'
             /\ \A x \in hs : x \in aware => {t} \cup hs \subseteq aware'
  BY <1>2, Learning DEF Starts
<1>3. ASSUME c # Null, NEW old, Drops(t, old, "dropWeak"), sp' = sp, pc[t] = "idle",
             aware \subseteq aware'
      PROVE  /\ OwnersKnow(c) => OwnersKnow(c)'
             /\ At("dispose", c)' \cup At("destroy", c)' \subseteq aware'
  <2>1. /\ At("dropUse", c) \subseteq At("dropUse", c)'
        /\ At("dispose", c)' = At("dispose", c) /\ At("destroy", c)' = At("destroy", c)
    BY <1>3, DropsKeeps
  <2>2. Owners(c)' = Owners(c)
    BY <1>3, Same
  <2>3. At("dispose", c) \cup At("destroy", c) \subseteq aware
    BY <1>3 DEF Known
  <2> QED BY <1>3, <2>1, <2>2, <2>3, OthersKnow
<1>4. ASSUME NEW b, b \in Blocks => weak_count[b] > 0,
             NEW from, NEW to \in WeakPtrs, Starts(t, {from, to}), AssignWeak(t, b, to)
      PROVE  Known'
  <2>1. /\ Drops(t, wp[to], "dropWeak") /\ sp' = sp
        /\ \A x \in WeakPtrs \ {to} : wp'[x] = wp[x]
    BY <1>4 DEF AssignWeak, TypeOK
  <2>2. /\ pc[t] = "idle" /\ traced' = traced /\ aware \subseteq aware'
        /\ to \in aware => t \in aware'
    BY <1>2, <1>4
  <2>3. ASSUME c # Null
        PROVE  /\ object'[c] = object[c] /\ use_count'[c] = use_count[c]
               /\ weak_count'[c] > 0 => weak_count[c] > 0
    <3>1. b = c => weak_count[c] > 0
      BY <1>1, <1>4, <2>3
    <3>2. b # c => weak_count'[c] = weak_count[c]
      BY <1>4 DEF AssignWeak, Increment
    <3> QED BY <1>4, <3>1, <3>2 DEF AssignWeak
  <2>4. c # Null /\ ObserversKnow(c) => ObserversKnow(c)'
    BY <2>1, <2>2, ObserversPass
  <2>5. c # Null => /\ OwnersKnow(c) => OwnersKnow(c)'
                    /\ At("dispose", c)' \cup At("destroy", c)' \subseteq aware'
    BY <1>3, <2>1, <2>2
  <2> QED BY <2>2, <2>3, <2>4, <2>5, KnownKept
<1>5. ASSUME NEW from \in SharedPtrs, NEW to \in WeakPtrs, WeakFromShared(t, from, to) PROVE Known'
  <2>1. ASSUME sp[from] \in Blocks PROVE weak_count[sp[from]] > 0
    <3>1. use_count[sp[from]] > 0
      BY <2>1, Holding
    <3> QED BY <2>1, <3>1, Numbers DEF Held
  <2> QED BY <1>4, <1>5, <2>1 DEF WeakFromShared
<1>6. ASSUME NEW from \in WeakPtrs, NEW to \in WeakPtrs, CopyWeak(t, from, to) PROVE Known'
  <2>1. wp[from] \in Blocks => weak_count[wp[from]] > 0
    BY Holding
  <2> QED BY <1>4, <1>6, <2>1 DEF CopyWeak
<1>7. ASSUME NEW from \in WeakPtrs, NEW to \in WeakPtrs, MoveWeak(t, from, to) PROVE Known'
  <2>1. /\ Starts(t, {from, to}) /\ Drops(t, wp[to], "dropWeak") /\ sp' = sp
        /\ from # to /\ wp'[to] = wp[from]
        /\ \A x \in WeakPtrs \ {from, to} : wp'[x] = wp[x]
    BY <1>7 DEF MoveWeak, TypeOK
  <2>2. /\ pc[t] = "idle" /\ traced' = traced /\ aware \subseteq aware'
        /\ from \in aware \/ to \in aware => t \in aware' /\ to \in aware'
    BY <1>2, <2>1
  <2>3. /\ object' = object /\ weak_count' = weak_count /\ use_count' = use_count
    BY <1>7 DEF MoveWeak, counters
  <2>4. ASSUME c # Null, ObserversKnow(c) PROVE ObserversKnow(c)'
    <3>1. /\ At("dropWeak", c) \subseteq At("dropWeak", c)'
          /\ wp[to] = c => t \in At("dropWeak", c)'
      BY <2>1, <2>2, <2>4, DropsKeeps
    <3>2. /\ Observers(c) \subseteq Observers(c)' \cup {from, to}
          /\ from \in Observers(c) => to \in Observers(c)'
          /\ to \in Observers(c) => wp[to] = c
      BY <2>1 DEF Observers
    <3> QED BY <2>2, <2>4, <3>1, <3>2 DEF ObserversKnow
  <2>5. c # Null => /\ OwnersKnow(c) => OwnersKnow(c)'
                    /\ At("dispose", c)' \cup At("destroy", c)' \subseteq aware'
    BY <1>3, <2>1, <2>2
  <2> QED BY <2>2, <2>3, <2>4, <2>5, KnownKept
<1>8. ASSUME NEW one \in WeakPtrs, NEW other \in WeakPtrs, SwapWeak(t, one, other) PROVE Known'
  <2>1. /\ Starts(t, {one, other}) /\ sp' = sp /\ pc' = pc /\ ref' = ref
        /\ wp'[one] = wp[other] /\ wp'[other] = wp[one]
        /\ \A x \in WeakPtrs \ {one, other} : wp'[x] = wp[x]
    BY <1>8 DEF SwapWeak, TypeOK
  <2>2. /\ pc[t] = "idle" /\ traced' = traced /\ aware \subseteq aware'
        /\ one \in aware \/ other \in aware => one \in aware' /\ other \in aware'
    BY <1>2, <2>1
  <2>3. /\ object' = object /\ weak_count' = weak_count /\ use_count' = use_count
    BY <1>8 DEF SwapWeak, counters
  <2>4. Owners(c)' = Owners(c) /\ \A step : At(step, c)' = At(step, c)
    BY <2>1, Same
  <2>5. ASSUME c # Null, ObserversKnow(c) PROVE ObserversKnow(c)'
    <3>1. /\ Observers(c) \subseteq Observers(c)' \cup {one, other}
          /\ one \in Observers(c) => other \in Observers(c)'
          /\ other \in Observers(c) => one \in Observers(c)'
      BY <2>1 DEF Observers
    <3> QED BY <2>2, <2>4, <2>5, <3>1 DEF ObserversKnow
  <2>6. OwnersKnow(c) => OwnersKnow(c)'
    BY <2>2, <2>4, OthersKnow
  <2>7. c # Null => At("dispose", c)' \cup At("destroy", c)' \subseteq aware'
    BY <2>2, <2>4 DEF Known
  <2> QED BY <2>2, <2>3, <2>5, <2>6, <2>7, KnownKept
<1>9. ASSUME NEW h \in WeakPtrs, ResetWeak(t, h) PROVE Known'
  <2>1. /\ Starts(t, {h}) /\ Drops(t, wp[h], "dropWeak") /\ sp' = sp
        /\ \A x \in WeakPtrs \ {h} : wp'[x] = wp[x]
    BY <1>9 DEF ResetWeak, TypeOK
  <2>2. /\ pc[t] = "idle" /\ traced' = traced /\ aware \subseteq aware'
        /\ h \in aware => t \in aware'
    BY <1>2, <2>1
  <2>3. /\ object' = object /\ weak_count' = weak_count /\ use_count' = use_count
    BY <1>9 DEF ResetWeak, counters
  <2>4. c # Null /\ ObserversKnow(c) => ObserversKnow(c)'
    BY <2>1, <2>2, ObserversPass
  <2>5. c # Null => /\ OwnersKnow(c) => OwnersKnow(c)'
                    /\ At("dispose", c)' \cup At("destroy", c)' \subseteq aware'
    BY <1>3, <2>1, <2>2
  <2> QED BY <2>2, <2>3, <2>4, <2>5, KnownKept
<1> QED BY <1>5, <1>6, <1>7, <1>8, <1>9

\* lock () of a weak_ptr, and an access to the object.
LEMMA KnownLock ==
  ASSUME TypeOK, \A b \in Blocks : Held(b), Known, NEW t \in Threads
  PROVE  /\ \A w \in WeakPtrs, h \in SharedPtrs :
              LockLoad(t, w, h) \/ LockExpired(t, w, h) => Known'
         /\ \A h \in SharedPtrs : Use(t, h) => Known'
         /\ LockCas(t) => Known'
<1> PICK c : c = traced
  OBVIOUS
<1>1. c # Null => c \in Blocks
  BY DEF TypeOK
<1>2. ASSUME NEW w \in WeakPtrs, NEW h \in SharedPtrs, LockLoad(t, w, h) PROVE Known'
  <2>1. /\ Owners(c)' = Owners(c) /\ Observers(c)' = Observers(c)
        /\ object' = object /\ weak_count' = weak_count /\ use_count' = use_count
        /\ traced' = traced /\ aware \subseteq aware'
    BY <1>2, Same, Learning DEF LockLoad, Starts, handles, counters
  <2>2. \A step \in {"dropUse", "dispose", "dropWeak", "destroy"} : At(step, c)' = At(step, c)
    <3>1. /\ \A u \in Threads \ {t} : pc'[u] = pc[u] /\ ref'[u] = ref[u]
          /\ pc[t] = "idle" /\ pc'[t] = "cas"
      BY <1>2 DEF LockLoad, Starts, TypeOK
    <3> QED BY <3>1 DEF At
  <2>3. /\ OwnersKnow(c) => OwnersKnow(c)'
        /\ ObserversKnow(c) => ObserversKnow(c)'
    BY <2>1, <2>2, OthersKnow
  <2>4. c # Null => At("dispose", c)' \cup At("destroy", c)' \subseteq aware'
    BY <2>1, <2>2 DEF Known
  <2> QED BY <2>1, <2>3, <2>4, KnownKept
<1>3. ASSUME NEW h \in SharedPtrs, NEW b, pc[t] \in {"idle", "cas"}, LockReturns(t, h, b),
             b \in Blocks => use_count[b] > 0,
             \A x \in Blocks \ {b} : use_count'[x] = use_count[x],
             traced' = traced, aware \subseteq aware', h \in aware => t \in aware'
      PROVE  Known'
  <2>1. /\ Drops(t, sp[h], "dropUse") /\ wp' = wp /\ weak_count' = weak_count /\ object' = object
        /\ \A x \in SharedPtrs \ {h} : sp'[x] = sp[x]
    BY <1>3 DEF LockReturns, TypeOK
  <2>2. c # Null /\ OwnersKnow(c) => OwnersKnow(c)'
    BY <1>3, <2>1, OwnersPass
  <2>3. /\ At("dropWeak", c) \subseteq At("dropWeak", c)'
        /\ At("dispose", c)' = At("dispose", c) /\ At("destroy", c)' = At("destroy", c)
    BY <1>3, <2>1, DropsKeeps
  <2>4. Observers(c)' = Observers(c)
    BY <2>1, Same
  <2>5. ObserversKnow(c) => ObserversKnow(c)'
    BY <1>3, <2>3, <2>4, OthersKnow
  <2>6. c # Null => At("dispose", c)' \cup At("destroy", c)' \subseteq aware'
    BY <1>3, <2>3 DEF Known
  <2>7. c # Null /\ use_count'[c] > 0 => use_count[c] > 0
    BY <1>1, <1>3
  <2> QED BY <1>3, <2>1, <2>2, <2>5, <2>6, <2>7, KnownKept
<1>4. ASSUME NEW w \in WeakPtrs, NEW h \in SharedPtrs, LockExpired(t, w, h) PROVE Known'
  <2>1. /\ pc[t] = "idle" /\ traced' = traced /\ aware \subseteq aware'
        /\ h \in aware => t \in aware'
    BY <1>4, Learning DEF LockExpired, Starts
  <2> QED BY <1>3, <1>4, <2>1, SharedPtrAssumption DEF LockExpired
<1>5. ASSUME NEW h \in SharedPtrs, Use(t, h) PROVE Known'
  <2> PICK b \in Blocks : b = sp[h]
    BY <1>5 DEF Use, TypeOK
  <2>1. /\ traced' = b /\ h \in aware'
        /\ object' = object /\ weak_count' = weak_count /\ use_count' = use_count
        /\ Owners(b)' = Owners(b) /\ \A step : At(step, b)' = At(step, b)
    BY <1>5, Same DEF Use, handles, counters
  <2>2. h \in Owners(b) /\ use_count[b] > 0
    BY Holding DEF Owners
  <2>3. /\ object[b] = "alive"
        /\ Cardinality(At("dispose", b)) = 0 /\ Cardinality(At("destroy", b)) = 0
    BY <2>2, Numbers DEF Held, TypeOK
  <2>4. At("dispose", b) = {} /\ At("destroy", b) = {}
    BY <2>3, Finite, FS_EmptySet
  <2>5. OwnersKnow(b)'
    BY <2>1, <2>2 DEF OwnersKnow
  <2> QED BY <2>1, <2>3, <2>4, <2>5 DEF Known
<1>6. CASE LockCas(t)
  <2>1. pc[t] = "cas" /\ target[t] \in SharedPtrs /\ ref[t] \in Blocks /\ count[t] > 0
    BY <1>6 DEF LockCas, TypeOK
  <2>2. CASE CasSucceeds(t)
    <3>1. /\ traced' = traced /\ aware \subseteq aware'
          /\ target[t] \in aware => t \in aware'
      BY <2>2, Learning DEF CasSucceeds, AcquireRelease
    <3>2. /\ LockReturns(t, target[t], ref[t]) /\ use_count[ref[t]] > 0
          /\ \A x \in Blocks \ {ref[t]} : use_count'[x] = use_count[x]
      BY <2>1, <2>2 DEF CasSucceeds, Unchanged, TypeOK
    <3> QED BY <1>3, <2>1, <3>1, <3>2
  <2>3. CASE CasRetries(t)
    BY <2>3 DEF CasRetries, handles, counters, trace, Known, OwnersKnow, ObserversKnow, At, Owners,
                Observers
  <2>4. CASE CasExpired(t)
    <3>1. /\ traced' = traced /\ aware \subseteq aware'
          /\ target[t] \in aware => t \in aware'
      BY <2>4, Learning DEF CasExpired
    <3>2. LockReturns(t, target[t], Null) /\ use_count' = use_count
      BY <2>4 DEF CasExpired
    <3> QED BY <1>3, <2>1, <3>1, <3>2, SharedPtrAssumption
  <2> QED BY <1>6, <2>2, <2>3, <2>4 DEF LockCas
<1> QED BY <1>2, <1>4, <1>5, <1>6

\* Who is counted once is alone.
LEMMA Alone ==
  ASSUME NEW S, IsFiniteSet(S), Cardinality(S) <= 1, NEW x \in S
  PROVE  S = {x}
<1>1. Cardinality(S) # 0
  BY FS_EmptySet
<1>2. Cardinality(S) = 1
  BY <1>1, FS_CardinalityType
<1> QED BY <1>2, FS_Singleton

\* dec_use_count () and dec_weak_count ().
LEMMA KnownRelease ==
  ASSUME TypeOK, \A b \in Blocks : Held(b), Known, NEW t \in Threads, Release(t)
  PROVE  Known'
<1> PICK c : c = traced
  OBVIOUS
<1>1. ref[t] \in Blocks
  BY DEF Release, DropUse, Dispose, DropWeak, Destroy, TypeOK
<1> PICK b \in Blocks : b = ref[t]
  BY <1>1
<1>2. /\ Owners(c)' = Owners(c) /\ Observers(c)' = Observers(c)
      /\ Owners(b)' = Owners(b) /\ Observers(b)' = Observers(b)
  BY Same DEF Release, DropUse, Dispose, DropWeak, Destroy, handles
<1>3. /\ \A step : Cardinality(At(step, b)) \in Nat /\ IsFiniteSet(At(step, b))
      /\ Cardinality(Owners(b)) \in Nat /\ Cardinality(Observers(b)) \in Nat
      /\ Cardinality(At(pc[t], b)) > 0
      /\ Held(b) /\ use_count[b] \in Nat /\ weak_count[b] \in Nat
  BY Numbers, Finite, Present DEF TypeOK
<1>4. ASSUME c # b, c # Null,
             \A u \in Threads \ {t} : pc'[u] = pc[u] /\ ref'[u] = ref[u],
             ref'[t] \in {b, Null}
      PROVE  \A step : At(step, c)' = At(step, c)
  BY <1>4 DEF At
<1>5. ASSUME c # b, c # Null,
             \A u \in Threads \ {t} : pc'[u] = pc[u] /\ ref'[u] = ref[u],
             ref'[t] \in {b, Null}, traced' = traced, aware \subseteq aware',
             object'[c] = object[c] /\ use_count'[c] = use_count[c] /\ weak_count'[c] = weak_count[c]
      PROVE  Known'
  <2>1. \A step : At(step, c)' = At(step, c)
    BY <1>4, <1>5
  <2>2. (OwnersKnow(c) => OwnersKnow(c)') /\ (ObserversKnow(c) => ObserversKnow(c)')
    BY <1>2, <1>5, <2>1, OthersKnow
  <2>3. At("dispose", c)' \cup At("destroy", c)' \subseteq aware'
    BY <1>5, <2>1 DEF Known
  <2> QED BY <1>5, <2>2, <2>3, KnownKept
<1>6. CASE DropUse(t)
  <2>1. /\ traced' = traced /\ object' = object /\ weak_count' = weak_count
        /\ aware \subseteq aware' /\ pc[t] = "dropUse"
        /\ \A u \in Threads \ {t} : pc'[u] = pc[u] /\ ref'[u] = ref[u]
        /\ ref'[t] \in {b, Null}
        /\ \A x \in Blocks : use_count'[x] = IF x = b THEN use_count[b] - 1 ELSE use_count[x]
        /\ pc'[t] = IF use_count[b] = 1 THEN "dispose" ELSE "idle"
    BY <1>6, <1>1, Learning DEF DropUse, Drops, AcquireRelease, TypeOK
  <2>2. CASE c = Null
    BY <2>1, <2>2 DEF Known
  <2>3. CASE c # Null /\ c # b
    BY <1>5, <2>1, <2>3 DEF TypeOK
  <2>4. CASE c = b
    <3>1. t \in aware \/ "use" \in aware => t \in aware' /\ "use" \in aware'
      BY <1>6, <2>4, Learning DEF DropUse, AcquireRelease
    <3>2. /\ use_count[b] > 0 /\ Cardinality(At("dispose", b)) = 0
          /\ Cardinality(At("destroy", b)) = 0 /\ object[b] = "alive"
      BY <1>3, <2>1 DEF Held
    <3>3. /\ At("dispose", b) = {} /\ At("destroy", b) = {}
          /\ OwnersKnow(b)
      BY <1>3, <2>4, <3>2, FS_EmptySet, SharedPtrAssumption DEF Known
    <3>4. /\ At("destroy", b)' = {} /\ At("dispose", b)' \subseteq {t}
          /\ use_count[b] # 1 => At("dispose", b)' = {}
          /\ At("dropUse", b) \subseteq At("dropUse", b)' \cup {t}
      BY <2>1, <3>3 DEF At
    <3>5. CASE use_count[b] = 1
      <4>1. /\ Cardinality(Owners(b)) = 0
            /\ Cardinality(At("dropUse", b)) <= 1
        BY <1>3, <2>1, <3>5 DEF Held
      <4>2. t \in At("dropUse", b)
        BY <2>1 DEF At
      <4>3. Owners(b) = {} /\ At("dropUse", b) = {t}
        BY <1>3, <4>1, <4>2, Alone, Finite, FS_EmptySet
      <4>4. t \in aware'
        BY <3>1, <3>3, <4>3 DEF OwnersKnow
      <4> QED BY <2>1, <2>4, <3>2, <3>4, <3>5, <4>4 DEF Known
    <3>6. CASE use_count[b] # 1
      <4>1. OwnersKnow(b)'
        BY <1>2, <2>1, <3>1, <3>3, <3>4 DEF OwnersKnow
      <4> QED BY <2>1, <2>4, <3>2, <3>4, <3>6, <4>1 DEF Known
    <3> QED BY <3>5, <3>6
  <2> QED BY <2>2, <2>3, <2>4
<1>7. CASE Dispose(t)
  <2>1. /\ use_count' = use_count /\ weak_count' = weak_count
        /\ pc[t] = "dispose" /\ pc'[t] = "dropWeak" /\ ref'[t] = b
        /\ \A u \in Threads \ {t} : pc'[u] = pc[u] /\ ref'[u] = ref[u]
        /\ \A x \in Blocks : object'[x] = IF x = b THEN "disposed" ELSE object[x]
    BY <1>7 DEF Dispose, AfterDispose, counters, TypeOK
  <2>2. CASE c \notin {b, Null}
    <3>1. traced' = traced /\ aware' = aware
      BY <1>7, <2>2 DEF Dispose, trace
    <3> QED BY <1>5, <2>1, <2>2, <3>1 DEF TypeOK
  <2>3. CASE c \in {b, Null}
    <3>1. traced' = b /\ aware' = {t}
      BY <1>7, <2>3 DEF Dispose
    <3>2. use_count[b] = 0 /\ weak_count[b] > 0 /\ Cardinality(At("destroy", b)) = 0
      BY <1>3, <2>1 DEF Held
    <3>3. At("dispose", b) = {t}
      <4>1. t \in At("dispose", b)
        BY <2>1 DEF At
      <4>2. Cardinality(At("dispose", b)) <= 1
        BY <1>3 DEF Held
      <4> QED BY <1>3, <4>1, <4>2, Alone
    <3>4. At("destroy", b) = {}
      BY <1>3, <3>2, FS_EmptySet
    <3>5. /\ At("dispose", b)' = {} /\ At("destroy", b)' = {} /\ t \in At("dropWeak", b)'
      BY <2>1, <3>3, <3>4 DEF At
    <3>6. ObserversKnow(b)'
      BY <3>1, <3>5 DEF ObserversKnow
    <3> QED BY <2>1, <3>1, <3>2, <3>5, <3>6 DEF Known
  <2> QED BY <2>2, <2>3
<1>8. CASE DropWeak(t)
  <2>1. /\ traced' = traced /\ object' = object /\ use_count' = use_count
        /\ aware \subseteq aware' /\ pc[t] = "dropWeak"
        /\ \A u \in Threads \ {t} : pc'[u] = pc[u] /\ ref'[u] = ref[u]
        /\ ref'[t] \in {b, Null}
        /\ \A x \in Blocks : weak_count'[x] = IF x = b THEN weak_count[b] - 1 ELSE weak_count[x]
        /\ pc'[t] = IF weak_count[b] = 1 THEN "destroy" ELSE "idle"
    BY <1>8, <1>1, Learning DEF DropWeak, Drops, Last, AcquireRelease, TypeOK
  <2>2. CASE c = Null
    BY <2>1, <2>2 DEF Known
  <2>3. CASE c # Null /\ c # b
    BY <1>5, <2>1, <2>3 DEF TypeOK
  <2>4. CASE c = b
    <3>1. t \in aware \/ "weak" \in aware => t \in aware' /\ "weak" \in aware'
      BY <1>8, <2>4, Learning DEF DropWeak, AcquireRelease
    <3>2. weak_count[b] > 0 /\ Cardinality(At("destroy", b)) = 0
      BY <1>3, <2>1 DEF Held
    <3>3. /\ At("destroy", b) = {} /\ At("dispose", b) \subseteq aware
          /\ use_count[b] > 0 => OwnersKnow(b)
          /\ object[b] # "none"
          /\ object[b] = "disposed" => ObserversKnow(b)
      BY <1>3, <2>4, <3>2, FS_EmptySet, SharedPtrAssumption DEF Known
    <3>4. /\ At("dispose", b)' = At("dispose", b) /\ At("destroy", b)' \subseteq {t}
          /\ weak_count[b] # 1 => At("destroy", b)' = {}
          /\ At("dropWeak", b) \subseteq At("dropWeak", b)' \cup {t}
          /\ At("dropUse", b)' = At("dropUse", b)
      BY <2>1, <3>3 DEF At
    <3>5. use_count[b] > 0 => OwnersKnow(b)'
      BY <1>2, <2>1, <3>3, <3>4, OthersKnow
    <3>6. CASE weak_count[b] = 1
      <4>1. /\ Cardinality(Observers(b)) = 0
            /\ Cardinality(At("dropWeak", b)) <= 1
            /\ use_count[b] = 0 /\ Cardinality(At("dispose", b)) = 0
        BY <1>3, <2>1, <3>6 DEF Held
      <4>2. object[b] = "disposed"
        BY <1>3, <3>3, <4>1 DEF Held, TypeOK
      <4>3. t \in At("dropWeak", b)
        BY <2>1 DEF At
      <4>4. Observers(b) = {} /\ At("dropWeak", b) = {t} /\ At("dispose", b) = {}
        BY <1>3, <4>1, <4>3, Alone, Finite, FS_EmptySet
      <4>5. t \in aware'
        BY <3>1, <3>3, <4>2, <4>4 DEF ObserversKnow
      <4> QED BY <2>1, <2>4, <3>3, <3>4, <3>5, <3>6, <4>4, <4>5 DEF Known
    <3>7. CASE weak_count[b] # 1
      <4>1. object[b] = "disposed" => ObserversKnow(b)'
        BY <1>2, <2>1, <3>1, <3>3, <3>4 DEF ObserversKnow
      <4> QED BY <2>1, <2>4, <3>3, <3>4, <3>5, <3>7, <4>1 DEF Known
    <3> QED BY <3>6, <3>7
  <2> QED BY <2>2, <2>3, <2>4
<1>9. CASE Destroy(t)
  <2>1. /\ use_count' = use_count /\ weak_count' = weak_count
        /\ ref'[t] = Null
        /\ \A u \in Threads \ {t} : pc'[u] = pc[u] /\ ref'[u] = ref[u]
        /\ \A x \in Blocks \ {b} : object'[x] = object[x]
    BY <1>9 DEF Destroy, Drops, counters, TypeOK
  <2>2. CASE c = b
    BY <1>9, <2>2 DEF Destroy, Known
  <2>3. CASE c # b
    <3>1. traced' = traced /\ aware' = aware
      BY <1>9, <2>3 DEF Destroy, trace
    <3>2. CASE c = Null
      BY <3>1, <3>2 DEF Known
    <3>3. CASE c # Null
      BY <1>5, <2>1, <2>3, <3>1, <3>3 DEF TypeOK
    <3> QED BY <3>2, <3>3
  <2> QED BY <2>2, <2>3
<1> QED BY <1>6, <1>7, <1>8, <1>9 DEF Release

\* Every step keeps what is known of the access.
LEMMA KnownStep ==
  ASSUME TypeOK, \A b \in Blocks : Held(b), Known, Next
  PROVE  Known'
BY KnownShared, KnownWeak, KnownLock, KnownRelease DEF Next

----------------------------------------------------------------------------
LEMMA IInit == Init => IInv
<1> SUFFICES ASSUME Init PROVE IInv
  OBVIOUS
<1> USE DEF Init
<1>1. TypeOK
  BY DEF TypeOK
<1>2. ASSUME NEW b \in Blocks PROVE Held(b)
  <2>1. Owners(b) = {} /\ Observers(b) = {}
    BY SharedPtrAssumption DEF Owners, Observers
  <2>2. \A step \in {"dropUse", "dispose", "dropWeak", "destroy"} : At(step, b) = {}
    BY DEF At
  <2> QED BY <2>1, <2>2, FS_EmptySet DEF Held
<1>3. LockHolds /\ Known
  BY DEF LockHolds, Known
<1> QED BY <1>1, <1>2, <1>3 DEF IInv

LEMMA IStep == IInv /\ [Next]_vars => IInv'
<1> SUFFICES ASSUME IInv, [Next]_vars PROVE IInv'
  OBVIOUS
<1>1. CASE Next
  <2>1. TypeOK' /\ LockHolds' /\ Known'
    BY <1>1, TypeStep, LockStep, KnownStep DEF IInv
  <2>2. (\A b \in Blocks : Held(b))'
    BY <1>1, HeldStep DEF IInv
  <2> QED BY <2>1, <2>2 DEF IInv
<1>2. CASE UNCHANGED vars
  <2>1. /\ sp' = sp /\ wp' = wp /\ use_count' = use_count /\ weak_count' = weak_count
        /\ object' = object /\ pc' = pc /\ ref' = ref /\ traced' = traced /\ aware' = aware
        /\ weak' = weak /\ target' = target /\ count' = count
    BY <1>2 DEF vars, handles, counters, locals, trace
  <2>2. /\ \A b : Owners(b)' = Owners(b) /\ Observers(b)' = Observers(b)
        /\ \A step, b : At(step, b)' = At(step, b)
    BY <2>1, Same
  <2>3. TypeOK' /\ LockHolds'
    BY <2>1 DEF IInv, TypeOK, LockHolds
  <2>4. ASSUME NEW b \in Blocks PROVE Held(b)'
    <3>1. /\ OwnersOf(b)' = OwnersOf(b) /\ ObserversOf(b)' = ObserversOf(b)
          /\ Still(b) /\ Held(b)
      BY <2>1, <2>2 DEF OwnersOf, ObserversOf, Still, IInv
    <3> QED BY <3>1, HeldStill
  <2>5. Known'
    <3> PICK c : c = traced
      OBVIOUS
    <3>1. /\ OwnersKnow(c) => OwnersKnow(c)'
          /\ ObserversKnow(c) => ObserversKnow(c)'
      BY <2>1, <2>2, OthersKnow
    <3>2. Known
      BY DEF IInv
    <3>3. c # Null => At("dispose", c)' \cup At("destroy", c)' \subseteq aware'
      BY <2>1, <2>2, <3>2 DEF Known
    <3> QED BY <2>1, <3>1, <3>2, <3>3, KnownKept
  <2> QED BY <2>3, <2>4, <2>5 DEF IInv
<1> QED BY <1>1, <1>2

LEMMA Invariance == Spec => []IInv
BY IInit, IStep, PTL DEF Spec

\* The types, for any number of threads, handles and blocks: in particular no
\* decrement takes a counter below zero, and what a thread is about to release is
\* a block.
THEOREM TypeCorrect == Spec => []TypeOK
<1>1. IInv => TypeOK
  BY DEF IInv
<1> QED BY <1>1, Invariance, PTL

\* At every moment both counters say what they stand for: use_count the handles
\* and temporaries that own the object, weak_count those that observe it and one
\* for all the owners together (shared_ptr.h:34, 61-76).
THEOREM CountersExact == Spec => []CountsExact
<1>1. IInv => CountsExact
  <2> SUFFICES ASSUME IInv, NEW b \in Blocks
               PROVE  /\ use_count[b] = Cardinality(Owners(b)) + Cardinality(At("dropUse", b))
                      /\ weak_count[b] = Cardinality(Observers(b)) + Cardinality(At("dropWeak", b))
                           + IF use_count[b] > 0 \/ At("dispose", b) # {} THEN 1 ELSE 0
    BY DEF IInv, CountsExact
  <2>1. At("dispose", b) # {} <=> Cardinality(At("dispose", b)) > 0
    BY Finite, Numbers, FS_EmptySet
  <2> QED BY <2>1 DEF IInv, Held
<1> QED BY <1>1, Invariance, PTL

\* Whatever a handle or a thread can still reach exists; the deleter runs once, on
\* a live object, and delete on a block nobody can reach (shared_ptr.h:65-67, 75).
THEOREM NothingFreedInUse == Spec => []NoUseAfterFree
<1>1. IInv => NoUseAfterFree
  <2> SUFFICES ASSUME IInv PROVE NoUseAfterFree
    OBVIOUS
  <2> USE DEF IInv
  <2>1. ASSUME NEW b \in Blocks
        PROVE  /\ use_count[b] > 0 => object[b] = "alive"
               /\ weak_count[b] > 0 => object[b] # "none"
               /\ use_count[b] \in Nat /\ weak_count[b] \in Nat
    BY Numbers DEF Held, TypeOK
  <2>2. ASSUME NEW h \in SharedPtrs, sp[h] # Null PROVE object[sp[h]] = "alive"
    BY <2>1, <2>2, Holding DEF TypeOK
  <2>3. ASSUME NEW h \in WeakPtrs, wp[h] # Null PROVE object[wp[h]] # "none"
    BY <2>1, <2>3, Holding DEF TypeOK
  <2>4. ASSUME NEW t \in Threads, pc[t] # "idle"
        PROVE  /\ pc[t] \in {"dropUse", "dispose"} => object[ref[t]] = "alive"
               /\ pc[t] \in {"cas", "dropWeak"} => object[ref[t]] # "none"
               /\ pc[t] = "dispose" => Owners(ref[t]) = {} /\ At("dispose", ref[t]) = {t}
               /\ pc[t] = "destroy" =>
                    /\ object[ref[t]] = "disposed"
                    /\ Observers(ref[t]) = {}
                    /\ \A u \in Threads \ {t} : pc[u] # "idle" => ref[u] # ref[t]
    <3> PICK b \in Blocks : b = ref[t]
      BY <2>4 DEF TypeOK
    <3>1. /\ \A step : Cardinality(At(step, b)) \in Nat /\ IsFiniteSet(At(step, b))
          /\ Cardinality(Owners(b)) \in Nat /\ Cardinality(Observers(b)) \in Nat
          /\ IsFiniteSet(Owners(b)) /\ IsFiniteSet(Observers(b))
          /\ Cardinality(At(pc[t], b)) > 0
          /\ \A u \in Threads : ref[u] = b => Cardinality(At(pc[u], b)) > 0
          /\ Held(b)
      BY Numbers, Finite, Present
    <3>2. CASE pc[t] = "dropUse"
      BY <2>1, <3>2, Holding
    <3>3. CASE pc[t] = "dropWeak"
      BY <2>1, <3>3, Holding
    <3>4. CASE pc[t] = "cas"
      <4>1. wp[weak[t]] = b /\ weak[t] \in WeakPtrs
        BY <3>4 DEF LockHolds, TypeOK
      <4> QED BY <2>3, <3>4, <4>1, SharedPtrAssumption
    <3>5. CASE pc[t] = "dispose"
      <4>1. /\ object[b] = "alive" /\ use_count[b] = 0
            /\ Cardinality(At("dispose", b)) <= 1
        BY <3>1, <3>5 DEF Held
      <4>2. Cardinality(Owners(b)) = 0
        BY <3>1, <4>1 DEF Held
      <4>3. t \in At("dispose", b)
        BY <3>5 DEF At
      <4>4. Owners(b) = {} /\ At("dispose", b) = {t}
        BY <3>1, <4>1, <4>2, <4>3, Alone, FS_EmptySet
      <4> QED BY <3>5, <4>1, <4>4
    <3>6. CASE pc[t] = "destroy"
      <4>1. weak_count[b] = 0 /\ Cardinality(At("destroy", b)) <= 1
        BY <3>1, <3>6 DEF Held
      <4>2. /\ Cardinality(Observers(b)) = 0 /\ Cardinality(At("dropWeak", b)) = 0
            /\ ~(use_count[b] > 0) /\ Cardinality(At("dispose", b)) = 0
        BY <3>1, <4>1 DEF Held
      <4>3. Cardinality(At("dropUse", b)) = 0
        BY <2>1, <3>1, <4>2 DEF Held
      <4>4. object[b] = "disposed"
        BY <3>1, <3>6, <4>1, <4>2 DEF Held, TypeOK
      <4>5. Observers(b) = {}
        BY <3>1, <4>2, FS_EmptySet
      <4>6. At("destroy", b) = {t}
        <5>1. t \in At("destroy", b)
          BY <3>6 DEF At
        <5> QED BY <3>1, <4>1, <5>1, Alone
      <4>7. ASSUME NEW u \in Threads \ {t}, pc[u] # "idle", ref[u] = b PROVE FALSE
        <5>1. CASE pc[u] = "cas"
          <6>1. weak[u] \in Observers(b)
            BY <4>7, <5>1 DEF LockHolds, TypeOK, Observers
          <6> QED BY <4>5, <6>1
        <5>2. CASE pc[u] = "destroy"
          BY <4>6, <4>7, <5>2 DEF At
        <5>3. CASE pc[u] \in {"dropUse", "dropWeak", "dispose"}
          BY <3>1, <4>2, <4>3, <4>7, <5>3
        <5> QED BY <4>7, <5>1, <5>2, <5>3 DEF TypeOK
      <4> QED BY <3>6, <4>4, <4>5, <4>7
    <3> QED BY <2>4, <3>2, <3>3, <3>4, <3>5, <3>6 DEF TypeOK
  <2> QED BY <2>2, <2>3, <2>4 DEF NoUseAfterFree
<1> QED BY <1>1, Invariance, PTL

\* No object and no block is lost: one that exists is held by a handle, or is on
\* its way out in some thread.
THEOREM NothingLost == Spec => []NoLeak
<1>1. IInv => NoLeak
  <2> SUFFICES ASSUME IInv, NEW b \in Blocks
               PROVE  /\ object[b] = "alive" =>
                           Owners(b) \cup At("dropUse", b) \cup At("dispose", b) # {}
                      /\ object[b] # "none" =>
                           Owners(b) \cup Observers(b)
                             \cup At("dropUse", b) \cup At("dispose", b)
                             \cup At("dropWeak", b) \cup At("destroy", b) # {}
    BY DEF NoLeak
  <2>1. /\ Held(b) /\ use_count[b] \in Nat /\ weak_count[b] \in Nat
        /\ \A step : Cardinality(At(step, b)) \in Nat
        /\ Cardinality(Owners(b)) \in Nat /\ Cardinality(Observers(b)) \in Nat
    BY Numbers DEF IInv, TypeOK
  <2>2. ASSUME Owners(b) = {}, At("dropUse", b) = {}, At("dispose", b) = {}
        PROVE  object[b] # "alive"
    <3>1. /\ Cardinality(Owners(b)) = 0 /\ Cardinality(At("dropUse", b)) = 0
          /\ Cardinality(At("dispose", b)) = 0
      BY <2>2, FS_EmptySet
    <3> QED BY <2>1, <3>1 DEF Held
  <2>3. ASSUME Owners(b) = {}, Observers(b) = {}, At("dropUse", b) = {}, At("dispose", b) = {},
               At("dropWeak", b) = {}, At("destroy", b) = {}
        PROVE  object[b] = "none"
    <3>1. /\ Cardinality(Owners(b)) = 0 /\ Cardinality(At("dropUse", b)) = 0
          /\ Cardinality(At("dispose", b)) = 0
          /\ Cardinality(Observers(b)) = 0 /\ Cardinality(At("dropWeak", b)) = 0
          /\ Cardinality(At("destroy", b)) = 0
      BY <2>3, FS_EmptySet
    <3> QED BY <2>1, <3>1 DEF Held
  <2> QED BY <2>2, <2>3
<1> QED BY <1>1, Invariance, PTL

\* What an owner did with the object happens before the deleter, and what the
\* deleter did before the delete of the block, whichever threads run them: the
\* acq_rel operations on the counters suffice (shared_ptr.h:36-46, 55-57, 64, 70).
THEOREM UsesBeforeDispose == Spec => []DisposedAfterUses
<1>1. IInv => DisposedAfterUses
  <2> SUFFICES ASSUME IInv, NEW t \in Threads, pc[t] \in {"dispose", "destroy"}, ref[t] = traced
               PROVE  t \in aware
    BY DEF DisposedAfterUses
  <2>1. ref[t] \in Blocks
    BY DEF IInv, TypeOK
  <2>2. t \in At("dispose", traced) \cup At("destroy", traced)
    BY DEF At
  <2> QED BY <2>1, <2>2, SharedPtrAssumption DEF IInv, Known
<1> QED BY <1>1, Invariance, PTL

\* expired () is final: no step takes use_count of a block that exists from zero,
\* whatever value a lock () has seen (weak_ptr.h:134-138, shared_ptr.h:48-59).
THEOREM ExpiredIsFinal == Spec => NoResurrection
<1>1. IInv /\ [Next]_vars =>
        [\A b \in Blocks : object[b] # "none" /\ use_count[b] = 0 => use_count'[b] = 0]_vars
  <2> SUFFICES ASSUME IInv, Next, NEW b \in Blocks, object[b] # "none", use_count[b] = 0
               PROVE  use_count'[b] = 0
    OBVIOUS
  <2>1. /\ \A h \in SharedPtrs : sp[h] # b
        /\ \A t \in Threads : pc[t] = "dropUse" => ref[t] # b
    BY Holding DEF IInv
  <2>2. ASSUME NEW t \in Threads, NEW h \in SharedPtrs, NEW x \in Blocks, MakeShared(t, h, x)
        PROVE  use_count'[b] = use_count[b]
    BY <2>2 DEF MakeShared, IInv, TypeOK
  <2>3. ASSUME NEW t \in Threads, NEW from \in SharedPtrs, NEW to \in SharedPtrs,
               CopyShared(t, from, to)
        PROVE  use_count'[b] = use_count[b]
    BY <2>1, <2>3 DEF CopyShared, Increment, IInv, TypeOK
  <2>4. ASSUME NEW t \in Threads, LockCas(t) PROVE use_count'[b] = use_count[b]
    <3>1. CASE CasSucceeds(t)
      <4>1. use_count[ref[t]] > 0
        BY <2>4, <3>1 DEF CasSucceeds, Unchanged, LockCas, IInv, TypeOK
      <4> QED BY <3>1, <4>1 DEF CasSucceeds, IInv, TypeOK
    <3>2. CASE CasRetries(t) \/ CasExpired(t)
      BY <3>2 DEF CasRetries, CasExpired, counters
    <3> QED BY <2>4, <3>1, <3>2 DEF LockCas
  <2>5. ASSUME NEW t \in Threads, Release(t) PROVE use_count'[b] = use_count[b]
    BY <2>1, <2>5 DEF Release, DropUse, Dispose, DropWeak, Destroy, counters, IInv, TypeOK
  <2>6. ASSUME use_count' = use_count PROVE use_count'[b] = use_count[b]
    BY <2>6
  <2> QED
    BY <2>2, <2>3, <2>4, <2>5, <2>6
       DEF Next, MoveShared, SwapShared, ResetShared, WeakFromShared, CopyWeak, AssignWeak,
           MoveWeak, SwapWeak, ResetWeak, LockLoad, LockExpired, Use, counters
<1> QED BY <1>1, Invariance, PTL DEF Spec, NoResurrection
============================================================================
