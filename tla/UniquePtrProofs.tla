--------------------------- MODULE UniquePtrProofs ---------------------------
(***************************************************************************)
(* Proofs about UniquePtr, for any number of variables, objects and        *)
(* deleters, whatever the destructors of the objects do.  OwnedOnce counts *)
(* owners; the inductive invariant says it with the handles themselves:    *)
(* no two usable handles lead to the same object, what one leads to is     *)
(* alive and under the deleter of that handle, and the objects on the      *)
(* stack are those in their destructors, each once and with its deleter.   *)
(***************************************************************************)
EXTENDS UniquePtr, FiniteSetTheorems, SequenceTheorems, TLAPS

Sole == \A h, k \in Usable : ptr[h] # None /\ ptr[h] = ptr[k] => h = k

Live ==
  \A h \in Usable : ptr[h] # None =>
    object[ptr[h]] = "alive" /\ ptr[h] \notin raw /\ deleter[h] = due[ptr[h]]

\* An object that is alive is not lost, and one that was released is alive.
Reached ==
  /\ \A o \in Objects : object[o] = "alive" => o \in raw \/ \E h \in Usable : ptr[h] = o
  /\ \A o \in raw : object[o] = "alive"

\* The next object at an address starts with an empty member.
Fresh == \A o \in Objects : object[o] = "none" => ptr[o] = None

Owned == Sole /\ Live /\ Reached /\ Fresh

InDestructor(o) == object[o] \in {"dying", "leaving"}

StackSound ==
  /\ \A i \in DOMAIN stack :
       InDestructor(stack[i].object) /\ stack[i].deleter = due[stack[i].object]
  /\ \A i, j \in DOMAIN stack : stack[i].object = stack[j].object => i = j
  /\ \A o \in Objects : InDestructor(o) => \E i \in DOMAIN stack : stack[i].object = o

IInv == TypeOK /\ Owned /\ StackSound

----------------------------------------------------------------------------
\* What is appended comes last, and what was there stays in place.
LEMMA Pushed ==
  ASSUME NEW S, NEW s \in Seq(S), NEW e \in S
  PROVE  /\ Append(s, e) \in Seq(S) /\ Len(s) \in Nat
         /\ DOMAIN Append(s, e) = DOMAIN s \cup {Len(s) + 1}
         /\ DOMAIN s = 1 .. Len(s)
         /\ \A i \in DOMAIN s : Append(s, e)[i] = s[i]
         /\ Append(s, e)[Len(s) + 1] = e
BY AppendProperties, LenProperties

LEMMA Elements ==
  ASSUME NEW S, NEW s \in Seq(S), NEW i \in DOMAIN s
  PROVE  s[i] \in S
BY ElementOfSeq, LenProperties

LEMMA Popped ==
  ASSUME NEW S, NEW s \in Seq(S), s # <<>>
  PROVE  /\ SubSeq(s, 1, Len(s) - 1) \in Seq(S)
         /\ Len(s) \in DOMAIN s
         /\ DOMAIN SubSeq(s, 1, Len(s) - 1) = DOMAIN s \ {Len(s)}
         /\ \A i \in DOMAIN s \ {Len(s)} : SubSeq(s, 1, Len(s) - 1)[i] = s[i]
<1>1. Len(s) \in Nat /\ Len(s) > 0 /\ DOMAIN s = 1 .. Len(s)
  BY LenProperties, EmptySeq
<1>2. /\ SubSeq(s, 1, Len(s) - 1) \in Seq(S)
      /\ Len(SubSeq(s, 1, Len(s) - 1)) = Len(s) - 1
      /\ \A i \in 1 .. Len(s) - 1 : SubSeq(s, 1, Len(s) - 1)[i] = s[i]
  BY <1>1, SubSeqProperties
<1>3. DOMAIN SubSeq(s, 1, Len(s) - 1) = 1 .. Len(s) - 1
  BY <1>2, LenProperties
<1> QED BY <1>1, <1>2, <1>3

Frames == [object : Objects, deleter : AnyDeleter]

\* The destruction of a handle that held the object o, or nothing, keeps the stack
\* sound if o was alive and under the deleter d, and no other object enters or
\* leaves its destructor.
LEMMA StackPush ==
  ASSUME TypeOK, StackSound, NEW o \in Objects \cup {None}, NEW d \in AnyDeleter,
         o # None => object[o] = "alive" /\ d = due[o] /\ InDestructor(o)',
         stack' = Destroying(o, d),
         \A p \in Objects : p # o => (InDestructor(p)' <=> InDestructor(p)),
         \A p \in Objects : InDestructor(p)' => due'[p] = due[p]
  PROVE  StackSound' /\ stack' \in Seq(Frames)
<1>1. CASE o = None
  <2>1. stack' = stack /\ stack \in Seq(Frames)
    BY <1>1 DEF Destroying, TypeOK, Frames
  <2>2. \A p \in Objects : InDestructor(p)' <=> InDestructor(p)
    BY <1>1, UniquePtrAssumption
  <2>3. \A i \in DOMAIN stack : stack[i].object \in Objects
    <3>1. \A i \in DOMAIN stack : stack[i] \in Frames
      BY <2>1, Elements
    <3> QED BY <3>1 DEF Frames
  <2> QED BY <2>1, <2>2, <2>3 DEF StackSound
<1>2. CASE o # None
  <2> DEFINE e == [object |-> o, deleter |-> d]
             n == Len(stack) + 1
  <2>1. /\ o \in Objects /\ e \in Frames /\ stack \in Seq(Frames) /\ stack' = Append(stack, e)
        /\ e.object = o /\ e.deleter = d
    BY <1>2 DEF Destroying, TypeOK, Frames
  <2> HIDE DEF e
  <2>2. /\ stack' \in Seq(Frames) /\ DOMAIN stack' = DOMAIN stack \cup {n}
        /\ \A i \in DOMAIN stack : stack'[i] = stack[i] /\ i # n
        /\ stack'[n] = e
    BY <2>1, Pushed
  <2> HIDE DEF n
  <2>3. ~InDestructor(o)
    BY <1>2 DEF InDestructor
  <2>4. \A i \in DOMAIN stack :
          stack[i].object \in Objects /\ InDestructor(stack[i].object) /\ stack[i].object # o
    <3>1. \A i \in DOMAIN stack : stack[i] \in Frames
      BY <2>1, Elements
    <3> QED BY <2>3, <3>1 DEF Frames, StackSound
  <2>5. ASSUME NEW i \in DOMAIN stack'
        PROVE  /\ object'[stack'[i].object] \in {"dying", "leaving"}
               /\ stack'[i].deleter = due'[stack'[i].object]
    <3>1. CASE i \in DOMAIN stack
      <4> PICK p \in Objects : p = stack[i].object
        BY <2>4, <3>1
      <4>1. p # o /\ InDestructor(p) /\ stack[i].deleter = due[p]
        BY <2>4, <3>1 DEF StackSound
      <4>2. object'[p] \in {"dying", "leaving"} /\ due'[p] = due[p]
        BY <4>1 DEF InDestructor
      <4> QED BY <2>2, <3>1, <4>1, <4>2
    <3>2. CASE i = n
      <4>1. object'[o] \in {"dying", "leaving"} /\ due'[o] = due[o]
        BY <1>2, <2>1 DEF InDestructor
      <4> QED BY <1>2, <2>1, <2>2, <3>2, <4>1
    <3> QED BY <2>2, <3>1, <3>2
  <2>6. ASSUME NEW i \in DOMAIN stack', NEW j \in DOMAIN stack', stack'[i].object = stack'[j].object
        PROVE  i = j
    BY <2>1, <2>2, <2>4, <2>6 DEF StackSound
  <2>7. ASSUME NEW p \in Objects, InDestructor(p)'
        PROVE  \E i \in DOMAIN stack' : stack'[i].object = p
    BY <2>1, <2>2, <2>7 DEF StackSound
  <2>8. StackSound'
    BY <2>5, <2>6, <2>7 DEF StackSound, InDestructor
  <2> QED BY <2>2, <2>8
<1> QED BY <1>1, <1>2

\* Nothing is said of the stack by a step that leaves it and the destructors alone.
LEMMA StackSame ==
  ASSUME TypeOK, StackSound, stack' = stack,
         \A p \in Objects : InDestructor(p)' <=> InDestructor(p),
         \A p \in Objects : InDestructor(p)' => due'[p] = due[p]
  PROVE  StackSound' /\ stack' \in Seq(Frames)
<1>1. None \in Objects \cup {None} /\ Default \in AnyDeleter /\ stack' = Destroying(None, Default)
  BY DEF Destroying, AnyDeleter
<1> QED BY <1>1, StackPush, UniquePtrAssumption

\* What the handles are.
LEMMA UsableHandles == TypeOK => Usable \subseteq Handles /\ born \subseteq Handles
BY DEF TypeOK, Usable, Handles

----------------------------------------------------------------------------
(***************************************************************************)
(* Each operation keeps the invariant.                                     *)
(***************************************************************************)
LEMMA Constructs ==
  ASSUME IInv, NEW v \in Variables,
         \/ \E o \in Objects, d \in Deleters \cup {Default} : Construct(v, o, d)
         \/ ConstructEmpty(v)
  PROVE  IInv'
<1> USE UniquePtrAssumption DEF IInv, TypeOK, Handles
<1>1. ASSUME NEW o \in Objects, NEW d \in Deleters \cup {Default}, Construct(v, o, d)
      PROVE  IInv'
  <2>1. /\ object' = [object EXCEPT ![o] = "alive"] /\ born' = born \cup {v}
        /\ ptr' = [ptr EXCEPT ![v] = o] /\ deleter' = [deleter EXCEPT ![v] = d]
        /\ due' = [due EXCEPT ![o] = d] /\ raw' = raw \ {o} /\ stack' = stack
        /\ v \notin Usable /\ v # o /\ o # None
    BY <1>1 DEF Construct, Usable
  <2>2. Usable' = Usable \cup {v, o}
    BY <1>1, <2>1 DEF Usable
  <2>3. \/ o \in raw /\ object[o] = "alive"
        \/ object[o] = "none" /\ o \notin Usable /\ ptr[o] = None
    BY <1>1 DEF Construct, Usable, Owned, Reached, Fresh
  <2>4. StackSound' /\ stack' \in Seq(Frames)
    BY <2>1, <2>3, StackSame DEF InDestructor
  <2>5. TypeOK'
    BY <2>1, <2>4 DEF Frames, AnyDeleter
  <2>6. \A h \in Usable' :
           \/ h = v /\ ptr'[h] = o /\ deleter'[h] = d
           \/ h # v /\ ptr'[h] = ptr[h] /\ deleter'[h] = deleter[h]
                   /\ (ptr[h] # None => h \in Usable /\ ptr[h] # o)
    <3>1. \A h \in Usable : ptr[h] # None => ptr[h] # o
      BY <2>3 DEF Owned, Live
    <3>2. \A h \in Usable' : h \in Handles /\ (h \in Usable \/ h = v \/ h = o)
      BY <2>2, UsableHandles
    <3>3. ptr'[v] = o /\ deleter'[v] = d
      BY <2>1
    <3>4. \A h \in Handles : h # v => ptr'[h] = ptr[h] /\ deleter'[h] = deleter[h]
      BY <2>1
    <3>5. o \in Usable \/ ptr[o] = None
      BY <2>3 DEF Usable
    <3> QED BY <3>1, <3>2, <3>3, <3>4, <3>5
  <2>7. Sole'
    BY <2>6 DEF Owned, Sole
  <2>8. Live'
    BY <2>1, <2>6 DEF Owned, Live
  <2>9. Reached'
    <3>1. \A h \in Usable : ptr'[h] = ptr[h] /\ h \in Usable'
      BY <2>1, <2>2, UsableHandles
    <3>2. ptr'[v] = o /\ v \in Usable'
      BY <2>1, <2>2
    <3> QED BY <2>1, <3>1, <3>2 DEF Owned, Reached
  <2>10. Fresh'
    BY <2>1 DEF Owned, Fresh
  <2> QED BY <2>4, <2>5, <2>7, <2>8, <2>9, <2>10 DEF Owned
<1>2. CASE ConstructEmpty(v)
  <2>1. /\ v \notin Usable /\ Usable' = Usable \cup {v}
        /\ ptr' = [ptr EXCEPT ![v] = None] /\ deleter' = [deleter EXCEPT ![v] = Default]
        /\ object' = object /\ due' = due /\ raw' = raw /\ stack' = stack
    BY <1>2 DEF ConstructEmpty, Usable
  <2>2. StackSound' /\ stack' \in Seq(Frames)
    BY <2>1, StackSame DEF InDestructor
  <2>3. TypeOK'
    BY <1>2, <2>2 DEF ConstructEmpty, Frames, AnyDeleter
  <2>4. Sole' /\ Live'
    BY <2>1 DEF Owned, Sole, Live
  <2>5. Reached' /\ Fresh'
    BY <2>1 DEF Owned, Reached, Fresh
  <2> QED BY <2>2, <2>3, <2>4, <2>5 DEF Owned
<1> QED BY <1>1, <1>2

LEMMA MoveConstructs ==
  ASSUME IInv, NEW from \in Handles, NEW v \in Variables, MoveConstruct(from, v)
  PROVE  IInv'
<1> USE UniquePtrAssumption DEF IInv, TypeOK, Handles
<1>1. /\ v \notin Usable /\ Usable' = Usable \cup {v} /\ from \in Usable /\ from # v
      /\ ptr' = [ptr EXCEPT ![v] = ptr[from], ![from] = None]
      /\ deleter' = [deleter EXCEPT ![v] = deleter[from], ![from] = "moved"]
      /\ object' = object /\ due' = due /\ raw' = raw /\ stack' = stack
  BY DEF MoveConstruct, Usable
<1>2. StackSound' /\ stack' \in Seq(Frames)
  BY <1>1, StackSame DEF InDestructor
<1>3. TypeOK'
  BY <1>1, <1>2 DEF MoveConstruct, Frames, AnyDeleter
<1>4. /\ ptr'[v] = ptr[from] /\ ptr'[from] = None /\ deleter'[v] = deleter[from]
      /\ \A x \in Handles \ {v, from} : ptr'[x] = ptr[x] /\ deleter'[x] = deleter[x]
      /\ Usable \subseteq Handles
  BY <1>1, UsableHandles
<1>5. ASSUME NEW h \in Usable', NEW k \in Usable', ptr'[h] # None, ptr'[h] = ptr'[k]
      PROVE  h = k
  <2>1. \A x, y \in Usable : ptr[x] # None /\ ptr[x] = ptr[y] => x = y
    BY DEF Owned, Sole
  <2> QED BY <1>1, <1>4, <1>5, <2>1
<1>6. ASSUME NEW h \in Usable', ptr'[h] # None
      PROVE  object[ptr'[h]] = "alive" /\ ptr'[h] \notin raw /\ deleter'[h] = due[ptr'[h]]
  <2>1. PICK g \in Usable : ptr[g] = ptr'[h] /\ deleter[g] = deleter'[h]
    BY <1>1, <1>4, <1>6
  <2>2. object[ptr[g]] = "alive" /\ ptr[g] \notin raw /\ deleter[g] = due[ptr[g]]
    BY <1>6, <2>1 DEF Owned, Live
  <2> QED BY <2>1, <2>2
<1>7. ASSUME NEW o \in Objects, object[o] = "alive", o \notin raw
      PROVE  \E h \in Usable' : ptr'[h] = o
  <2>1. PICK g \in Usable : ptr[g] = o
    BY <1>7 DEF Owned, Reached
  <2>2. CASE g = from
    BY <1>1, <1>4, <2>1, <2>2
  <2>3. CASE g # from
    BY <1>1, <1>4, <2>1, <2>3
  <2> QED BY <2>2, <2>3
<1>8. ASSUME NEW o \in Objects, object[o] = "none"
      PROVE  ptr'[o] = None
  BY <1>4, <1>8 DEF Owned, Fresh
<1>9. object' = object /\ due' = due /\ raw' = raw
  BY <1>1
<1>10. Sole'
  BY <1>5 DEF Sole
<1>11. Live'
  BY <1>6, <1>9 DEF Live
<1>12. Reached'
  BY <1>7, <1>9 DEF Owned, Reached
<1>13. Fresh'
  BY <1>8, <1>9 DEF Fresh
<1> QED BY <1>2, <1>3, <1>10, <1>11, <1>12, <1>13 DEF Owned

LEMMA Destructs ==
  ASSUME IInv, NEW v \in Variables, Destruct(v)
  PROVE  IInv'
<1> USE UniquePtrAssumption DEF IInv, TypeOK, Handles
<1>1. /\ v \in Usable /\ Usable' = Usable \ {v}
      /\ ptr' = ptr /\ deleter' = deleter /\ due' = due /\ raw' = raw
      /\ object' = IF ptr[v] = None THEN object ELSE [object EXCEPT ![ptr[v]] = "dying"]
      /\ stack' = Destroying(ptr[v], deleter[v])
      /\ ptr[v] \in Objects \cup {None} /\ deleter[v] \in AnyDeleter
      /\ ptr[v] # None => object[ptr[v]] = "alive" /\ deleter[v] = due[ptr[v]]
  BY DEF Destruct, Usable, Enters, Owned, Live
<1>2. StackSound' /\ stack' \in Seq(Frames)
  BY <1>1, StackPush DEF InDestructor
<1>3. TypeOK'
  BY <1>1, <1>2 DEF Destruct, Frames
<1>4. Sole' /\ Live'
  BY <1>1 DEF Owned, Sole, Live
<1>5. Reached' /\ Fresh'
  BY <1>1 DEF Owned, Live, Reached, Fresh
<1> QED BY <1>2, <1>3, <1>4, <1>5 DEF Owned

LEMMA MoveAssigns ==
  ASSUME IInv, NEW from \in Handles, NEW to \in Handles, MoveAssign(from, to)
  PROVE  IInv'
<1> USE UniquePtrAssumption DEF IInv, TypeOK, Handles
<1>1. CASE from = to
  <2>1. UNCHANGED vars
    BY <1>1 DEF MoveAssign, vars
  <2> QED BY <2>1 DEF vars, Owned, Sole, Live, Reached, Fresh, StackSound, Usable, InDestructor
<1>2. CASE from # to
  <2>1. /\ from \in Usable /\ to \in Usable /\ Usable' = Usable
        /\ ptr' = [ptr EXCEPT ![to] = ptr[from], ![from] = None]
        /\ deleter' = [deleter EXCEPT ![to] = deleter[from], ![from] = "moved"]
        /\ due' = due /\ raw' = raw /\ born' = born
        /\ object' = IF ptr[to] = None THEN object ELSE [object EXCEPT ![ptr[to]] = "dying"]
        /\ stack' = Destroying(ptr[to], deleter[to])
        /\ ptr[to] \in Objects \cup {None} /\ deleter[to] \in AnyDeleter
        /\ ptr[to] # None => object[ptr[to]] = "alive" /\ deleter[to] = due[ptr[to]]
    BY <1>2 DEF MoveAssign, Usable, Enters, Owned, Live
  <2>2. StackSound' /\ stack' \in Seq(Frames)
    BY <2>1, StackPush DEF InDestructor
  <2>3. TypeOK'
    BY <2>1, <2>2 DEF Frames, AnyDeleter
  <2>4. /\ ptr'[to] = ptr[from] /\ ptr'[from] = None /\ deleter'[to] = deleter[from]
        /\ \A x \in Handles \ {to, from} : ptr'[x] = ptr[x] /\ deleter'[x] = deleter[x]
        /\ Usable \subseteq Handles
        /\ \A p \in Objects : object'[p] = IF p = ptr[to] THEN "dying" ELSE object[p]
    BY <1>2, <2>1, UsableHandles
  <2>5. \A x, y \in Usable : ptr[x] # None /\ ptr[x] = ptr[y] => x = y
    BY DEF Owned, Sole
  <2>6. ASSUME NEW h \in Usable, NEW k \in Usable, ptr'[h] # None, ptr'[h] = ptr'[k]
        PROVE  h = k
    BY <1>2, <2>1, <2>4, <2>5, <2>6
  <2>7. ASSUME NEW h \in Usable, ptr'[h] # None
        PROVE  object'[ptr'[h]] = "alive" /\ ptr'[h] \notin raw /\ deleter'[h] = due[ptr'[h]]
    <3>1. PICK g \in Usable \ {to} : ptr[g] = ptr'[h] /\ deleter[g] = deleter'[h]
      BY <1>2, <2>1, <2>4, <2>7
    <3>2. object[ptr[g]] = "alive" /\ ptr[g] \notin raw /\ deleter[g] = due[ptr[g]]
      BY <2>7, <3>1 DEF Owned, Live
    <3>3. ptr[g] # ptr[to] /\ ptr[g] \in Objects
      BY <2>1, <2>4, <2>5, <2>7, <3>1
    <3> QED BY <2>4, <3>1, <3>2, <3>3
  <2>8. ASSUME NEW o \in Objects, object'[o] = "alive"
        PROVE  o \in raw \/ \E h \in Usable : ptr'[h] = o
    <3>1. object[o] = "alive" /\ o # ptr[to]
      BY <2>4, <2>8
    <3>2. SUFFICES ASSUME o \notin raw PROVE \E h \in Usable : ptr'[h] = o
      OBVIOUS
    <3>3. PICK g \in Usable : ptr[g] = o
      BY <3>1, <3>2 DEF Owned, Reached
    <3>4. CASE g = from
      BY <2>1, <2>4, <3>3, <3>4
    <3>5. CASE g # from
      BY <2>1, <2>4, <3>1, <3>3, <3>5
    <3> QED BY <3>4, <3>5
  <2>9. ASSUME NEW o \in raw
        PROVE  object'[o] = "alive"
    <3>1. o # ptr[to] /\ object[o] = "alive"
      BY <2>1, UniquePtrAssumption DEF Owned, Live, Reached
    <3> QED BY <2>4, <3>1
  <2>10. ASSUME NEW o \in Objects, object'[o] = "none"
         PROVE  ptr'[o] = None
    <3>1. object[o] = "none" /\ ptr[o] = None /\ o \notin Usable
      BY <2>4, <2>10 DEF Owned, Fresh, Usable
    <3> QED BY <2>1, <2>4, <3>1
  <2>11. Usable' = Usable /\ due' = due /\ raw' = raw
    BY <2>1
  <2>12. Sole'
    BY <2>6, <2>11 DEF Sole
  <2>13. Live'
    BY <2>7, <2>11 DEF Live
  <2>14. Reached'
    BY <2>8, <2>9, <2>11 DEF Reached
  <2>15. Fresh'
    BY <2>10 DEF Fresh
  <2> QED BY <2>2, <2>3, <2>12, <2>13, <2>14, <2>15 DEF Owned
<1> QED BY <1>1, <1>2

LEMMA Swaps ==
  ASSUME IInv, NEW one \in Handles, NEW other \in Handles, Swap(one, other)
  PROVE  IInv'
<1> USE UniquePtrAssumption DEF IInv, TypeOK, Handles
<1>1. /\ one \in Usable /\ other \in Usable /\ Usable' = Usable
      /\ ptr' = [ptr EXCEPT ![one] = ptr[other], ![other] = ptr[one]]
      /\ deleter' = [deleter EXCEPT ![one] = deleter[other], ![other] = deleter[one]]
      /\ object' = object /\ due' = due /\ raw' = raw /\ stack' = stack /\ born' = born
  BY DEF Swap, Usable, places
<1>2. StackSound' /\ stack' \in Seq(Frames)
  BY <1>1, StackSame DEF InDestructor
<1>3. TypeOK'
  BY <1>1, <1>2 DEF Frames
<1>4. /\ ptr'[one] = ptr[other] /\ ptr'[other] = ptr[one]
      /\ deleter'[one] = deleter[other] /\ deleter'[other] = deleter[one]
      /\ \A x \in Handles \ {one, other} : ptr'[x] = ptr[x] /\ deleter'[x] = deleter[x]
      /\ Usable \subseteq Handles
  BY <1>1, UsableHandles
<1>5. ASSUME NEW h \in Usable, NEW k \in Usable, ptr'[h] # None, ptr'[h] = ptr'[k]
      PROVE  h = k
  <2>1. \A x, y \in Usable : ptr[x] # None /\ ptr[x] = ptr[y] => x = y
    BY DEF Owned, Sole
  <2> QED BY <1>1, <1>4, <1>5, <2>1
<1>6. ASSUME NEW h \in Usable, ptr'[h] # None
      PROVE  object[ptr'[h]] = "alive" /\ ptr'[h] \notin raw /\ deleter'[h] = due[ptr'[h]]
  <2>1. PICK g \in Usable : ptr[g] = ptr'[h] /\ deleter[g] = deleter'[h]
    BY <1>1, <1>4
  <2>2. object[ptr[g]] = "alive" /\ ptr[g] \notin raw /\ deleter[g] = due[ptr[g]]
    BY <1>6, <2>1 DEF Owned, Live
  <2> QED BY <2>1, <2>2
<1>7. Usable' = Usable /\ object' = object /\ due' = due /\ raw' = raw
  BY <1>1
<1>8. Sole' /\ Live'
  <2>1. Sole'
    BY <1>5, <1>7 DEF Sole
  <2>2. Live'
    BY <1>6, <1>7 DEF Live
  <2> QED BY <2>1, <2>2
<1>9. Reached' /\ Fresh'
  BY <1>1 DEF Owned, Reached, Fresh, Usable
<1> QED BY <1>2, <1>3, <1>8, <1>9 DEF Owned

LEMMA Resets ==
  ASSUME IInv, NEW h \in Handles, NEW o \in Objects \cup {None}, Reset(h, o)
  PROVE  IInv'
<1> USE UniquePtrAssumption DEF IInv, TypeOK, Handles
<1>1. /\ h \in Usable /\ ptr[h] \in Objects \cup {None} /\ deleter[h] \in AnyDeleter
      /\ ptr[h] # None =>
           object[ptr[h]] = "alive" /\ deleter[h] = due[ptr[h]] /\ ptr[h] \notin raw /\ ptr[h] # o
      /\ o # None => o \in Objects /\ (o \in raw \/ object[o] = "none")
      /\ o \in raw => object[o] = "alive"
  BY DEF Reset, Owned, Live, Reached
<1>2. /\ ptr' = [ptr EXCEPT ![h] = o] /\ deleter' = [deleter EXCEPT ![h] = Default]
      /\ stack' = Destroying(ptr[h], deleter[h]) /\ raw' = raw \ {o} /\ born' = born
      /\ \A p \in Objects :
           /\ object'[p] = IF p = o THEN "alive" ELSE IF p = ptr[h] THEN "dying" ELSE object[p]
           /\ due'[p] = IF p = o THEN Default ELSE due[p]
      /\ object' \in [Objects -> {"none", "alive", "dying", "leaving"}]
      /\ due' \in [Objects -> AnyDeleter]
  BY DEF Reset, Replaced, DeleterOfOld, AnyDeleter
<1>3. Usable' = Usable \cup (IF o = None THEN {} ELSE {o})
  BY <1>1, <1>2 DEF Usable
<1>4. o # None /\ o \notin raw => o \notin Usable /\ ptr[o] = None
  BY <1>1 DEF Usable, Owned, Fresh
<1>5. StackSound' /\ stack' \in Seq(Frames)
  BY <1>1, <1>2, StackPush DEF InDestructor
<1>6. TypeOK'
  BY <1>1, <1>2, <1>5 DEF Frames, AnyDeleter
<1>7. /\ ptr'[h] = o /\ deleter'[h] = Default
      /\ \A x \in Handles \ {h} : ptr'[x] = ptr[x] /\ deleter'[x] = deleter[x]
      /\ Usable \subseteq Handles
      /\ \A x \in Usable' : x \in Usable \/ (x \in Objects /\ x = o /\ ptr[x] = None)
  BY <1>1, <1>2, <1>3, <1>4, UsableHandles DEF Usable
<1>8. ASSUME NEW x \in Usable, x # h, ptr[x] # None
       PROVE  /\ ptr[x] \in Objects /\ ptr[x] # o /\ ptr[x] # ptr[h] /\ object[ptr[x]] = "alive"
              /\ ptr[x] \notin raw /\ deleter[x] = due[ptr[x]]
  <2>1. /\ ptr[x] \in Objects /\ object[ptr[x]] = "alive"
        /\ ptr[x] \notin raw /\ deleter[x] = due[ptr[x]]
    BY <1>7, <1>8 DEF Owned, Live
  <2>2. ptr[x] # ptr[h]
    BY <1>1, <1>8 DEF Owned, Sole
  <2> QED BY <1>1, <2>1, <2>2
<1>9. Sole'
  <2>1. ASSUME NEW x \in Usable', NEW y \in Usable', ptr'[x] # None, ptr'[x] = ptr'[y]
        PROVE  x = y
    <3>1. \A z \in Usable' : z \in Handles /\ (ptr'[z] # None => z \in Usable \/ z = h)
      BY <1>1, <1>7
    <3>2. CASE x = h \/ y = h
      BY <1>7, <1>8, <2>1, <3>1, <3>2
    <3>3. CASE x # h /\ y # h
      <4>1. x \in Usable /\ y \in Usable /\ ptr[x] = ptr[y] /\ ptr[x] # None
        BY <1>7, <2>1, <3>1, <3>3
      <4> QED BY <4>1 DEF Owned, Sole
    <3> QED BY <3>2, <3>3
  <2> QED BY <2>1 DEF Sole
<1>10. Live'
  <2>1. ASSUME NEW x \in Usable', ptr'[x] # None
        PROVE  object'[ptr'[x]] = "alive" /\ ptr'[x] \notin raw' /\ deleter'[x] = due'[ptr'[x]]
    <3>1. CASE x = h
      BY <1>1, <1>2, <1>7, <2>1, <3>1
    <3>2. CASE x # h
      <4>1. x \in Usable /\ ptr'[x] = ptr[x] /\ deleter'[x] = deleter[x] /\ ptr[x] # None
        BY <1>7, <2>1, <3>2
      <4> QED BY <1>2, <1>8, <3>2, <4>1
    <3> QED BY <3>1, <3>2
  <2> QED BY <2>1 DEF Live
<1>11. Reached'
  BY <1>1, <1>2, <1>3, <1>4 DEF Owned, Live, Reached
<1>12. Fresh'
  BY <1>1, <1>2, <1>3, <1>4 DEF Owned, Fresh, Usable
<1> QED BY <1>5, <1>6, <1>10, <1>11, <1>12, <1>9 DEF Owned

LEMMA Releases ==
  ASSUME IInv, NEW h \in Handles, Release(h)
  PROVE  IInv'
<1> USE UniquePtrAssumption DEF IInv, TypeOK, Handles
<1>1. /\ h \in Usable /\ Usable' = Usable /\ ptr[h] \in Objects
      /\ ptr' = [ptr EXCEPT ![h] = None] /\ raw' = raw \cup {ptr[h]}
      /\ object' = object /\ due' = due /\ deleter' = deleter /\ stack' = stack /\ born' = born
  BY DEF Release, Usable
<1>2. StackSound' /\ stack' \in Seq(Frames)
  BY <1>1, StackSame DEF InDestructor
<1>3. TypeOK'
  BY <1>1, <1>2 DEF Frames
<1>4. Sole' /\ Live'
  BY <1>1 DEF Owned, Sole, Live
<1>5. Reached' /\ Fresh'
  BY <1>1 DEF Owned, Live, Reached, Fresh
<1> QED BY <1>2, <1>3, <1>4, <1>5 DEF Owned

\* The end of a destructor's body: the member is still owned by the object alone.
LEMMA BodyEndings ==
  ASSUME IInv, BodyEnds
  PROVE  IInv'
<1> USE UniquePtrAssumption DEF IInv, TypeOK, Handles
<1>1. stack \in Seq(Frames) /\ stack # <<>>
  BY DEF BodyEnds, Frames
<1>2. Len(stack) \in DOMAIN stack /\ stack[Len(stack)] \in Frames
  BY <1>1, Popped, Elements
<1> PICK o \in Objects : o = Top
  BY <1>2 DEF Frames, Top
<1>3. /\ object[o] = "dying" /\ o \in Usable
      /\ ptr[o] \in Objects \cup {None} /\ deleter[o] \in AnyDeleter
      /\ ptr[o] # None => object[ptr[o]] = "alive" /\ deleter[o] = due[ptr[o]] /\ ptr[o] # o
  BY DEF BodyEnds, Usable, Owned, Live
<1>4. /\ ptr' = ptr /\ deleter' = deleter /\ due' = due /\ raw' = raw /\ born' = born
      /\ stack' = Destroying(ptr[o], deleter[o])
      /\ \A p \in Objects :
           object'[p] = IF p = o THEN "leaving" ELSE IF p = ptr[o] THEN "dying" ELSE object[p]
      /\ object' \in [Objects -> {"none", "alive", "dying", "leaving"}]
  BY DEF BodyEnds
<1>5. Usable' = Usable \ {o}
  BY <1>3, <1>4 DEF Usable
<1>6. StackSound' /\ stack' \in Seq(Frames)
  BY <1>3, <1>4, StackPush DEF InDestructor
<1>7. TypeOK'
  BY <1>4, <1>6 DEF Frames
<1>8. Sole' /\ Live'
  <2>1. Sole'
    BY <1>4, <1>5 DEF Owned, Sole
  <2>2. ASSUME NEW x \in Usable', ptr[x] # None
        PROVE  object'[ptr[x]] = "alive" /\ ptr[x] \notin raw /\ deleter[x] = due[ptr[x]]
    <3>1. x \in Usable /\ x # o /\ ptr[x] # ptr[o]
      BY <1>3, <1>5, <2>2 DEF Owned, Sole
    <3>2. /\ ptr[x] \in Objects /\ object[ptr[x]] = "alive"
          /\ ptr[x] \notin raw /\ deleter[x] = due[ptr[x]]
      BY <2>2, <3>1, UsableHandles DEF Owned, Live
    <3> QED BY <1>3, <1>4, <3>1, <3>2
  <2>3. ptr' = ptr /\ deleter' = deleter /\ due' = due /\ raw' = raw
    BY <1>4
  <2>4. Live'
    BY <2>2, <2>3 DEF Live
  <2> QED BY <2>1, <2>4
<1>9. Reached' /\ Fresh'
  BY <1>3, <1>4, <1>5 DEF Owned, Live, Reached, Fresh
<1> QED BY <1>6, <1>7, <1>8, <1>9 DEF Owned

\* The end of a deletion: the object's place on the stack was its only one.
LEMMA DeletionEndings ==
  ASSUME IInv, DeletionEnds
  PROVE  IInv'
<1> USE UniquePtrAssumption DEF IInv, TypeOK, Handles
<1> DEFINE n == Len(stack)
<1>1. stack \in Seq(Frames) /\ stack # <<>>
  BY DEF DeletionEnds, Frames
<1>2. /\ n \in DOMAIN stack /\ \A i \in DOMAIN stack : stack[i] \in Frames
      /\ stack' \in Seq(Frames) /\ DOMAIN stack' = DOMAIN stack \ {n}
      /\ \A i \in DOMAIN stack' : stack'[i] = stack[i]
  BY <1>1, Popped, Elements DEF DeletionEnds
<1> PICK o \in Objects : o = Top
  BY <1>2 DEF Frames, Top
<1>3. /\ object[o] = "leaving" /\ o \notin Usable /\ stack[n].object = o
  BY DEF DeletionEnds, Usable, Top
<1>4. /\ ptr' = [ptr EXCEPT ![o] = None] /\ deleter' = [deleter EXCEPT ![o] = Default]
      /\ due' = [due EXCEPT ![o] = Default] /\ object' = [object EXCEPT ![o] = "none"]
      /\ raw' = raw /\ born' = born
  BY DEF DeletionEnds
<1>5. Usable' = Usable
  BY <1>3, <1>4 DEF Usable
<1> HIDE DEF n
<1>6. \A i \in DOMAIN stack' : stack[i].object \in Objects /\ stack[i].object # o
  BY <1>2, <1>3 DEF StackSound, Frames
<1>7. StackSound'
  <2>1. ASSUME NEW i \in DOMAIN stack'
        PROVE  /\ object'[stack'[i].object] \in {"dying", "leaving"}
               /\ stack'[i].deleter = due'[stack'[i].object]
    <3> PICK p \in Objects : p = stack[i].object
      BY <1>6
    <3>1. p # o /\ InDestructor(p) /\ stack[i].deleter = due[p]
      BY <1>2, <1>6 DEF StackSound
    <3>2. object'[p] \in {"dying", "leaving"} /\ due'[p] = due[p]
      BY <1>4, <3>1 DEF InDestructor
    <3> QED BY <1>2, <3>1, <3>2
  <2>2. ASSUME NEW i \in DOMAIN stack', NEW j \in DOMAIN stack', stack'[i].object = stack'[j].object
        PROVE  i = j
    BY <1>2, <2>2 DEF StackSound
  <2>3. ASSUME NEW p \in Objects, InDestructor(p)'
        PROVE  \E i \in DOMAIN stack' : stack'[i].object = p
    <3>1. p # o /\ InDestructor(p)
      BY <1>4, <2>3 DEF InDestructor
    <3> PICK i \in DOMAIN stack : stack[i].object = p
      BY <3>1 DEF StackSound
    <3>2. i \in DOMAIN stack'
      BY <1>2, <1>3, <3>1
    <3> QED BY <1>2, <3>2
  <2> QED BY <2>1, <2>2, <2>3 DEF StackSound, InDestructor
<1>8. TypeOK'
  BY <1>2, <1>4 DEF Frames, AnyDeleter
<1>9. Sole' /\ Live'
  <2>1. \A x \in Usable : x \in Handles /\ ptr'[x] = ptr[x] /\ deleter'[x] = deleter[x]
    BY <1>3, <1>4, UsableHandles
  <2>2. ASSUME NEW x \in Usable, ptr[x] # None
        PROVE  object'[ptr[x]] = "alive" /\ ptr[x] \notin raw /\ deleter[x] = due'[ptr[x]]
    <3>1. /\ ptr[x] \in Objects /\ object[ptr[x]] = "alive"
          /\ ptr[x] \notin raw /\ deleter[x] = due[ptr[x]]
      BY <2>1, <2>2 DEF Owned, Live
    <3> QED BY <1>3, <1>4, <3>1
  <2>3. raw' = raw
    BY <1>4
  <2>4. Sole'
    BY <1>5, <2>1 DEF Owned, Sole
  <2>5. Live'
    BY <1>5, <2>1, <2>2, <2>3 DEF Live
  <2> QED BY <2>4, <2>5
<1>10. Reached' /\ Fresh'
  BY <1>3, <1>4, <1>5 DEF Owned, Live, Reached, Fresh
<1> QED BY <1>7, <1>8, <1>9, <1>10 DEF Owned

LEMMA IInit == Init => IInv
<1> SUFFICES ASSUME Init PROVE IInv
  OBVIOUS
<1>1. TypeOK
  BY DEF Init, TypeOK, AnyDeleter, Handles
<1>2. Usable = {}
  BY DEF Init, Usable
<1>3. Owned
  BY <1>2 DEF Init, Owned, Sole, Live, Reached, Fresh, Handles
<1>4. StackSound
  BY DEF Init, StackSound, InDestructor
<1> QED BY <1>1, <1>3, <1>4 DEF IInv

LEMMA IStep == IInv /\ [Next]_vars => IInv'
<1> SUFFICES ASSUME IInv, [Next]_vars PROVE IInv'
  OBVIOUS
<1>1. CASE UNCHANGED vars
  BY <1>1 DEF vars, IInv, TypeOK, Owned, Sole, Live, Reached, Fresh, StackSound, Usable, InDestructor
<1> QED
  BY <1>1, Constructs, MoveConstructs, Destructs, MoveAssigns, Swaps, Resets, Releases, BodyEndings,
     DeletionEndings DEF Next

LEMMA Inductive == Spec => []IInv
BY IInit, IStep, PTL DEF Spec

----------------------------------------------------------------------------
\* An object has one owner, a handle or the caller it was released to, until it
\* is deleted, once; from then on no handle leads to it, whatever the destructors
\* do with the other handles (unique_ptr.h:101-105, 110-121, 149-155, 181-193).
THEOREM OwnedExactlyOnce == Spec => []OwnedOnce
<1>1. IInv => OwnedOnce
  <2> SUFFICES ASSUME IInv, NEW o \in Objects
               PROVE  /\ Cardinality(Owners(o)) + Cardinality(raw \cap {o})
                           = IF object[o] = "alive" THEN 1 ELSE 0
                      /\ Cardinality(Deletions(o)) = IF InDestructor(o) THEN 1 ELSE 0
    BY DEF OwnedOnce, IInv, InDestructor
  <2> USE UniquePtrAssumption DEF IInv
  <2>1. \A x : Cardinality({x}) = 1
    BY FS_Singleton
  <2>2. Cardinality({}) = 0
    BY FS_EmptySet
  <2> DEFINE One == Cardinality(Owners(o)) + Cardinality(raw \cap {o})
                       = IF object[o] = "alive" THEN 1 ELSE 0
  <2>3. ASSUME o \in raw PROVE One
    <3>1. Owners(o) = {} /\ raw \cap {o} = {o} /\ object[o] = "alive"
      BY <2>3 DEF Owners, Owned, Live, Reached
    <3>2. Cardinality(Owners(o)) = 0 /\ Cardinality(raw \cap {o}) = 1
      BY <2>1, <2>2, <3>1
    <3> QED BY <3>1, <3>2
  <2>4. ASSUME o \notin raw, object[o] = "alive" PROVE One
    <3>1. PICK h \in Usable : ptr[h] = o
      BY <2>4 DEF Owned, Reached
    <3>2. Owners(o) = {h} /\ raw \cap {o} = {}
      BY <2>4, <3>1 DEF Owners, Owned, Sole
    <3>3. Cardinality(Owners(o)) = 1 /\ Cardinality(raw \cap {o}) = 0
      BY <2>1, <2>2, <3>2
    <3> QED BY <2>4, <3>3
  <2>5. ASSUME o \notin raw, object[o] # "alive" PROVE One
    <3>1. Owners(o) = {} /\ raw \cap {o} = {}
      BY <2>5 DEF Owners, Owned, Live
    <3>2. Cardinality(Owners(o)) = 0 /\ Cardinality(raw \cap {o}) = 0
      BY <2>2, <3>1
    <3> QED BY <2>5, <3>2
  <2>6. Cardinality(Deletions(o)) = IF InDestructor(o) THEN 1 ELSE 0
    <3>1. CASE InDestructor(o)
      <4>1. PICK i \in DOMAIN stack : stack[i].object = o
        BY <3>1 DEF StackSound
      <4>2. Deletions(o) = {i}
        BY <4>1 DEF Deletions, StackSound
      <4> QED BY <2>1, <3>1, <4>2
    <3>2. CASE ~InDestructor(o)
      <4>1. Deletions(o) = {}
        BY <3>2 DEF Deletions, StackSound
      <4> QED BY <2>2, <3>2, <4>1
    <3> QED BY <3>1, <3>2
  <2> QED BY <2>3, <2>4, <2>5, <2>6
<1> QED BY <1>1, Inductive, PTL

\* Every object is deleted by the deleter it was put under, through all moves,
\* swaps and resets, and never by one that was moved from (unique_ptr.h:95-105,
\* 110-121, 149-155, 181-185).
THEOREM DeletedRightly == Spec => []DeletedByItsOwn
<1>1. IInv => DeletedByItsOwn
  BY DEF IInv, StackSound, DeletedByItsOwn
<1> QED BY <1>1, Inductive, PTL
==============================================================================
