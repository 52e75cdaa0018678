------------------------------ MODULE UniquePtr ------------------------------
(***************************************************************************)
(* null/unique_ptr.h: handles that own one object each, with a deleter of  *)
(* their own, used by one thread.  A handle may be a variable or a member  *)
(* of an object, as in a list whose nodes own the next one, so that the    *)
(* destruction of an object destroys the handle in it, and with it what    *)
(* that handle owns.  What an object's destructor does is not restricted   *)
(* either: it may call any operation on any handle that exists, in the     *)
(* middle of the call of another handle that deletes the object.           *)
(*                                                                         *)
(* reset and the assignments build a temporary, swap it in, and destroy it *)
(* with what came out.  The destruction of a handle, temporary or not, is  *)
(* in progress while it is on the stack.                                   *)
(***************************************************************************)
EXTENDS Integers, Sequences, FiniteSets

CONSTANTS
  Variables,   \* handles that are variables
  Objects,     \* addresses of objects; each has one handle as a member, named like it
  Deleters,    \* deleters passed to the constructor, besides a default-constructed one
  None         \* nullptr

ASSUME UniquePtrAssumption ==
  IsFiniteSet(Objects) /\ Variables \cap Objects = {} /\ None \notin Objects

VARIABLES
  object,      \* of each address: "none", "alive", "dying" (in its destructor's body)
               \*   or "leaving" (its member is being destroyed)
  born,        \* the variables in scope
  ptr,         \* ptr_ of each handle
  deleter,     \* deleter of each handle; "moved" once moved from
  stack,       \* the objects being deleted, the innermost last, and the deleter in use
  raw,         \* objects released to the caller
  due          \* history: the deleter each object was put under by its owner

vars == <<object, born, ptr, deleter, stack, raw, due>>
places == <<object, born, raw, due>>

Handles  == Variables \cup Objects
Default  == "default"
AnyDeleter == Deleters \cup {Default, "moved"}

Init ==
  /\ object = [o \in Objects |-> "none"]
  /\ born = {}
  /\ ptr = [h \in Handles |-> None]
  /\ deleter = [h \in Handles |-> Default]
  /\ stack = <<>> /\ raw = {}
  /\ due = [o \in Objects |-> Default]

\* The handles the program may operate on.
Usable == born \cup {o \in Objects : object[o] \in {"alive", "dying"}}

\* A handle that holds o and d is destroyed: if (ptr_) deleter (ptr_).
Destroying(o, d) ==
  IF o = None THEN stack ELSE Append(stack, [object |-> o, deleter |-> d])

Enters(o) ==
  object' = IF o = None THEN object ELSE [object EXCEPT ![o] = "dying"]

(***************************************************************************)
(* The constructors of a variable: from an object, new or released, and a  *)
(* deleter, from another handle, and none of both; and its destruction.    *)
(***************************************************************************)
Construct(v, o, d) ==
  /\ v \notin born /\ (o \in raw \/ object[o] = "none")
  /\ object' = [object EXCEPT ![o] = "alive"]
  /\ born' = born \cup {v}
  /\ ptr' = [ptr EXCEPT ![v] = o]
  /\ deleter' = [deleter EXCEPT ![v] = d]
  /\ raw' = raw \ {o}
  /\ due' = [due EXCEPT ![o] = d]
  /\ UNCHANGED stack

ConstructEmpty(v) ==
  /\ v \notin born
  /\ born' = born \cup {v}
  /\ ptr' = [ptr EXCEPT ![v] = None]
  /\ deleter' = [deleter EXCEPT ![v] = Default]
  /\ UNCHANGED <<object, stack, raw, due>>

MoveConstruct(from, v) ==
  /\ v \notin born /\ from \in Usable
  /\ born' = born \cup {v}
  /\ ptr' = [ptr EXCEPT ![v] = ptr[from], ![from] = None]
  /\ deleter' = [deleter EXCEPT ![v] = deleter[from], ![from] = "moved"]
  /\ UNCHANGED <<object, stack, raw, due>>

Destruct(v) ==
  /\ v \in born
  /\ born' = born \ {v}
  /\ stack' = Destroying(ptr[v], deleter[v])
  /\ Enters(ptr[v])
  /\ UNCHANGED <<ptr, deleter, raw, due>>

(***************************************************************************)
(* Move assignment, of a handle to itself as well; swap; reset; release.   *)
(***************************************************************************)
MoveAssign(from, to) ==
  /\ from \in Usable /\ to \in Usable
  /\ IF from = to
     THEN UNCHANGED <<ptr, deleter, stack, object>>
     ELSE /\ ptr' = [ptr EXCEPT ![to] = ptr[from], ![from] = None]
          /\ deleter' = [deleter EXCEPT ![to] = deleter[from], ![from] = "moved"]
          /\ stack' = Destroying(ptr[to], deleter[to])
          /\ Enters(ptr[to])
  /\ UNCHANGED <<born, raw, due>>

Swap(one, other) ==
  /\ one \in Usable /\ other \in Usable
  /\ ptr' = [ptr EXCEPT ![one] = ptr[other], ![other] = ptr[one]]
  /\ deleter' = [deleter EXCEPT ![one] = deleter[other], ![other] = deleter[one]]
  /\ UNCHANGED <<places, stack>>

\* Faulty variants: the handle points to the old object until that is deleted;
\* the old object is deleted by the deleter of the temporary.
ReplacedLater(h, o) == ptr

Replaced(h, o) == [ptr EXCEPT ![h] = o]

DeleterOfTemporary(h) == Default

DeleterOfOld(h) == deleter[h]

\* reset () and reset (ptr), of a new object or one that was released.
Reset(h, o) ==
  /\ h \in Usable
  /\ o \in {None} \cup raw \cup {p \in Objects : object[p] = "none"}
  /\ ptr' = Replaced(h, o)
  /\ deleter' = [deleter EXCEPT ![h] = Default]
  /\ stack' = Destroying(ptr[h], DeleterOfOld(h))
  /\ object' = [p \in Objects |-> CASE p = o                 -> "alive"
                                    [] p = ptr[h] /\ p # o   -> "dying"
                                    [] OTHER                 -> object[p]]
  /\ raw' = raw \ {o}
  /\ due' = [p \in Objects |-> IF p = o THEN Default ELSE due[p]]
  /\ UNCHANGED born

Release(h) ==
  /\ h \in Usable /\ ptr[h] # None
  /\ ptr' = [ptr EXCEPT ![h] = None]
  /\ raw' = raw \cup {ptr[h]}
  /\ UNCHANGED <<object, born, deleter, stack, due>>

(***************************************************************************)
(* The deletion the innermost destructor call is about.  At the end of the *)
(* destructor's body the member is destroyed, then the memory is freed and *)
(* the call returns.  The next object at the address has an empty member.  *)
(***************************************************************************)
Top == stack[Len(stack)].object

BodyEnds ==
  /\ stack # <<>> /\ object[Top] = "dying"
  /\ stack' = Destroying(ptr[Top], deleter[Top])
  /\ object' = [o \in Objects |-> CASE o = Top      -> "leaving"
                                    [] o = ptr[Top] /\ o # Top -> "dying"
                                    [] OTHER        -> object[o]]
  /\ UNCHANGED <<born, ptr, deleter, raw, due>>

DeletionEnds ==
  /\ stack # <<>> /\ object[Top] = "leaving"
  /\ object' = [object EXCEPT ![Top] = "none"]
  /\ ptr' = [ptr EXCEPT ![Top] = None]
  /\ deleter' = [deleter EXCEPT ![Top] = Default]
  /\ due' = [due EXCEPT ![Top] = Default]
  /\ stack' = SubSeq(stack, 1, Len(stack) - 1)
  /\ UNCHANGED <<born, raw>>

Next ==
  \/ \E v \in Variables :
       \/ \E o \in Objects, d \in Deleters \cup {Default} : Construct(v, o, d)
       \/ \E from \in Handles : MoveConstruct(from, v)
       \/ ConstructEmpty(v) \/ Destruct(v)
  \/ \E h, k \in Handles : MoveAssign(h, k) \/ Swap(h, k)
  \/ \E h \in Handles : Release(h) \/ \E o \in Objects \cup {None} : Reset(h, o)
  \/ BodyEnds \/ DeletionEnds

Spec == Init /\ [][Next]_vars

----------------------------------------------------------------------------
TypeOK ==
  /\ object \in [Objects -> {"none", "alive", "dying", "leaving"}]
  /\ born \subseteq Variables
  /\ ptr \in [Handles -> Objects \cup {None}]
  /\ deleter \in [Handles -> AnyDeleter]
  /\ stack \in Seq([object : Objects, deleter : AnyDeleter])
  /\ raw \subseteq Objects
  /\ due \in [Objects -> AnyDeleter]

Owners(o) == {h \in Usable : ptr[h] = o}
Deletions(o) == {i \in DOMAIN stack : stack[i].object = o}

\* An object has one owner, a handle or the caller it was released to, until it
\* is deleted, once; from then on no handle leads to it, whatever its destructor
\* and those it brings about do with the other handles, those on whose behalf it
\* is deleted included (unique_ptr.h:101-105, 110-121, 149-155, 181-193).
OwnedOnce ==
  /\ TypeOK
  /\ \A o \in Objects :
       /\ Cardinality(Owners(o)) + Cardinality(raw \cap {o})
            = IF object[o] = "alive" THEN 1 ELSE 0
       /\ Cardinality(Deletions(o)) = IF object[o] \in {"dying", "leaving"} THEN 1 ELSE 0

\* Every object is deleted by the deleter it was put under: the one that came
\* with it, through all moves and swaps, or a default-constructed one after
\* reset (ptr); never by one that was moved from (unique_ptr.h:95-105, 110-121,
\* 149-155, 181-185).
DeletedByItsOwn ==
  \A i \in DOMAIN stack : stack[i].deleter = due[stack[i].object]
============================================================================
