------------------------------ MODULE LruCache ------------------------------
(***************************************************************************)
(* null/lru_cache.h and null/concurrent_lru_cache.h: a list of key-value   *)
(* nodes, the most recently used first, and a map from keys to nodes.  The *)
(* two classes differ in the mutex alone: every call is one step, made by  *)
(* one of the clients.  get () returns a pointer into a node, which its    *)
(* client keeps after the call, and after the unlock.  Both allocations of *)
(* put () may throw, and then leave the cache as it is at that point.      *)
(***************************************************************************)
EXTENDS Integers, Sequences, FiniteSets

CONSTANTS
  Clients, Keys, Values,
  NoValue,      \* what a call returns that returns nullptr or nothing
  Nodes,        \* addresses of list nodes
  None,         \* no node, or the content of a node never used
  Capacity,     \* capacity_; the constructor rejects zero
  MaxThrows     \* bound: calls of put left by an exception

ASSUME LruAssumption ==
  /\ Capacity \in Nat \ {0} /\ MaxThrows \in Nat
  /\ IsFiniteSet(Nodes) /\ Cardinality(Nodes) >= Capacity
  /\ None \notin Nodes

VARIABLES
  list_,              \* nodes, front first
  map_,               \* key -> node, for the keys it contains
  content,            \* node -> its key and value; of a freed node the old ones
  held,               \* client -> the node its last get returned a pointer into
  since,              \* client -> keys used since that node was last in front
  dangling,           \* clients whose node has been freed since their get
  throws,
  order, latest, result     \* history, as LruPolicy describes it

cache   == <<list_, map_, content>>
clients == <<held, since, dangling>>
history == <<order, latest, result>>
vars    == <<cache, clients, throws, history>>

NodesIn(list) == {list[i] : i \in 1 .. Len(list)}
Without(list, x) ==
  IF x \in NodesIn(list)
  THEN LET p == CHOOSE i \in 1 .. Len(list) : list[i] = x
       IN  SubSeq(list, 1, p - 1) \o SubSeq(list, p + 1, Len(list))
  ELSE list

\* list with x first, once, whether x was in it or not.
ToFront(list, x) == <<x>> \o Without(list, x)

Init ==
  /\ list_ = <<>> /\ map_ = [k \in {} |-> None] /\ content = [n \in Nodes |-> None]
  /\ held = [c \in Clients |-> None] /\ since = [c \in Clients |-> {}]
  /\ dangling = {}
  /\ throws = 0
  /\ order = <<>> /\ latest = [k \in Keys |-> NoValue] /\ result = NoValue

\* map_.find (key) and what a found entry leads to.
Mapped(k) == k \in DOMAIN map_
ValueOf(k) == content[map_[k]].value

\* list_.splice (list_.begin (), list_, it).  Faulty variant: it is left out.
SpliceNot(n) == list_' = list_

Splice(n) == list_' = ToFront(list_, n)

\* What since becomes for client c when node n, of key k, moves to the front.
KeysSince(c, k, n) ==
  IF held[c] = None \/ c \in dangling THEN since[c]
  ELSE IF held[c] = n THEN {} ELSE since[c] \cup {k}

(***************************************************************************)
(* get (key).                                                              *)
(***************************************************************************)
GetMiss(c, k) ==
  /\ ~Mapped(k)
  /\ held' = [held EXCEPT ![c] = None]
  /\ since' = [since EXCEPT ![c] = {}]
  /\ dangling' = dangling \ {c}
  /\ result' = NoValue
  /\ UNCHANGED <<cache, throws, order, latest>>

GetHit(c, k) ==
  /\ Mapped(k)
  /\ Splice(map_[k])
  /\ held' = [held EXCEPT ![c] = map_[k]]
  /\ since' = [d \in Clients |-> IF d = c THEN {} ELSE KeysSince(d, k, map_[k])]
  /\ dangling' = dangling \ {c}
  /\ result' = ValueOf(k)
  /\ order' = ToFront(order, k)
  /\ UNCHANGED <<map_, content, throws, latest>>

(***************************************************************************)
(* put (key, value) of a key that is there.                                *)
(***************************************************************************)
Recorded(k, v) ==
  /\ order' = ToFront(order, k)
  /\ latest' = [latest EXCEPT ![k] = v]
  /\ result' = NoValue

PutUpdate(k, v) ==
  /\ Mapped(k)
  /\ content' = [content EXCEPT ![map_[k]].value = v]
  /\ Splice(map_[k])
  /\ since' = [c \in Clients |-> KeysSince(c, k, map_[k])]
  /\ Recorded(k, v)
  /\ UNCHANGED <<map_, held, dangling, throws>>

(***************************************************************************)
(* put (key, value) of a new key: make room by freeing the last node and   *)
(* its key's entry, push a node, map the key.                              *)
(***************************************************************************)
Full == Len(list_) >= Capacity

Trimmed == IF Full THEN SubSeq(list_, 1, Len(list_) - 1) ELSE list_

\* Faulty variant: the entry of the freed node stays.
TrimmedMapKept == map_

TrimmedMap ==
  IF Full
  THEN [k \in DOMAIN map_ \ {content[list_[Len(list_)]].key} |-> map_[k]]
  ELSE map_

DanglingOnceTrimmed ==
  dangling \cup {c \in Clients : held[c] \in NodesIn(list_) \ NodesIn(Trimmed)}

PushFront(k, v, n) ==
  /\ n \notin NodesIn(Trimmed)
  /\ list_' = <<n>> \o Trimmed
  /\ content' = [content EXCEPT ![n] = [key |-> k, value |-> v]]
  /\ since' = [c \in Clients |-> KeysSince(c, k, None)]

PutInsert(k, v) ==
  /\ ~Mapped(k)
  /\ \E n \in Nodes :
       /\ PushFront(k, v, n)
       /\ map_' = [j \in DOMAIN TrimmedMap \cup {k} |-> IF j = k THEN n ELSE TrimmedMap[j]]
  /\ dangling' = DanglingOnceTrimmed
  /\ Recorded(k, v)
  /\ UNCHANGED <<held, throws>>

\* push_front throws: room was made for nothing.
PutThrowsEarly(k) ==
  /\ ~Mapped(k) /\ throws < MaxThrows
  /\ list_' = Trimmed /\ map_' = TrimmedMap /\ dangling' = DanglingOnceTrimmed
  /\ throws' = throws + 1
  /\ UNCHANGED <<content, held, since, history>>

\* map_[key] throws: the node stays in the list without an entry in the map.
PutThrowsLate(k, v) ==
  /\ ~Mapped(k) /\ throws < MaxThrows
  /\ \E n \in Nodes : PushFront(k, v, n)
  /\ map_' = TrimmedMap /\ dangling' = DanglingOnceTrimmed
  /\ throws' = throws + 1
  /\ UNCHANGED <<held, history>>

Get(c, k) == GetMiss(c, k) \/ GetHit(c, k)

Put(k, v) ==
  PutUpdate(k, v) \/ PutInsert(k, v) \/ PutThrowsEarly(k) \/ PutThrowsLate(k, v)

Next ==
  \E k \in Keys :
    \/ \E c \in Clients : Get(c, k)
    \/ \E v \in Values : Put(k, v)

Spec == Init /\ [][Next]_vars

----------------------------------------------------------------------------
TypeOK ==
  /\ list_ \in Seq(Nodes) /\ Len(list_) <= Capacity
  /\ Cardinality(NodesIn(list_)) = Len(list_)
  /\ DOMAIN map_ \subseteq Keys /\ \A k \in DOMAIN map_ : map_[k] \in Nodes
  /\ content \in [Nodes -> [key : Keys, value : Values] \cup {None}]
  /\ held \in [Clients -> Nodes \cup {None}]
  /\ since \in [Clients -> SUBSET Keys]
  /\ dangling \subseteq {c \in Clients : held[c] # None}
  /\ throws \in 0 .. MaxThrows
  /\ result \in Values \cup {NoValue}

\* The list and the map are well formed and agree: an entry of the map leads to a
\* node that is in the list and carries its key, also after exceptions between the changes to
\* the two; the converse, that every node is mapped, fails for at most as many
\* nodes as there were exceptions
\* (lru_cache.h:47-54).
MapAgreesWithList ==
  /\ TypeOK
  /\ \A k \in DOMAIN map_ : map_[k] \in NodesIn(list_) /\ content[map_[k]].key = k
  /\ Cardinality({n \in NodesIn(list_) : \A k \in DOMAIN map_ : map_[k] # n}) <= throws

\* The pointer get () returned stays good until Capacity other keys have been
\* used, whoever used them; every put () that threw may cost one of them
\* (concurrent_lru_cache.h:35, 50-58).
PointerOutlivesOtherKeys ==
  \A c \in dangling : Cardinality(since[c]) + throws >= Capacity

Policy == INSTANCE LruPolicy

\* Without exceptions, every get () answers what a cache that evicts the least
\* recently used key has to answer (lru_cache.h:23-55).
ImplementsLru == Policy!Spec
============================================================================
