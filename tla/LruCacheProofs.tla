--------------------------- MODULE LruCacheProofs ---------------------------
(***************************************************************************)
(* Proofs about LruCache, for every capacity and any number of clients,    *)
(* keys and nodes.  The inductive invariant adds three things to what the  *)
(* runs check: the list holds no node twice; the nodes without an entry in *)
(* the map, which a put () that threw leaves behind, stay as few when room *)
(* is made by erasing an entry through such a node; and the keys whose     *)
(* nodes are ahead of the one a client holds are among those used since.   *)
(* The last part shows that a cache whose allocations succeed is one of    *)
(* LruPolicy's: its list is the beginning of the policy's order.           *)
(***************************************************************************)
EXTENDS LruCache, FiniteSetTheorems, SequenceTheorems, TLAPS

\* No element comes twice; x comes somewhere before y.
Unique(s) == \A i, j \in 1 .. Len(s) : s[i] = s[j] => i = j

Before(s, x, y) == \E i, j \in 1 .. Len(s) : i < j /\ s[i] = x /\ s[j] = y

\* The list holds each node once, and its nodes have a content.
ListSound ==
  /\ Unique(list_)
  /\ \A n \in NodesIn(list_) : content[n] \in [key : Keys, value : Values]

\* An entry leads to a node of the list that carries the entry's key.
MapSound == \A k \in DOMAIN map_ : map_[k] \in NodesIn(list_) /\ content[map_[k]].key = k

\* The nodes without an entry: a put () that threw has left each of them.
Orphans(list, map) == {n \in NodesIn(list) : \A k \in DOMAIN map : map[k] # n}

FewOrphans == Cardinality(Orphans(list_, map_)) <= throws

\* The node a client holds is in the list, and the keys ahead of it are among
\* those used since.
Holds(c) == held[c] # None /\ c \notin dangling

SinceCounts ==
  /\ \A c \in Clients : IsFiniteSet(since[c])
  /\ \A c \in Clients : Holds(c) => held[c] \in NodesIn(list_)
  /\ \A c \in Clients, k \in DOMAIN map_ :
       Holds(c) /\ Before(list_, map_[k], held[c]) => k \in since[c]

IInv ==
  TypeOK /\ ListSound /\ MapSound /\ FewOrphans /\ SinceCounts /\ PointerOutlivesOtherKeys

----------------------------------------------------------------------------
\* A new x is put in front.
LEMMA Prepended ==
  ASSUME NEW S, NEW s \in Seq(S), NEW x \in S, NEW f, f = <<x>> \o s
  PROVE  /\ f \in Seq(S) /\ Len(f) = Len(s) + 1 /\ Len(s) \in Nat /\ f[1] = x
         /\ \A i \in 2 .. Len(s) + 1 : f[i] = s[i - 1]
<1>1. Len(s) \in Nat
  BY LenProperties
<1>2. <<x>> \in Seq(S) /\ Len(<<x>>) = 1 /\ <<x>>[1] = x
  OBVIOUS
<1>3. /\ f \in Seq(S) /\ Len(f) = Len(<<x>>) + Len(s)
      /\ \A i \in 1 .. Len(<<x>>) + Len(s) :
             f[i] = IF i <= Len(<<x>>) THEN <<x>>[i] ELSE s[i - Len(<<x>>)]
  BY <1>2, ConcatProperties
<1> QED BY <1>1, <1>2, <1>3

\* x, which was in place p, is taken out.
LEMMA Removed ==
  ASSUME NEW S, NEW s \in Seq(S), Unique(s), NEW p \in 1 .. Len(s)
  PROVE  /\ Without(s, s[p]) \in Seq(S) /\ Len(Without(s, s[p])) = Len(s) - 1
         /\ \A i \in 1 .. Len(s) - 1 : Without(s, s[p])[i] = IF i < p THEN s[i] ELSE s[i + 1]
<1> PICK x : x = s[p]
  OBVIOUS
<1> DEFINE a == SubSeq(s, 1, p - 1)
           b == SubSeq(s, p + 1, Len(s))
<1>0. Len(s) \in Nat /\ \A i \in 1 .. Len(s) : s[i] \in S
  BY LenProperties, ElementOfSeq
<1>1. Without(s, x) = a \o b
  <2>1. x \in NodesIn(s)
    BY DEF NodesIn
  <2>2. (CHOOSE i \in 1 .. Len(s) : s[i] = x) = p
    BY DEF Unique
  <2> QED BY <2>1, <2>2 DEF Without
<1>2. a \in Seq(S) /\ Len(a) = p - 1 /\ \A i \in 1 .. p - 1 : a[i] = s[i]
  BY <1>0, SubSeqProperties
<1>3. b \in Seq(S) /\ Len(b) = Len(s) - p /\ \A i \in 1 .. Len(s) - p : b[i] = s[p + i]
  <2>1. \A i \in p + 1 .. Len(s) : s[i] \in S
    BY <1>0
  <2>2. /\ b \in Seq(S) /\ Len(b) = IF p + 1 <= Len(s) THEN Len(s) - (p + 1) + 1 ELSE 0
        /\ \A i \in 1 .. Len(s) - (p + 1) + 1 : b[i] = s[p + 1 + i - 1]
    BY <1>0, <2>1, SubSeqProperties
  <2>3. \A i \in 1 .. Len(s) - p : i \in 1 .. Len(s) - (p + 1) + 1 /\ p + 1 + i - 1 = p + i
    BY <1>0
  <2> QED BY <1>0, <2>2, <2>3
<1> DEFINE c == a \o b
<1>4. /\ c \in Seq(S) /\ Len(c) = Len(s) - 1
      /\ \A i \in 1 .. Len(s) - 1 : c[i] = IF i < p THEN s[i] ELSE s[i + 1]
  <2>1. /\ c \in Seq(S) /\ Len(c) = Len(a) + Len(b)
        /\ \A i \in 1 .. Len(a) + Len(b) : c[i] = IF i <= Len(a) THEN a[i] ELSE b[i - Len(a)]
    BY <1>2, <1>3, ConcatProperties
  <2> HIDE DEF a, b, c
  <2>2. ASSUME NEW i \in 1 .. Len(s) - 1 PROVE c[i] = IF i < p THEN s[i] ELSE s[i + 1]
    <3>0. c[i] = IF i <= p - 1 THEN a[i] ELSE b[i - (p - 1)]
      <4>1. Len(a) = p - 1 /\ Len(a) + Len(b) = Len(s) - 1
        BY <1>0, <1>2, <1>3
      <4>2. i \in 1 .. Len(a) + Len(b)
        BY <4>1
      <4> QED BY <2>1, <4>1, <4>2
    <3>1. CASE i < p
      <4>1. i <= p - 1 /\ i \in 1 .. p - 1
        BY <1>0, <3>1
      <4> QED BY <1>2, <3>0, <3>1, <4>1
    <3>2. CASE i >= p
      <4>1. i - (p - 1) \in 1 .. Len(s) - p /\ p + (i - (p - 1)) = i + 1 /\ ~(i <= p - 1)
        BY <1>0, <3>2
      <4>2. b[i - (p - 1)] = s[p + (i - (p - 1))]
        BY <1>3, <4>1
      <4> QED BY <3>0, <3>2, <4>1, <4>2
    <3> QED BY <1>0, <3>1, <3>2
  <2> QED BY <1>0, <1>2, <1>3, <2>1, <2>2
<1> QED BY <1>1, <1>4

\* x, which was in place p, moves to the front: what was before it moves back.
LEMMA Fronted ==
  ASSUME NEW S, NEW s \in Seq(S), Unique(s), NEW p \in 1 .. Len(s)
  PROVE  /\ ToFront(s, s[p]) \in Seq(S) /\ Len(ToFront(s, s[p])) = Len(s)
         /\ ToFront(s, s[p])[1] = s[p]
         /\ \A i \in 2 .. p : ToFront(s, s[p])[i] = s[i - 1]
         /\ \A i \in p + 1 .. Len(s) : ToFront(s, s[p])[i] = s[i]
<1> PICK f : f = ToFront(s, s[p])
  OBVIOUS
<1>0. Len(s) \in Nat /\ s[p] \in S
  BY LenProperties, ElementOfSeq
<1>1. PICK c \in Seq(S) : c = Without(s, s[p])
  BY Removed
<1>2. Len(c) = Len(s) - 1 /\ \A i \in 1 .. Len(s) - 1 : c[i] = IF i < p THEN s[i] ELSE s[i + 1]
  BY <1>1, Removed
<1>3. /\ f \in Seq(S) /\ Len(f) = Len(c) + 1 /\ f[1] = s[p]
      /\ \A i \in 2 .. Len(c) + 1 : f[i] = c[i - 1]
  <2> PICK x \in S : x = s[p]
    BY <1>0
  <2>1. f = <<x>> \o c
    BY <1>1 DEF ToFront
  <2>2. /\ f \in Seq(S) /\ Len(f) = Len(c) + 1 /\ f[1] = x
        /\ \A i \in 2 .. Len(c) + 1 : f[i] = c[i - 1]
    BY <2>1, Prepended
  <2> QED BY <2>2
<1>4. ASSUME NEW i \in 2 .. p PROVE f[i] = s[i - 1]
  <2>1. i - 1 \in 1 .. Len(s) - 1 /\ i - 1 < p /\ i \in 2 .. Len(c) + 1
    BY <1>0, <1>2
  <2> QED BY <1>2, <1>3, <2>1
<1>5. ASSUME NEW i \in p + 1 .. Len(s) PROVE f[i] = s[i]
  <2>1. i - 1 \in 1 .. Len(s) - 1 /\ ~(i - 1 < p) /\ i \in 2 .. Len(c) + 1 /\ i - 1 + 1 = i
    BY <1>0, <1>2
  <2> QED BY <1>2, <1>3, <2>1
<1> QED BY <1>0, <1>2, <1>3, <1>4, <1>5

\* The same, and pushing and popping, by who is before whom.
LEMMA FrontedList ==
  ASSUME NEW S, NEW s \in Seq(S), Unique(s), NEW p \in 1 .. Len(s), NEW f \in Seq(S),
         Len(f) = Len(s), f[1] = s[p], \A i \in 2 .. p : f[i] = s[i - 1],
         \A i \in p + 1 .. Len(s) : f[i] = s[i]
  PROVE  /\ Unique(f) /\ NodesIn(f) = NodesIn(s)
         /\ \A y, z : Before(f, y, z) => z # s[p] /\ (y = s[p] \/ Before(s, y, z))
<1>1. Len(s) \in Nat
  BY LenProperties
<1> PICK x : x = s[p]
  OBVIOUS
<1> DEFINE From(i) == IF i = 1 THEN p ELSE IF i <= p THEN i - 1 ELSE i
           To(i) == IF i = p THEN 1 ELSE IF i < p THEN i + 1 ELSE i
<1>2. \A i \in 1 .. Len(s) : From(i) \in 1 .. Len(s) /\ f[i] = s[From(i)]
  BY <1>1
<1>3. \A i \in 1 .. Len(s) : To(i) \in 1 .. Len(s) /\ s[i] = f[To(i)]
  BY <1>1
<1>4. \A i, j \in 1 .. Len(s) : From(i) = From(j) => i = j
  BY <1>1
<1>5. \A i, j \in 1 .. Len(s) : i < j => From(j) # p /\ (From(i) = p \/ From(i) < From(j))
  BY <1>1
<1> HIDE DEF From, To
<1>6. Unique(f)
  <2>1. ASSUME NEW i \in 1 .. Len(s), NEW j \in 1 .. Len(s), f[i] = f[j] PROVE i = j
    <3>1. From(i) \in 1 .. Len(s) /\ From(j) \in 1 .. Len(s) /\ s[From(i)] = s[From(j)]
      BY <1>2, <2>1
    <3>2. From(i) = From(j)
      BY <3>1 DEF Unique
    <3> QED BY <1>4, <3>2
  <2> QED BY <1>1, <2>1 DEF Unique
<1>7. NodesIn(f) = NodesIn(s)
  <2>1. ASSUME NEW y \in NodesIn(f) PROVE y \in NodesIn(s)
    BY <1>1, <1>2 DEF NodesIn
  <2>2. ASSUME NEW y \in NodesIn(s) PROVE y \in NodesIn(f)
    <3>1. PICK i \in 1 .. Len(s) : y = s[i]
      BY DEF NodesIn
    <3>2. To(i) \in 1 .. Len(f) /\ y = f[To(i)]
      BY <1>1, <1>3, <3>1
    <3> QED BY <3>2 DEF NodesIn
  <2> QED BY <2>1, <2>2
<1>8. ASSUME NEW y, NEW z, Before(f, y, z) PROVE z # x /\ (y = x \/ Before(s, y, z))
  <2>1. PICK i, j \in 1 .. Len(s) : i < j /\ f[i] = y /\ f[j] = z
    BY <1>1, <1>8 DEF Before
  <2>2. y = s[From(i)] /\ z = s[From(j)] /\ From(j) # p /\ (From(i) = p \/ From(i) < From(j))
    BY <1>2, <1>5, <2>1
  <2>3. From(i) \in 1 .. Len(s) /\ From(j) \in 1 .. Len(s)
    BY <1>2
  <2> QED BY <2>2, <2>3 DEF Unique, Before
<1> QED BY <1>6, <1>7, <1>8

LEMMA PushedList ==
  ASSUME NEW S, NEW s \in Seq(S), Unique(s), NEW x \in S, x \notin NodesIn(s), NEW f \in Seq(S),
         Len(f) = Len(s) + 1, f[1] = x, \A i \in 2 .. Len(s) + 1 : f[i] = s[i - 1]
  PROVE  /\ Unique(f) /\ NodesIn(f) = NodesIn(s) \cup {x}
         /\ \A y, z : Before(f, y, z) => z # x /\ (y = x \/ Before(s, y, z))
<1>1. Len(s) \in Nat
  BY LenProperties
<1>2. \A i \in 1 .. Len(s) + 1 : i = 1 \/ (i \in 2 .. Len(s) + 1 /\ i - 1 \in 1 .. Len(s))
  BY <1>1
<1>3. \A i \in 1 .. Len(s) : i + 1 \in 2 .. Len(s) + 1 /\ i + 1 - 1 = i /\ f[i + 1] = s[i] /\ s[i] # x
  BY <1>1 DEF NodesIn
<1>4. Unique(f)
  <2> SUFFICES ASSUME NEW i \in 1 .. Len(s) + 1, NEW j \in 1 .. Len(s) + 1, f[i] = f[j] PROVE i = j
    BY <1>1 DEF Unique
  <2>1. CASE i = 1 \/ j = 1
    BY <1>1, <1>2, <1>3, <2>1
  <2>2. CASE i # 1 /\ j # 1
    <3>1. f[i] = s[i - 1] /\ f[j] = s[j - 1] /\ i - 1 \in 1 .. Len(s) /\ j - 1 \in 1 .. Len(s)
      BY <1>1, <1>2, <2>2
    <3>2. i - 1 = j - 1
      BY <3>1 DEF Unique
    <3> QED BY <3>2
  <2> QED BY <2>1, <2>2
<1>5. NodesIn(f) = NodesIn(s) \cup {x}
  <2>1. ASSUME NEW y \in NodesIn(f) PROVE y \in NodesIn(s) \cup {x}
    BY <1>1, <1>2 DEF NodesIn
  <2>2. ASSUME NEW y \in NodesIn(s) PROVE y \in NodesIn(f)
    <3>1. PICK i \in 1 .. Len(s) : y = s[i]
      BY DEF NodesIn
    <3>2. i + 1 \in 1 .. Len(f) /\ y = f[i + 1]
      BY <1>1, <1>3, <3>1
    <3> QED BY <3>2 DEF NodesIn
  <2>3. x \in NodesIn(f)
    BY <1>1 DEF NodesIn
  <2> QED BY <2>1, <2>2, <2>3
<1>6. ASSUME NEW y, NEW z, Before(f, y, z) PROVE z # x /\ (y = x \/ Before(s, y, z))
  <2>1. PICK i, j \in 1 .. Len(s) + 1 : i < j /\ f[i] = y /\ f[j] = z
    BY <1>1, <1>6 DEF Before
  <2>2. j - 1 \in 1 .. Len(s) /\ z = s[j - 1] /\ z # x
    BY <1>1, <1>2, <1>3, <2>1
  <2>3. i # 1 => i - 1 \in 1 .. Len(s) /\ y = s[i - 1] /\ i - 1 < j - 1
    BY <1>1, <1>2, <2>1
  <2> QED BY <1>1, <2>1, <2>2, <2>3 DEF Before
<1> QED BY <1>1, <1>4, <1>5, <1>6

LEMMA Popped ==
  ASSUME NEW S, NEW s \in Seq(S), Len(s) > 0
  PROVE  /\ SubSeq(s, 1, Len(s) - 1) \in Seq(S) /\ Len(SubSeq(s, 1, Len(s) - 1)) = Len(s) - 1
         /\ \A i \in 1 .. Len(s) - 1 : SubSeq(s, 1, Len(s) - 1)[i] = s[i]
<1>1. Len(s) \in Nat /\ \A i \in 1 .. Len(s) - 1 : s[i] \in S
  BY LenProperties, ElementOfSeq
<1> PICK n : n = Len(s) - 1
  OBVIOUS
<1>0. n \in Int /\ n >= 0
  BY <1>1
<1>2. \A i \in 1 .. n : s[i] \in S
  BY <1>1
<1>3. /\ SubSeq(s, 1, n) \in Seq(S) /\ Len(SubSeq(s, 1, n)) = IF 1 <= n THEN n - 1 + 1 ELSE 0
      /\ \A i \in 1 .. n - 1 + 1 : SubSeq(s, 1, n)[i] = s[1 + i - 1]
  BY <1>0, <1>2, SubSeqProperties
<1>4. Len(SubSeq(s, 1, n)) = n /\ \A i \in 1 .. n : SubSeq(s, 1, n)[i] = s[i]
  <2> PICK f : f = SubSeq(s, 1, n)
    OBVIOUS
  <2>1. Len(f) = n
    <3>1. Len(f) = IF 1 <= n THEN n - 1 + 1 ELSE 0
      BY <1>3
    <3> QED BY <1>0, <3>1
  <2>2. ASSUME NEW i \in 1 .. n PROVE f[i] = s[i]
    <3>1. i \in 1 .. n - 1 + 1 /\ 1 + i - 1 = i
      BY <1>0
    <3> QED BY <1>3, <3>1
  <2> QED BY <2>1, <2>2
<1> QED BY <1>3, <1>4

LEMMA PoppedList ==
  ASSUME NEW S, NEW s \in Seq(S), Unique(s), Len(s) > 0, NEW f \in Seq(S),
         Len(f) = Len(s) - 1, \A i \in 1 .. Len(s) - 1 : f[i] = s[i]
  PROVE  /\ Unique(f)
         /\ s[Len(s)] \in NodesIn(s) /\ NodesIn(f) = NodesIn(s) \ {s[Len(s)]}
         /\ \A y, z : Before(f, y, z) => Before(s, y, z)
         /\ \A y \in NodesIn(s) \ {s[Len(s)]} : Before(s, y, s[Len(s)])
<1>0. Len(s) \in Nat
  BY LenProperties
<1>2. Unique(f)
  BY <1>0 DEF Unique
<1>3. s[Len(s)] \in NodesIn(s)
  BY <1>0 DEF NodesIn
<1>4. \A i \in 1 .. Len(s) : i \in 1 .. Len(s) - 1 <=> s[i] # s[Len(s)]
  BY <1>0 DEF Unique
<1>5. NodesIn(f) = NodesIn(s) \ {s[Len(s)]}
  <2>1. ASSUME NEW y \in NodesIn(f) PROVE y \in NodesIn(s) \ {s[Len(s)]}
    <3>1. PICK i \in 1 .. Len(s) - 1 : y = f[i]
      BY DEF NodesIn
    <3>2. i \in 1 .. Len(s) /\ y = s[i]
      BY <1>0, <3>1
    <3> QED BY <1>4, <3>2 DEF NodesIn
  <2>2. ASSUME NEW y \in NodesIn(s) \ {s[Len(s)]} PROVE y \in NodesIn(f)
    <3>1. PICK i \in 1 .. Len(s) : y = s[i]
      BY DEF NodesIn
    <3>2. i \in 1 .. Len(s) - 1 /\ y = f[i]
      BY <1>4, <3>1
    <3> QED BY <3>2 DEF NodesIn
  <2> QED BY <2>1, <2>2
<1>6. \A y, z : Before(f, y, z) => Before(s, y, z)
  BY <1>0 DEF Before
<1>7. \A y \in NodesIn(s) \ {s[Len(s)]} : Before(s, y, s[Len(s)])
  BY <1>0, <1>4 DEF NodesIn, Before
<1> QED BY <1>2, <1>3, <1>5, <1>6, <1>7

\* A list without repetitions has as many nodes as places.
LEMMA Counted ==
  ASSUME NEW S, NEW s \in Seq(S), Unique(s)
  PROVE  IsFiniteSet(NodesIn(s)) /\ Cardinality(NodesIn(s)) = Len(s)
<1>1. Len(s) \in Nat
  BY LenProperties
<1> DEFINE g == [i \in 1 .. Len(s) |-> s[i]]
<1>2. g \in Bijection(1 .. Len(s), NodesIn(s))
  BY <1>1 DEF Bijection, Injection, Surjection, IsInjective, Unique, NodesIn
<1>3. ExistsBijection(1 .. Len(s), NodesIn(s))
  BY <1>2 DEF ExistsBijection
<1>4. IsFiniteSet(1 .. Len(s)) /\ Cardinality(1 .. Len(s)) = Len(s)
  BY <1>1, FS_Interval
<1> QED BY <1>3, <1>4, FS_Bijection

----------------------------------------------------------------------------
(***************************************************************************)
(* What the steps of an operation do to the list and to the map.           *)
(***************************************************************************)
\* Only finitely many nodes, all of them addresses, are in the list.
LEMMA Finite ==
  ASSUME IInv
  PROVE  /\ IsFiniteSet(NodesIn(list_)) /\ NodesIn(list_) \subseteq Nodes
         /\ IsFiniteSet(Orphans(list_, map_)) /\ Cardinality(Orphans(list_, map_)) \in Nat
         /\ Len(list_) \in Nat
<1>1. list_ \in Seq(Nodes) /\ Unique(list_)
  BY DEF IInv, TypeOK, ListSound
<1>2. IsFiniteSet(NodesIn(list_)) /\ Len(list_) \in Nat
  BY <1>1, Counted, LenProperties
<1>3. NodesIn(list_) \subseteq Nodes
  BY <1>1, ElementOfSeq DEF NodesIn
<1>4. Orphans(list_, map_) \subseteq NodesIn(list_)
  BY DEF Orphans
<1> QED BY <1>2, <1>3, <1>4, FS_Subset, FS_CardinalityType

\* A splice keeps the nodes and puts one before all others.
LEMMA Splices ==
  ASSUME IInv, NEW n \in NodesIn(list_), Splice(n)
  PROVE  /\ list_' \in Seq(Nodes) /\ Len(list_') = Len(list_)
         /\ Unique(list_)' /\ NodesIn(list_)' = NodesIn(list_)
         /\ \A y, z : Before(list_', y, z) => z # n /\ (y = n \/ Before(list_, y, z))
<1>1. list_ \in Seq(Nodes) /\ Unique(list_)
  BY DEF IInv, TypeOK, ListSound
<1>2. PICK p \in 1 .. Len(list_) : n = list_[p]
  BY DEF NodesIn
<1>3. list_' = ToFront(list_, list_[p])
  BY <1>2 DEF Splice
<1>4. /\ list_' \in Seq(Nodes) /\ Len(list_') = Len(list_) /\ list_'[1] = list_[p]
      /\ \A i \in 2 .. p : list_'[i] = list_[i - 1]
      /\ \A i \in p + 1 .. Len(list_) : list_'[i] = list_[i]
  BY <1>1, <1>3, Fronted
<1>5. /\ Unique(list_') /\ NodesIn(list_') = NodesIn(list_)
      /\ \A y, z : Before(list_', y, z) => z # list_[p] /\ (y = list_[p] \/ Before(list_, y, z))
  BY <1>1, <1>4, FrontedList
<1> QED BY <1>2, <1>4, <1>5

\* push_front adds a node before all others.
LEMMA Pushes ==
  ASSUME NEW t \in Seq(Nodes), Unique(t), NEW n \in Nodes, n \notin NodesIn(t),
         list_' = <<n>> \o t
  PROVE  /\ list_' \in Seq(Nodes) /\ Len(list_') = Len(t) + 1
         /\ Unique(list_') /\ NodesIn(list_') = NodesIn(t) \cup {n}
         /\ \A y, z : Before(list_', y, z) => z # n /\ (y = n \/ Before(t, y, z))
<1>1. /\ list_' \in Seq(Nodes) /\ Len(list_') = Len(t) + 1 /\ list_'[1] = n
      /\ \A i \in 2 .. Len(t) + 1 : list_'[i] = t[i - 1]
  BY Prepended
<1> QED BY <1>1, PushedList

\* A client whose node is freed has used Capacity - 1 keys since, other than one
\* that is not cached, but for the nodes that exceptions have left.
LEMMA Evicted ==
  ASSUME IInv, NEW c \in Clients, Holds(c), held[c] = list_[Len(list_)], Full,
         NEW k, ~Mapped(k)
  PROVE  Cardinality(since[c] \ {k}) + throws >= Capacity - 1
<1> DEFINE last == list_[Len(list_)]
           N == NodesIn(list_) \ {last}
           O == Orphans(list_, map_)
           A == N \ O
           B == since[c] \ {k}
<1> USE LruAssumption
<1>1. /\ list_ \in Seq(Nodes) /\ Unique(list_) /\ Len(list_) = Capacity
      /\ Cardinality(NodesIn(list_)) = Len(list_) /\ throws \in Nat
  BY Finite DEF IInv, TypeOK, ListSound, Full
<1>2. last \in NodesIn(list_) /\ \A n \in N : Before(list_, n, last)
  <2>1. Len(list_) > 0
    BY <1>1
  <2>2. /\ SubSeq(list_, 1, Len(list_) - 1) \in Seq(Nodes)
        /\ Len(SubSeq(list_, 1, Len(list_) - 1)) = Len(list_) - 1
        /\ \A i \in 1 .. Len(list_) - 1 : SubSeq(list_, 1, Len(list_) - 1)[i] = list_[i]
    BY <1>1, <2>1, Popped
  <2>3. PICK f \in Seq(Nodes) : /\ Len(f) = Len(list_) - 1
                                /\ \A i \in 1 .. Len(list_) - 1 : f[i] = list_[i]
    BY <2>2
  <2> QED BY <1>1, <2>1, <2>3, PoppedList
<1>3. \A n \in A : content[n].key \in B /\ map_[content[n].key] = n
  <2> SUFFICES ASSUME NEW n \in A PROVE content[n].key \in B /\ map_[content[n].key] = n
    OBVIOUS
  <2>1. PICK j \in DOMAIN map_ : map_[j] = n
    BY DEF Orphans
  <2>2. content[n].key = j /\ j # k
    BY <2>1 DEF IInv, MapSound, Mapped
  <2>3. j \in since[c]
    BY <1>2, <2>1 DEF IInv, SinceCounts
  <2> QED BY <2>1, <2>2, <2>3
<1>4. IsFiniteSet(O) /\ IsFiniteSet(N) /\ IsFiniteSet(A) /\ IsFiniteSet(B)
  <2>1. IsFiniteSet(since[c]) /\ IsFiniteSet(NodesIn(list_)) /\ IsFiniteSet(O)
    BY Finite DEF IInv, SinceCounts
  <2> QED BY <2>1, FS_Subset
<1>5. Cardinality(A) <= Cardinality(B)
  <2> DEFINE g == [n \in A |-> content[n].key]
  <2>1. g \in Injection(A, B)
    BY <1>3 DEF Injection, IsInjective
  <2> QED BY <1>4, <2>1, FS_Injection
<1>6. Cardinality(N) = Capacity - 1
  <2>1. IsFiniteSet(NodesIn(list_)) /\ last \in NodesIn(list_)
    BY <1>2, Finite
  <2>2. Cardinality(N) = Cardinality(NodesIn(list_)) - 1
    BY <2>1, FS_RemoveElement
  <2> QED BY <1>1, <2>2
<1>7. Cardinality(N) <= Cardinality(A) + Cardinality(O)
  <2>1. /\ IsFiniteSet(A \cup O)
        /\ Cardinality(A \cup O) = Cardinality(A) + Cardinality(O) - Cardinality(A \cap O)
    BY <1>4, FS_Union
  <2>2. Cardinality(N) <= Cardinality(A \cup O)
    BY <2>1, FS_Subset
  <2>3. A \cap O = {} /\ Cardinality({}) = 0
    BY FS_EmptySet
  <2>4. Cardinality(A \cup O) = Cardinality(A) + Cardinality(O)
    <3>1. Cardinality(A) \in Nat /\ Cardinality(O) \in Nat
      BY <1>4, FS_CardinalityType
    <3>2. Cardinality(A \cap O) = 0
      BY <2>3
    <3> QED BY <2>1, <3>1, <3>2
  <2> QED BY <2>2, <2>4
<1>8. Cardinality(O) <= throws
  BY DEF IInv, FewOrphans
<1>9. /\ Cardinality(A) \in Nat /\ Cardinality(B) \in Nat /\ Cardinality(O) \in Nat
      /\ Cardinality(N) \in Nat
  BY <1>4, FS_CardinalityType
<1> HIDE DEF A, B, O, N
<1> QED BY <1>1, <1>5, <1>6, <1>7, <1>8, <1>9 DEF B

\* Room is made for one node: what stays in the list keeps its order, what stays
\* in the map leads to nodes in the list, and no more nodes are without an entry.
LEMMA Room ==
  ASSUME IInv
  PROVE  /\ Trimmed \in Seq(Nodes) /\ Len(Trimmed) < Capacity /\ Unique(Trimmed)
         /\ NodesIn(Trimmed) \subseteq NodesIn(list_)
         /\ \A y, z : Before(Trimmed, y, z) => Before(list_, y, z)
         /\ DOMAIN TrimmedMap \subseteq DOMAIN map_
         /\ \A k \in DOMAIN TrimmedMap : TrimmedMap[k] = map_[k] /\ map_[k] \in NodesIn(Trimmed)
         /\ IsFiniteSet(Orphans(Trimmed, TrimmedMap))
         /\ Cardinality(Orphans(Trimmed, TrimmedMap)) <= throws
         /\ \A n \in NodesIn(list_) \ NodesIn(Trimmed) : Full /\ n = list_[Len(list_)]
<1> USE LruAssumption
<1>1. /\ list_ \in Seq(Nodes) /\ Unique(list_) /\ Len(list_) \in Nat /\ Len(list_) <= Capacity
      /\ \A k \in DOMAIN map_ : map_[k] \in NodesIn(list_) /\ content[map_[k]].key = k
      /\ IsFiniteSet(Orphans(list_, map_)) /\ Cardinality(Orphans(list_, map_)) \in Nat
      /\ Cardinality(Orphans(list_, map_)) <= throws /\ throws \in Nat
  BY Finite DEF IInv, TypeOK, ListSound, MapSound, FewOrphans
<1>2. CASE ~Full
  <2>1. Trimmed = list_ /\ TrimmedMap = map_
    BY <1>2 DEF Trimmed, TrimmedMap
  <2>2. Len(list_) < Capacity
    BY <1>1, <1>2 DEF Full
  <2> QED BY <1>1, <2>1, <2>2
<1>3. CASE Full
  <2> DEFINE last == list_[Len(list_)]
  <2>0. Len(list_) = Capacity /\ Len(list_) > 0
    BY <1>1, <1>3 DEF Full
  <2>1. PICK t \in Seq(Nodes) : /\ t = Trimmed /\ Len(t) = Len(list_) - 1
                                /\ \A i \in 1 .. Len(list_) - 1 : t[i] = list_[i]
    <3>1. Trimmed = SubSeq(list_, 1, Len(list_) - 1)
      BY <1>3 DEF Trimmed
    <3>2. /\ SubSeq(list_, 1, Len(list_) - 1) \in Seq(Nodes)
          /\ Len(SubSeq(list_, 1, Len(list_) - 1)) = Len(list_) - 1
          /\ \A i \in 1 .. Len(list_) - 1 : SubSeq(list_, 1, Len(list_) - 1)[i] = list_[i]
      BY <1>1, <2>0, Popped
    <3>3. PICK t : t = SubSeq(list_, 1, Len(list_) - 1)
      OBVIOUS
    <3>4. /\ t \in Seq(Nodes) /\ t = Trimmed /\ Len(t) = Len(list_) - 1
          /\ \A i \in 1 .. Len(list_) - 1 : t[i] = list_[i]
      BY <3>1, <3>2, <3>3
    <3> QED BY <3>4
  <2>2. /\ Unique(t) /\ last \in NodesIn(list_) /\ NodesIn(t) = NodesIn(list_) \ {last}
        /\ \A y, z : Before(t, y, z) => Before(list_, y, z)
    BY <1>1, <2>0, <2>1, PoppedList
  <2> DEFINE key == content[last].key
  <2>3. /\ DOMAIN TrimmedMap = DOMAIN map_ \ {key}
        /\ \A k \in DOMAIN TrimmedMap : TrimmedMap[k] = map_[k]
    BY <1>3 DEF TrimmedMap
  <2>4. ASSUME NEW k \in DOMAIN TrimmedMap PROVE map_[k] \in NodesIn(t)
    <3>1. map_[k] \in NodesIn(list_) /\ content[map_[k]].key = k /\ k # key
      BY <1>1, <2>3
    <3> QED BY <2>2, <3>1
  <2> DEFINE O == Orphans(list_, map_)
             P == Orphans(t, TrimmedMap)
  <2>5. IsFiniteSet(P) /\ Cardinality(P) <= Cardinality(O)
    <3>1. CASE key \in DOMAIN map_ /\ map_[key] # last
      <4> DEFINE m == map_[key]
      <4>1. P \subseteq (O \ {last}) \cup {m}
        BY <2>2, <2>3 DEF Orphans
      <4>2. last \in O
        BY <1>1, <2>2, <3>1 DEF Orphans
      <4>3. /\ IsFiniteSet(O \ {last}) /\ Cardinality(O \ {last}) = Cardinality(O) - 1
        BY <1>1, <4>2, FS_RemoveElement
      <4>4. /\ IsFiniteSet((O \ {last}) \cup {m})
            /\ Cardinality((O \ {last}) \cup {m}) <= Cardinality(O)
        <5> PICK R : R = O \ {last}
          OBVIOUS
        <5>1. IsFiniteSet(R) /\ Cardinality(R) = Cardinality(O) - 1
          BY <4>3
        <5>2. /\ IsFiniteSet(R \cup {m})
              /\ Cardinality(R \cup {m}) = IF m \in R THEN Cardinality(R) ELSE Cardinality(R) + 1
          BY <5>1, FS_AddElement
        <5> QED BY <1>1, <5>1, <5>2
      <4>5. IsFiniteSet(P) /\ Cardinality(P) <= Cardinality((O \ {last}) \cup {m})
        BY <4>1, <4>4, FS_Subset
      <4> QED BY <1>1, <4>4, <4>5, FS_CardinalityType
    <3>2. CASE ~(key \in DOMAIN map_ /\ map_[key] # last)
      <4>1. P \subseteq O
        BY <2>2, <2>3, <3>2 DEF Orphans
      <4> QED BY <1>1, <4>1, FS_Subset
    <3> QED BY <3>1, <3>2
  <2>6. Cardinality(P) <= throws
    <3>1. Cardinality(P) \in Nat
      BY <2>5, FS_CardinalityType
    <3> QED BY <1>1, <2>5, <3>1
  <2>7. Len(t) < Capacity
    BY <2>0, <2>1
  <2> HIDE DEF last, key
  <2>8. /\ NodesIn(t) \subseteq NodesIn(list_)
        /\ \A n \in NodesIn(list_) \ NodesIn(t) : Full /\ n = list_[Len(list_)]
    BY <1>3, <2>2 DEF last
  <2> QED BY <2>1, <2>2, <2>3, <2>4, <2>5, <2>6, <2>7, <2>8
<1> QED BY <1>2, <1>3

----------------------------------------------------------------------------
(***************************************************************************)
(* What the steps of an operation do to the clients' pointers.             *)
(***************************************************************************)
LEMMA SinceTypes ==
  ASSUME IInv, NEW d \in Clients, NEW k \in Keys, NEW x
  PROVE  /\ KeysSince(d, k, x) \in SUBSET Keys /\ IsFiniteSet(KeysSince(d, k, x))
         /\ d \in dangling => KeysSince(d, k, x) = since[d]
<1>1. since[d] \in SUBSET Keys /\ IsFiniteSet(since[d])
  BY DEF IInv, TypeOK, SinceCounts
<1>2. IsFiniteSet(since[d] \cup {k})
  BY <1>1, FS_AddElement
<1>3. IsFiniteSet({})
  BY FS_EmptySet
<1> QED BY <1>1, <1>2, <1>3 DEF KeysSince

\* A client whose node is not x knows of the key k that came to the front, and of
\* the keys that were ahead of its node already.
LEMMA SinceKept ==
  ASSUME IInv, NEW d \in Clients, Holds(d), NEW x, held[d] # x, NEW k,
         NEW j, NEW m, NEW n, m = n => j = k,
         m # n => j \in DOMAIN map_ /\ map_[j] = m /\ Before(list_, m, held[d])
  PROVE  j \in KeysSince(d, k, x)
<1>1. KeysSince(d, k, x) = since[d] \cup {k}
  BY DEF KeysSince, Holds
<1>2. m # n => j \in since[d]
  BY DEF IInv, SinceCounts
<1> QED BY <1>1, <1>2

\* A node still held once room was made is not the one that was freed.
LEMMA StillHeld ==
  ASSUME IInv, NEW c \in Clients, held[c] # None, c \notin DanglingOnceTrimmed
  PROVE  Holds(c) /\ held[c] \in NodesIn(Trimmed)
BY DEF IInv, SinceCounts, Holds, DanglingOnceTrimmed

\* Whose node was freed has used Capacity keys since, less one per exception.
LEMMA Outlived ==
  ASSUME IInv, NEW k \in Keys, ~Mapped(k), NEW c \in DanglingOnceTrimmed
  PROVE  /\ c \in Clients /\ held[c] # None
         /\ Cardinality(since[c]) + throws + 1 >= Capacity
         /\ Cardinality(KeysSince(c, k, None)) + throws >= Capacity
<1> USE LruAssumption
<1>1. c \in Clients /\ throws \in Nat
  BY DEF IInv, TypeOK, DanglingOnceTrimmed
<1>2. IsFiniteSet(since[c]) /\ Cardinality(since[c]) \in Nat
  BY <1>1, FS_CardinalityType DEF IInv, SinceCounts
<1>3. CASE c \in dangling
  <2>1. held[c] # None /\ Cardinality(since[c]) + throws >= Capacity
    BY <1>3 DEF IInv, TypeOK, PointerOutlivesOtherKeys
  <2>2. KeysSince(c, k, None) = since[c]
    BY <1>1, <1>3, SinceTypes
  <2> QED BY <1>1, <1>2, <2>1, <2>2
<1>4. CASE c \notin dangling
  <2>1. held[c] \in NodesIn(list_) \ NodesIn(Trimmed)
    BY <1>4 DEF DanglingOnceTrimmed
  <2>2. held[c] # None /\ Full /\ held[c] = list_[Len(list_)] /\ Holds(c)
    BY <1>4, <2>1, Room, Finite DEF Holds
  <2> PICK S : S = since[c] \ {k}
    OBVIOUS
  <2>3. Cardinality(S) + throws >= Capacity - 1
    BY <1>1, <2>2, Evicted
  <2>4. IsFiniteSet(S) /\ Cardinality(S) <= Cardinality(since[c])
    BY <1>2, FS_Subset
  <2>5. Cardinality(S) \in Nat
    BY <2>4, FS_CardinalityType
  <2>6. Cardinality(S \cup {k}) = Cardinality(S) + 1
    BY <2>4, FS_AddElement
  <2>7. KeysSince(c, k, None) = S \cup {k}
    BY <1>4, <2>2 DEF KeysSince
  <2>8. Cardinality(KeysSince(c, k, None)) = Cardinality(S) + 1
    BY <2>6, <2>7
  <2> QED BY <1>1, <1>2, <2>2, <2>3, <2>4, <2>5, <2>8
<1> QED BY <1>3, <1>4

----------------------------------------------------------------------------
(***************************************************************************)
(* Each call keeps the invariant.                                          *)
(***************************************************************************)
LEMMA GetMisses ==
  ASSUME IInv, NEW c \in Clients, NEW k \in Keys, GetMiss(c, k)
  PROVE  IInv'
<1>1. IsFiniteSet({})
  BY FS_EmptySet
<1>2. /\ held' = [held EXCEPT ![c] = None] /\ since' = [since EXCEPT ![c] = {}]
      /\ dangling' = dangling \ {c} /\ result' = NoValue
      /\ list_' = list_ /\ map_' = map_ /\ content' = content /\ throws' = throws
  BY DEF GetMiss, cache
<1>3. TypeOK'
  BY <1>2 DEF IInv, TypeOK, NodesIn
<1>4. ListSound' /\ MapSound' /\ FewOrphans'
  BY <1>2 DEF IInv, ListSound, MapSound, FewOrphans, Orphans, NodesIn, Unique
<1>5. \A d \in Clients : IF d = c THEN held'[d] = None /\ since'[d] = {}
                               ELSE held'[d] = held[d] /\ since'[d] = since[d]
  BY <1>2 DEF IInv, TypeOK
<1>6. SinceCounts'
  <2>0. /\ \A d \in Clients : IsFiniteSet(since[d])
        /\ \A d \in Clients : Holds(d) => held[d] \in NodesIn(list_)
        /\ \A d \in Clients, j \in DOMAIN map_ :
             Holds(d) /\ Before(list_, map_[j], held[d]) => j \in since[d]
    BY DEF IInv, SinceCounts
  <2>1. ASSUME NEW d \in Clients PROVE IsFiniteSet(since'[d])
    <3>1. CASE d = c
      BY <1>1, <1>5, <3>1
    <3>2. CASE d # c
      BY <1>5, <2>0, <3>2
    <3> QED BY <3>1, <3>2
  <2>3. ASSUME NEW d \in Clients, held'[d] # None, d \notin dangling'
        PROVE  /\ held'[d] \in NodesIn(list_)
               /\ \A j \in DOMAIN map_ : Before(list_, map_[j], held'[d]) => j \in since'[d]
    <3>1. d # c /\ held'[d] = held[d] /\ since'[d] = since[d]
      BY <1>5, <2>3
    <3>2. Holds(d)
      BY <1>2, <2>3, <3>1 DEF Holds
    <3> QED BY <2>0, <3>1, <3>2
  <2> QED BY <1>2, <2>1, <2>3 DEF SinceCounts, Holds
<1>7. PointerOutlivesOtherKeys'
  BY <1>2, <1>5 DEF IInv, TypeOK, PointerOutlivesOtherKeys
<1> QED BY <1>3, <1>4, <1>6, <1>7 DEF IInv

LEMMA GetHits ==
  ASSUME IInv, NEW c \in Clients, NEW k \in Keys, GetHit(c, k)
  PROVE  IInv'
<1> PICK n : n = map_[k]
  OBVIOUS
<1>1. k \in DOMAIN map_ /\ n \in NodesIn(list_) /\ n \in Nodes
  BY Finite DEF GetHit, Mapped, IInv, MapSound
<1>2. /\ list_' \in Seq(Nodes) /\ Len(list_') = Len(list_)
      /\ Unique(list_)' /\ NodesIn(list_)' = NodesIn(list_)
      /\ \A y, z : Before(list_', y, z) => z # n /\ (y = n \/ Before(list_, y, z))
  BY <1>1, Splices DEF GetHit
<1>3. /\ held' = [held EXCEPT ![c] = n] /\ dangling' = dangling \ {c}
      /\ since' = [d \in Clients |-> IF d = c THEN {} ELSE KeysSince(d, k, n)]
      /\ result' = ValueOf(k) /\ map_' = map_ /\ content' = content /\ throws' = throws
  BY DEF GetHit
<1>4. n # None /\ IsFiniteSet({})
  BY <1>1, LruAssumption, FS_EmptySet
<1>5. \A d \in Clients : IF d = c THEN held'[d] = n /\ since'[d] = {}
                               ELSE held'[d] = held[d] /\ since'[d] = KeysSince(d, k, n)
  BY <1>3 DEF IInv, TypeOK
<1>6. ASSUME NEW d \in Clients
      PROVE  /\ since'[d] \in SUBSET Keys /\ IsFiniteSet(since'[d])
             /\ d \in dangling' => held'[d] = held[d] /\ since'[d] = since[d]
  BY <1>3, <1>4, <1>5, SinceTypes
<1>7. TypeOK'
  <2>1. content[n].value \in Values
    BY <1>1 DEF IInv, ListSound
  <2>2. since' \in [Clients -> SUBSET Keys]
    BY <1>3, <1>6
  <2>3. Cardinality(NodesIn(list_)') = Len(list_')
    BY <1>2 DEF IInv, TypeOK
  <2>4. dangling' \subseteq {d \in Clients : held'[d] # None}
    BY <1>3, <1>5 DEF IInv, TypeOK
  <2> QED BY <1>1, <1>2, <1>3, <2>1, <2>2, <2>3, <2>4 DEF IInv, TypeOK, ValueOf
<1>8. ListSound' /\ MapSound' /\ FewOrphans'
  BY <1>2, <1>3 DEF IInv, ListSound, MapSound, FewOrphans, Orphans
<1>9. ASSUME NEW d \in Clients, held'[d] # None, d \notin dangling'
      PROVE  /\ held'[d] \in NodesIn(list_)
             /\ \A j \in DOMAIN map_ : Before(list_', map_[j], held'[d]) => j \in since'[d]
  <2>1. CASE d = c
    BY <1>1, <1>2, <1>5, <2>1
  <2>2. CASE d # c
    <3>1. Holds(d) /\ held'[d] = held[d] /\ since'[d] = KeysSince(d, k, n)
      BY <1>3, <1>5, <1>9, <2>2 DEF Holds
    <3>2. held[d] \in NodesIn(list_)
      BY <3>1 DEF IInv, SinceCounts
    <3>3. ASSUME NEW j \in DOMAIN map_, Before(list_', map_[j], held[d])
          PROVE  j \in KeysSince(d, k, n)
      <4> PICK m : m = map_[j]
        OBVIOUS
      <4>1. held[d] # n /\ (m # n => Before(list_, m, held[d]))
        BY <1>2, <3>3
      <4>2. m = n => j = k
        BY <1>1 DEF IInv, MapSound
      <4> QED BY <3>1, <4>1, <4>2, SinceKept
    <3> QED BY <3>1, <3>2, <3>3
  <2> QED BY <2>1, <2>2
<1>10. SinceCounts'
  BY <1>2, <1>3, <1>6, <1>9 DEF SinceCounts, Holds
<1>11. PointerOutlivesOtherKeys'
  BY <1>3, <1>6 DEF IInv, TypeOK, PointerOutlivesOtherKeys
<1> QED BY <1>7, <1>8, <1>10, <1>11 DEF IInv

LEMMA PutUpdates ==
  ASSUME IInv, NEW k \in Keys, NEW v \in Values, PutUpdate(k, v)
  PROVE  IInv'
<1> PICK n : n = map_[k]
  OBVIOUS
<1>1. k \in DOMAIN map_ /\ n \in NodesIn(list_) /\ n \in Nodes
  BY Finite DEF PutUpdate, Mapped, IInv, MapSound
<1>2. /\ list_' \in Seq(Nodes) /\ Len(list_') = Len(list_)
      /\ Unique(list_)' /\ NodesIn(list_)' = NodesIn(list_)
      /\ \A y, z : Before(list_', y, z) => z # n /\ (y = n \/ Before(list_, y, z))
  BY <1>1, Splices DEF PutUpdate
<1>3. /\ content' = [content EXCEPT ![n].value = v]
      /\ since' = [d \in Clients |-> KeysSince(d, k, n)]
      /\ result' = NoValue /\ map_' = map_ /\ held' = held
      /\ dangling' = dangling /\ throws' = throws
  BY DEF PutUpdate, Recorded
<1>4. /\ content' \in [Nodes -> [key : Keys, value : Values] \cup {None}]
      /\ \A m \in NodesIn(list_) :
           content'[m] \in [key : Keys, value : Values] /\ content'[m].key = content[m].key
  <2>1. /\ content \in [Nodes -> [key : Keys, value : Values] \cup {None}]
        /\ \A m \in NodesIn(list_) : m \in Nodes /\ content[m] \in [key : Keys, value : Values]
    BY Finite DEF IInv, TypeOK, ListSound
  <2>2. [content[n] EXCEPT !.value = v] \in [key : Keys, value : Values]
        /\ [content[n] EXCEPT !.value = v].key = content[n].key
    BY <1>1, <2>1
  <2>3. content' = [content EXCEPT ![n] = [content[n] EXCEPT !.value = v]]
    BY <1>3
  <2> QED BY <1>1, <2>1, <2>2, <2>3
<1>5. ASSUME NEW d \in Clients
      PROVE  /\ since'[d] = KeysSince(d, k, n)
             /\ since'[d] \in SUBSET Keys /\ IsFiniteSet(since'[d])
             /\ d \in dangling => since'[d] = since[d]
  BY <1>3, SinceTypes
<1>6. TypeOK'
  <2>1. since' \in [Clients -> SUBSET Keys]
    BY <1>3, <1>5
  <2>2. Cardinality(NodesIn(list_)') = Len(list_')
    BY <1>2 DEF IInv, TypeOK
  <2> QED BY <1>2, <1>3, <1>4, <2>1, <2>2 DEF IInv, TypeOK
<1>7. ListSound' /\ MapSound' /\ FewOrphans'
  BY <1>2, <1>3, <1>4 DEF IInv, ListSound, MapSound, FewOrphans, Orphans
<1>8. ASSUME NEW d \in Clients, Holds(d), NEW j \in DOMAIN map_, Before(list_', map_[j], held[d])
      PROVE  j \in since'[d]
  <2> PICK m : m = map_[j]
    OBVIOUS
  <2>1. held[d] # n /\ (m # n => Before(list_, m, held[d]))
    BY <1>2, <1>8
  <2>2. m = n => j = k
    BY <1>1 DEF IInv, MapSound
  <2>3. j \in KeysSince(d, k, n)
    BY <1>8, <2>1, <2>2, SinceKept
  <2> QED BY <1>5, <2>3
<1>9. SinceCounts'
  BY <1>2, <1>3, <1>5, <1>8 DEF IInv, SinceCounts, Holds
<1>10. PointerOutlivesOtherKeys'
  BY <1>3, <1>5 DEF IInv, TypeOK, PointerOutlivesOtherKeys
<1> QED BY <1>6, <1>7, <1>9, <1>10 DEF IInv

\* push_front, whether the key gets its entry in the map or not.
LEMMA PushesFront ==
  ASSUME IInv, NEW k \in Keys, NEW v \in Values, NEW n \in Nodes, ~Mapped(k), PushFront(k, v, n),
         held' = held, dangling' = DanglingOnceTrimmed, result' \in Values \cup {NoValue},
         throws' \in 0 .. MaxThrows, throws' >= throws,
         DOMAIN map_' \subseteq DOMAIN TrimmedMap \cup {k},
         \A j \in DOMAIN map_' : map_'[j] = IF j = k THEN n ELSE TrimmedMap[j],
         Cardinality(Orphans(list_', map_')) <= throws'
  PROVE  IInv'
<1> USE LruAssumption
<1> PICK t \in Seq(Nodes) : t = Trimmed
  BY Room
<1>1. /\ Len(t) < Capacity /\ Unique(t) /\ NodesIn(t) \subseteq NodesIn(list_) /\ n \notin NodesIn(t)
      /\ \A y, z : Before(t, y, z) => Before(list_, y, z)
      /\ DOMAIN TrimmedMap \subseteq DOMAIN map_
      /\ \A j \in DOMAIN TrimmedMap : TrimmedMap[j] = map_[j] /\ map_[j] \in NodesIn(t)
  BY Room DEF PushFront
<1>2. /\ list_' \in Seq(Nodes) /\ Len(list_') = Len(t) + 1
      /\ Unique(list_') /\ NodesIn(list_') = NodesIn(t) \cup {n}
      /\ \A y, z : Before(list_', y, z) => z # n /\ (y = n \/ Before(t, y, z))
  <2>1. list_' = <<n>> \o t
    BY DEF PushFront
  <2> QED BY <1>1, <2>1, Pushes
<1>3. /\ content' = [content EXCEPT ![n] = [key |-> k, value |-> v]]
      /\ since' = [c \in Clients |-> KeysSince(c, k, None)]
  BY DEF PushFront
<1>4. /\ content' \in [Nodes -> [key : Keys, value : Values] \cup {None}]
      /\ content'[n] \in [key : Keys, value : Values] /\ content'[n].key = k
      /\ \A m \in NodesIn(t) : content'[m] = content[m] /\ content[m] \in [key : Keys, value : Values]
  <2>1. /\ content \in [Nodes -> [key : Keys, value : Values] \cup {None}]
        /\ \A m \in NodesIn(list_) : m \in Nodes /\ content[m] \in [key : Keys, value : Values]
    BY Finite DEF IInv, TypeOK, ListSound
  <2> QED BY <1>1, <1>3, <2>1
<1>5. ASSUME NEW j \in DOMAIN map_'
      PROVE  /\ j \in Keys /\ map_'[j] \in NodesIn(list_') /\ map_'[j] \in Nodes
             /\ content'[map_'[j]].key = j
             /\ IF j = k THEN map_'[j] = n
                        ELSE map_'[j] # n /\ j \in DOMAIN map_ /\ map_[j] = map_'[j]
  <2>1. CASE j = k
    BY <1>2, <1>4, <2>1
  <2>2. CASE j # k
    <3>1. j \in DOMAIN TrimmedMap /\ map_'[j] = map_[j] /\ map_[j] \in NodesIn(t) /\ j \in DOMAIN map_
      BY <1>1, <2>2
    <3>2. content[map_[j]].key = j /\ j \in Keys /\ map_[j] \in Nodes
      BY <3>1 DEF IInv, MapSound, TypeOK
    <3> QED BY <1>1, <1>2, <1>4, <2>2, <3>1, <3>2
  <2> QED BY <2>1, <2>2
<1>6. ASSUME NEW d \in Clients
      PROVE  /\ since'[d] = KeysSince(d, k, None)
             /\ since'[d] \in SUBSET Keys /\ IsFiniteSet(since'[d])
  BY <1>3, SinceTypes
<1>7. TypeOK'
  <2>1. since' \in [Clients -> SUBSET Keys]
    BY <1>3, <1>6
  <2>2. Cardinality(NodesIn(list_')) = Len(list_')
    BY <1>2, Counted
  <2>3. Len(list_') <= Capacity
    <3>1. Len(t) \in Nat
      BY LenProperties
    <3> QED BY <1>1, <1>2, <3>1
  <2>4. dangling' \subseteq {c \in Clients : held'[c] # None}
    BY Outlived
  <2>5. DOMAIN map_' \subseteq Keys /\ \A j \in DOMAIN map_' : map_'[j] \in Nodes
    BY <1>5
  <2> QED BY <1>2, <1>4, <2>1, <2>2, <2>3, <2>4, <2>5 DEF IInv, TypeOK
<1>8. ListSound'
  <2>1. \A m \in NodesIn(list_') : content'[m] \in [key : Keys, value : Values]
    BY <1>2, <1>4
  <2> QED BY <1>2, <2>1 DEF ListSound
<1>9. MapSound' /\ FewOrphans'
  BY <1>5 DEF MapSound, FewOrphans
<1>10. ASSUME NEW d \in Clients, held[d] # None, d \notin dangling'
       PROVE  /\ held[d] \in NodesIn(list_')
              /\ \A j \in DOMAIN map_' : Before(list_', map_'[j], held[d]) => j \in since'[d]
  <2>1. Holds(d) /\ held[d] \in NodesIn(t)
    BY <1>10, StillHeld
  <2>2. ASSUME NEW j \in DOMAIN map_', Before(list_', map_'[j], held[d]) PROVE j \in since'[d]
    <3> PICK m : m = map_'[j]
      OBVIOUS
    <3>1. held[d] # None /\ (m = n => j = k)
      BY <1>5, <1>10
    <3>2. m # n => j \in DOMAIN map_ /\ map_[j] = m /\ Before(list_, m, held[d])
      BY <1>1, <1>2, <1>5, <2>2
    <3>3. j \in KeysSince(d, k, None)
      BY <2>1, <3>1, <3>2, SinceKept
    <3> QED BY <1>6, <3>3
  <2> QED BY <1>2, <2>1, <2>2
<1>11. SinceCounts'
  BY <1>6, <1>10 DEF SinceCounts, Holds
<1>12. PointerOutlivesOtherKeys'
  <2>1. ASSUME NEW c \in dangling' PROVE Cardinality(since'[c]) + throws' >= Capacity
    <3>1. c \in Clients /\ Cardinality(KeysSince(c, k, None)) + throws >= Capacity
      BY Outlived
    <3>2. Cardinality(KeysSince(c, k, None)) \in Nat /\ throws \in Nat
      BY <3>1, SinceTypes, FS_CardinalityType DEF IInv, TypeOK
    <3> QED BY <1>6, <3>1, <3>2
  <2> QED BY <2>1 DEF PointerOutlivesOtherKeys
<1> QED BY <1>7, <1>8, <1>9, <1>11, <1>12 DEF IInv

LEMMA PutInserts ==
  ASSUME IInv, NEW k \in Keys, NEW v \in Values, PutInsert(k, v)
  PROVE  IInv'
<1>1. PICK n \in Nodes :
        /\ PushFront(k, v, n)
        /\ map_' = [j \in DOMAIN TrimmedMap \cup {k} |-> IF j = k THEN n ELSE TrimmedMap[j]]
  BY DEF PutInsert
<1>2. /\ ~Mapped(k) /\ held' = held /\ dangling' = DanglingOnceTrimmed
      /\ result' = NoValue /\ throws' = throws
  BY DEF PutInsert, Recorded
<1>3. throws \in 0 .. MaxThrows /\ throws' >= throws /\ throws' \in 0 .. MaxThrows
  BY <1>2, LruAssumption DEF IInv, TypeOK
<1>4. Orphans(list_', map_') \subseteq Orphans(Trimmed, TrimmedMap)
  <2>1. NodesIn(list_') = NodesIn(Trimmed) \cup {n} /\ k \notin DOMAIN TrimmedMap
    BY <1>1, <1>2, Room, Pushes DEF PushFront, Mapped
  <2> QED BY <1>1, <2>1 DEF Orphans
<1>5. Cardinality(Orphans(list_', map_')) <= throws'
  <2>1. /\ Cardinality(Orphans(list_', map_')) <= Cardinality(Orphans(Trimmed, TrimmedMap))
        /\ IsFiniteSet(Orphans(list_', map_'))
    BY <1>4, Room, FS_Subset
  <2>2. Cardinality(Orphans(list_', map_')) \in Nat /\ Cardinality(Orphans(Trimmed, TrimmedMap)) \in Nat
    BY <2>1, Room, FS_CardinalityType
  <2> QED BY <1>2, <1>3, <2>1, <2>2, Room
<1>6. /\ DOMAIN map_' \subseteq DOMAIN TrimmedMap \cup {k}
      /\ \A j \in DOMAIN map_' : map_'[j] = IF j = k THEN n ELSE TrimmedMap[j]
  BY <1>1
<1> QED BY <1>1, <1>2, <1>3, <1>5, <1>6, PushesFront

LEMMA PutsThrowLate ==
  ASSUME IInv, NEW k \in Keys, NEW v \in Values, PutThrowsLate(k, v)
  PROVE  IInv'
<1> USE LruAssumption
<1>1. PICK n \in Nodes : PushFront(k, v, n)
  BY DEF PutThrowsLate
<1>2. /\ ~Mapped(k) /\ held' = held /\ dangling' = DanglingOnceTrimmed
      /\ throws' = throws + 1 /\ throws < MaxThrows /\ map_' = TrimmedMap
      /\ result' \in Values \cup {NoValue} /\ throws \in 0 .. MaxThrows
  BY DEF PutThrowsLate, history, IInv, TypeOK
<1>3. throws' >= throws /\ throws' \in 0 .. MaxThrows
  BY <1>2
<1>4. /\ DOMAIN map_' \subseteq DOMAIN TrimmedMap \cup {k}
      /\ \A j \in DOMAIN map_' : map_'[j] = IF j = k THEN n ELSE TrimmedMap[j]
  BY <1>2, Room DEF Mapped
<1>5. Cardinality(Orphans(list_', map_')) <= throws'
  <2> DEFINE O == Orphans(Trimmed, TrimmedMap)
  <2>1. NodesIn(list_') = NodesIn(Trimmed) \cup {n}
    BY <1>1, Room, Pushes DEF PushFront
  <2>2. Orphans(list_', map_') \subseteq O \cup {n}
    BY <1>2, <2>1 DEF Orphans
  <2>3. IsFiniteSet(O) /\ Cardinality(O) \in Nat /\ Cardinality(O) <= throws
    BY Room, FS_CardinalityType
  <2> HIDE DEF O
  <2>4. IsFiniteSet(O \cup {n}) /\ Cardinality(O \cup {n}) <= Cardinality(O) + 1
    <3>1. /\ IsFiniteSet(O \cup {n})
          /\ Cardinality(O \cup {n}) = IF n \in O THEN Cardinality(O) ELSE Cardinality(O) + 1
      BY <2>3, FS_AddElement
    <3> QED BY <2>3, <3>1
  <2>5. /\ IsFiniteSet(Orphans(list_', map_'))
        /\ Cardinality(Orphans(list_', map_')) <= Cardinality(O \cup {n})
    BY <2>2, <2>4, FS_Subset
  <2>6. Cardinality(Orphans(list_', map_')) \in Nat /\ Cardinality(O \cup {n}) \in Nat
    BY <2>4, <2>5, FS_CardinalityType
  <2> QED BY <1>2, <2>3, <2>4, <2>5, <2>6
<1> QED BY <1>1, <1>2, <1>3, <1>4, <1>5, PushesFront

LEMMA PutsThrowEarly ==
  ASSUME IInv, NEW k \in Keys, PutThrowsEarly(k)
  PROVE  IInv'
<1> USE LruAssumption
<1>1. /\ list_' = Trimmed /\ map_' = TrimmedMap /\ dangling' = DanglingOnceTrimmed
      /\ content' = content /\ held' = held /\ since' = since /\ result' = result
      /\ ~Mapped(k) /\ throws' = throws + 1 /\ throws < MaxThrows
  BY DEF PutThrowsEarly, history
<1>2. /\ Trimmed \in Seq(Nodes) /\ Len(Trimmed) < Capacity /\ Unique(Trimmed)
      /\ NodesIn(Trimmed) \subseteq NodesIn(list_)
      /\ \A y, z : Before(Trimmed, y, z) => Before(list_, y, z)
      /\ DOMAIN TrimmedMap \subseteq DOMAIN map_
      /\ \A j \in DOMAIN TrimmedMap : TrimmedMap[j] = map_[j] /\ map_[j] \in NodesIn(Trimmed)
  BY Room
<1>3. throws \in 0 .. MaxThrows /\ throws' \in 0 .. MaxThrows
  BY <1>1 DEF IInv, TypeOK
<1>4. TypeOK'
  <2>1. Cardinality(NodesIn(list_')) = Len(list_')
    BY <1>1, <1>2, Counted
  <2>2. Len(list_') <= Capacity
    <3>1. Len(Trimmed) \in Nat
      BY <1>2, LenProperties
    <3> QED BY <1>1, <1>2, <3>1
  <2>3. dangling' \subseteq {c \in Clients : held'[c] # None}
    BY <1>1, Outlived
  <2>4. DOMAIN map_' \subseteq Keys /\ \A j \in DOMAIN map_' : map_'[j] \in Nodes
    BY <1>1, <1>2 DEF IInv, TypeOK
  <2> QED BY <1>1, <1>2, <1>3, <2>1, <2>2, <2>3, <2>4 DEF IInv, TypeOK
<1>5. ListSound'
  BY <1>1, <1>2 DEF IInv, ListSound
<1>6. MapSound'
  BY <1>1, <1>2 DEF IInv, MapSound
<1>7. FewOrphans'
  <2>1. Cardinality(Orphans(list_', map_')) \in Nat /\ Cardinality(Orphans(list_', map_')) <= throws
    BY <1>1, Room, FS_CardinalityType
  <2> QED BY <1>1, <1>3, <2>1 DEF FewOrphans
<1>8. ASSUME NEW d \in Clients, held[d] # None, d \notin dangling'
      PROVE  /\ held[d] \in NodesIn(list_')
             /\ \A j \in DOMAIN map_' : Before(list_', map_'[j], held[d]) => j \in since[d]
  <2>1. Holds(d) /\ held[d] \in NodesIn(Trimmed)
    BY <1>1, <1>8, StillHeld
  <2> QED BY <1>1, <1>2, <2>1 DEF IInv, SinceCounts
<1>9. SinceCounts'
  BY <1>1, <1>8 DEF IInv, SinceCounts, Holds
<1>10. PointerOutlivesOtherKeys'
  <2>1. ASSUME NEW c \in dangling' PROVE Cardinality(since'[c]) + throws' >= Capacity
    <3>1. c \in Clients /\ Cardinality(since[c]) + throws + 1 >= Capacity
      BY <1>1, Outlived
    <3>2. Cardinality(since[c]) \in Nat
      BY <3>1, FS_CardinalityType DEF IInv, SinceCounts
    <3> QED BY <1>1, <1>3, <3>1, <3>2
  <2> QED BY <2>1 DEF PointerOutlivesOtherKeys
<1> QED BY <1>4, <1>5, <1>6, <1>7, <1>9, <1>10 DEF IInv

LEMMA IInit == Init => IInv
<1> SUFFICES ASSUME Init PROVE IInv
  OBVIOUS
<1> USE LruAssumption
<1>1. IsFiniteSet({}) /\ Cardinality({}) = 0
  BY FS_EmptySet
<1>2. list_ = <<>> /\ Len(list_) = 0 /\ NodesIn(list_) = {} /\ list_ \in Seq(Nodes)
  BY DEF Init, NodesIn
<1>3. TypeOK
  <2>1. DOMAIN map_ = {} /\ throws \in 0 .. MaxThrows /\ Len(list_) <= Capacity
    BY <1>2 DEF Init
  <2>2. Cardinality(NodesIn(list_)) = Len(list_)
    BY <1>1, <1>2
  <2>3. /\ content \in [Nodes -> [key : Keys, value : Values] \cup {None}]
        /\ held \in [Clients -> Nodes \cup {None}] /\ since \in [Clients -> SUBSET Keys]
        /\ dangling = {} /\ result = NoValue
    BY DEF Init
  <2> QED BY <1>2, <2>1, <2>2, <2>3 DEF TypeOK
<1>4. ListSound /\ MapSound
  BY <1>2 DEF Init, ListSound, MapSound, Unique
<1>5. FewOrphans
  <2>1. Orphans(list_, map_) = {} /\ throws = 0
    BY <1>2 DEF Init, Orphans
  <2> QED BY <1>1, <2>1 DEF FewOrphans
<1>6. SinceCounts /\ PointerOutlivesOtherKeys
  BY <1>1 DEF Init, SinceCounts, Holds, PointerOutlivesOtherKeys
<1> QED BY <1>3, <1>4, <1>5, <1>6 DEF IInv

LEMMA IStep == IInv /\ [Next]_vars => IInv'
<1> SUFFICES ASSUME IInv, [Next]_vars PROVE IInv'
  OBVIOUS
<1>1. CASE UNCHANGED vars
  BY <1>1 DEF vars, cache, clients, history, IInv, TypeOK, ListSound, MapSound, FewOrphans, Orphans,
              SinceCounts, Holds, PointerOutlivesOtherKeys
<1> QED
  BY <1>1, GetMisses, GetHits, PutUpdates, PutInserts, PutsThrowEarly, PutsThrowLate DEF Next, Get, Put

LEMMA Inductive == Spec => []IInv
BY IInit, IStep, PTL DEF Spec

----------------------------------------------------------------------------
\* For every capacity: an entry of the map leads to a node in the list that carries
\* its key, whatever exceptions put () has been left by, and no more nodes are
\* without an entry than there were exceptions (lru_cache.h:47-54).
THEOREM MapAgrees == Spec => []MapAgreesWithList
<1>1. IInv => MapAgreesWithList
  BY DEF IInv, MapSound, FewOrphans, Orphans, MapAgreesWithList
<1> QED BY <1>1, Inductive, PTL

\* The pointer get () returned stays good until Capacity other keys have been used,
\* by any number of clients, less one for every put () that threw
\* (concurrent_lru_cache.h:35, 50-58).
THEOREM PointersLast == Spec => []PointerOutlivesOtherKeys
<1>1. IInv => PointerOutlivesOtherKeys
  BY DEF IInv
<1> QED BY <1>1, Inductive, PTL

----------------------------------------------------------------------------
(***************************************************************************)
(* Without exceptions the list is the beginning of the order of use, up to *)
(* Capacity, and the map has entries for its keys and no others.           *)
(***************************************************************************)
Recent ==
  /\ order \in Seq(Keys) /\ Unique(order) /\ latest \in [Keys -> Values \cup {NoValue}]
  /\ Len(list_) <= Len(order) /\ (Len(list_) < Capacity => Len(order) = Len(list_))
  /\ \A i \in 1 .. Len(list_) :
       /\ order[i] \in DOMAIN map_ /\ map_[order[i]] = list_[i]
       /\ content[list_[i]].value = latest[order[i]]
  /\ \A k \in DOMAIN map_ : \E i \in 1 .. Len(list_) : order[i] = k

\* What is found in the map is what the policy calls cached.
LEMMA MappedIsCached ==
  ASSUME IInv, Recent, NEW k
  PROVE  Mapped(k) <=> Policy!Cached(k)
<1>1. Len(list_) \in Nat /\ Len(order) \in Nat /\ Len(list_) <= Capacity
  BY LenProperties DEF IInv, TypeOK, Recent
<1>2. \A i \in 1 .. Len(order) : i <= Capacity <=> i \in 1 .. Len(list_)
  BY <1>1, LruAssumption DEF Recent
<1>3. 1 .. Len(list_) \subseteq 1 .. Len(order)
  BY <1>1 DEF Recent
<1> QED BY <1>2, <1>3 DEF Mapped, Policy!Cached, Recent

\* The cache's history and the policy move a key to the front alike.
LEMMA SameMove ==
  ASSUME NEW k
  PROVE  ToFront(order, k) = Policy!MoveToFront(k)
<1>1. k \in NodesIn(order) <=> Policy!Used(k)
  BY DEF NodesIn, Policy!Used
<1>2. CASE k \in NodesIn(order)
  <2> DEFINE p == CHOOSE i \in 1 .. Len(order) : order[i] = k
             rest == SubSeq(order, 1, p - 1) \o SubSeq(order, p + 1, Len(order))
  <2>1. Without(order, k) = rest
    BY <1>2 DEF Without
  <2>2. Policy!MoveToFront(k) = <<k>> \o rest
    BY <1>1, <1>2, Zenon DEF Policy!MoveToFront
  <2> QED BY <2>1, <2>2, Zenon DEF ToFront
<1>3. CASE k \notin NodesIn(order)
  BY <1>1, <1>3 DEF ToFront, Without, Policy!MoveToFront
<1> QED BY <1>2, <1>3

\* A key that was not in use comes first, one that was moves.
LEMMA FrontedNew ==
  ASSUME NEW S, NEW s \in Seq(S), Unique(s), NEW x \in S, x \notin NodesIn(s)
  PROVE  /\ ToFront(s, x) \in Seq(S) /\ Len(ToFront(s, x)) = Len(s) + 1 /\ ToFront(s, x)[1] = x
         /\ \A i \in 2 .. Len(s) + 1 : ToFront(s, x)[i] = s[i - 1]
<1> PICK f : f = ToFront(s, x)
  OBVIOUS
<1>1. f = <<x>> \o s
  BY DEF ToFront, Without
<1> QED BY <1>1, Prepended

\* A key that is cached moves to the front of both orders alike.
LEMMA MovesBoth ==
  ASSUME IInv, Recent, NEW k \in Keys, Mapped(k), Splice(map_[k]), order' = ToFront(order, k)
  PROVE  /\ order' \in Seq(Keys) /\ Unique(order') /\ Len(order') = Len(order)
         /\ Len(list_') = Len(list_)
         /\ \A i \in 1 .. Len(list_') : \E j \in 1 .. Len(list_) :
              order'[i] = order[j] /\ list_'[i] = list_[j]
         /\ \A j \in 1 .. Len(list_) : \E i \in 1 .. Len(list_') : order'[i] = order[j]
<1>1. /\ list_ \in Seq(Nodes) /\ Unique(list_) /\ order \in Seq(Keys) /\ Unique(order)
      /\ Len(list_) \in Nat /\ Len(order) \in Nat /\ Len(list_) <= Len(order)
  BY LenProperties DEF IInv, TypeOK, ListSound, Recent
<1>2. PICK p \in 1 .. Len(list_) : order[p] = k /\ map_[k] = list_[p]
  BY DEF Mapped, Recent
<1>3. p \in 1 .. Len(order)
  BY <1>1
<1>4. /\ list_' \in Seq(Nodes) /\ Len(list_') = Len(list_) /\ list_'[1] = list_[p]
      /\ \A i \in 2 .. p : list_'[i] = list_[i - 1]
      /\ \A i \in p + 1 .. Len(list_) : list_'[i] = list_[i]
  <2>1. list_' = ToFront(list_, list_[p])
    BY <1>2 DEF Splice
  <2> QED BY <1>1, <2>1, Fronted
<1>5. /\ order' \in Seq(Keys) /\ Len(order') = Len(order) /\ order'[1] = order[p]
      /\ \A i \in 2 .. p : order'[i] = order[i - 1]
      /\ \A i \in p + 1 .. Len(order) : order'[i] = order[i]
  <2>1. order' = ToFront(order, order[p])
    BY <1>2
  <2> QED BY <1>1, <1>3, <2>1, Fronted
<1>6. Unique(order')
  BY <1>1, <1>3, <1>5, FrontedList
<1>7. ASSUME NEW i \in 1 .. Len(list_)
      PROVE  \E j \in 1 .. Len(list_) : order'[i] = order[j] /\ list_'[i] = list_[j]
  <2>1. CASE i = 1
    BY <1>4, <1>5, <2>1
  <2>2. CASE i \in 2 .. p
    <3>1. i - 1 \in 1 .. Len(list_) /\ order'[i] = order[i - 1] /\ list_'[i] = list_[i - 1]
      BY <1>1, <1>4, <1>5, <2>2
    <3> QED BY <3>1
  <2>3. CASE i > p
    <3>1. order'[i] = order[i] /\ list_'[i] = list_[i]
      BY <1>1, <1>4, <1>5, <2>3
    <3> QED BY <3>1
  <2> QED BY <1>1, <2>1, <2>2, <2>3
<1>8. ASSUME NEW j \in 1 .. Len(list_)
      PROVE  \E i \in 1 .. Len(list_) : order'[i] = order[j]
  <2>1. CASE j = p
    <3>1. 1 \in 1 .. Len(list_) /\ order'[1] = order[j]
      BY <1>1, <1>5, <2>1
    <3> QED BY <3>1
  <2>2. CASE j < p
    <3>1. j + 1 \in 2 .. p /\ j + 1 \in 1 .. Len(list_) /\ j + 1 - 1 = j
      BY <1>1, <2>2
    <3> QED BY <1>5, <3>1
  <2>3. CASE j > p
    <3>1. j \in p + 1 .. Len(order)
      BY <1>1, <2>3
    <3> QED BY <1>5, <3>1
  <2> QED BY <1>1, <2>1, <2>2, <2>3
<1> QED BY <1>4, <1>5, <1>6, <1>7, <1>8

\* The calls that find the key, or put a new one, keep Recent and are the policy's.
LEMMA GetHitsAlike ==
  ASSUME IInv, Recent, NEW c \in Clients, NEW k \in Keys, GetHit(c, k)
  PROVE  Recent' /\ Policy!Hit(k)
<1>1. /\ Mapped(k) /\ Splice(map_[k]) /\ order' = ToFront(order, k) /\ result' = ValueOf(k)
      /\ map_' = map_ /\ content' = content /\ latest' = latest
  BY DEF GetHit
<1>2. /\ order' \in Seq(Keys) /\ Unique(order') /\ Len(order') = Len(order)
      /\ Len(list_') = Len(list_)
      /\ \A i \in 1 .. Len(list_') : \E j \in 1 .. Len(list_) :
           order'[i] = order[j] /\ list_'[i] = list_[j]
      /\ \A j \in 1 .. Len(list_) : \E i \in 1 .. Len(list_') : order'[i] = order[j]
  BY <1>1, MovesBoth
<1>3. ASSUME NEW i \in 1 .. Len(list_')
      PROVE  /\ order'[i] \in DOMAIN map_ /\ map_[order'[i]] = list_'[i]
             /\ content[list_'[i]].value = latest[order'[i]]
  <2>1. PICK j \in 1 .. Len(list_) : order'[i] = order[j] /\ list_'[i] = list_[j]
    BY <1>2
  <2> QED BY <2>1 DEF Recent
<1>4. ASSUME NEW j \in DOMAIN map_ PROVE \E i \in 1 .. Len(list_') : order'[i] = j
  <2>1. PICK h \in 1 .. Len(list_) : order[h] = j
    BY DEF Recent
  <2> QED BY <1>2, <2>1
<1>5. Recent'
  BY <1>1, <1>2, <1>3, <1>4 DEF Recent
<1>6. ValueOf(k) = latest[k]
  BY <1>1 DEF Recent, Mapped, ValueOf
<1> QED BY <1>1, <1>5, <1>6, MappedIsCached, SameMove DEF Policy!Hit

LEMMA PutUpdatesAlike ==
  ASSUME IInv, Recent, NEW k \in Keys, NEW v \in Values, PutUpdate(k, v)
  PROVE  Recent' /\ Policy!Put(k, v)
<1>1. /\ Mapped(k) /\ Splice(map_[k]) /\ order' = ToFront(order, k) /\ result' = NoValue
      /\ map_' = map_ /\ content' = [content EXCEPT ![map_[k]].value = v]
      /\ latest' = [latest EXCEPT ![k] = v]
  BY DEF PutUpdate, Recorded
<1>2. /\ order' \in Seq(Keys) /\ Unique(order') /\ Len(order') = Len(order)
      /\ Len(list_') = Len(list_)
      /\ \A i \in 1 .. Len(list_') : \E j \in 1 .. Len(list_) :
           order'[i] = order[j] /\ list_'[i] = list_[j]
      /\ \A j \in 1 .. Len(list_) : \E i \in 1 .. Len(list_') : order'[i] = order[j]
  BY <1>1, MovesBoth
<1>3. PICK n \in NodesIn(list_) : n = map_[k]
  BY <1>1 DEF Mapped, IInv, MapSound
<1>4. \A m \in NodesIn(list_) : content'[m].value = IF m = n THEN v ELSE content[m].value
  <2>1. /\ content \in [Nodes -> [key : Keys, value : Values] \cup {None}]
        /\ \A m \in NodesIn(list_) : m \in Nodes /\ content[m] \in [key : Keys, value : Values]
    BY Finite DEF IInv, TypeOK, ListSound
  <2>2. [content[n] EXCEPT !.value = v].value = v
    BY <2>1
  <2>3. content' = [content EXCEPT ![n] = [content[n] EXCEPT !.value = v]]
    BY <1>1, <1>3
  <2> QED BY <2>1, <2>2, <2>3
<1>5. \A j \in Keys : latest'[j] = IF j = k THEN v ELSE latest[j]
  BY <1>1 DEF Recent
<1>6. ASSUME NEW i \in 1 .. Len(list_')
      PROVE  /\ order'[i] \in DOMAIN map_ /\ map_[order'[i]] = list_'[i]
             /\ content'[list_'[i]].value = latest'[order'[i]]
  <2>1. PICK j \in 1 .. Len(list_) : order'[i] = order[j] /\ list_'[i] = list_[j]
    BY <1>2
  <2> PICK g, m : g = order[j] /\ m = list_[j]
    OBVIOUS
  <2>2. /\ g \in DOMAIN map_ /\ map_[g] = m /\ content[m].value = latest[g]
        /\ g \in Keys /\ m \in NodesIn(list_) /\ content[m].key = g
    BY DEF Recent, IInv, TypeOK, MapSound
  <2>3. m = n <=> g = k
    BY <1>1, <1>3, <2>2 DEF IInv, MapSound, Mapped
  <2> QED BY <1>4, <1>5, <2>1, <2>2, <2>3
<1>7. ASSUME NEW j \in DOMAIN map_ PROVE \E i \in 1 .. Len(list_') : order'[i] = j
  <2>1. PICK h \in 1 .. Len(list_) : order[h] = j
    BY DEF Recent
  <2> QED BY <1>2, <2>1
<1>8. latest' \in [Keys -> Values \cup {NoValue}]
  BY <1>1 DEF Recent
<1>9. Recent'
  BY <1>1, <1>2, <1>6, <1>7, <1>8 DEF Recent
<1> QED BY <1>1, <1>9, SameMove DEF Policy!Put

\* A key that is not cached comes to the front, and what is cached moves back.
LEMMA NewInFront ==
  ASSUME IInv, Recent, NEW k \in Keys, ~Mapped(k), order' = ToFront(order, k)
  PROVE  /\ order' \in Seq(Keys) /\ Unique(order') /\ order'[1] = k
         /\ Len(order') >= Len(order) /\ (~Full => Len(order') = Len(order) + 1)
         /\ \A i \in 2 .. Len(list_) + 1 : order'[i] = order[i - 1]
<1> USE LruAssumption
<1>1. /\ order \in Seq(Keys) /\ Unique(order)
      /\ Len(list_) \in Nat /\ Len(order) \in Nat /\ Len(list_) <= Len(order)
      /\ Len(list_) <= Capacity /\ (~Full => Len(order) = Len(list_))
  BY LenProperties DEF IInv, TypeOK, Recent, Full
<1>2. CASE k \notin NodesIn(order)
  <2>1. /\ order' \in Seq(Keys) /\ Len(order') = Len(order) + 1 /\ order'[1] = k
        /\ \A i \in 2 .. Len(order) + 1 : order'[i] = order[i - 1]
    BY <1>1, <1>2, FrontedNew
  <2>2. Unique(order')
    BY <1>1, <1>2, <2>1, PushedList
  <2> QED BY <1>1, <2>1, <2>2
<1>3. CASE k \in NodesIn(order)
  <2>1. PICK p \in 1 .. Len(order) : order[p] = k
    BY <1>3 DEF NodesIn
  <2>2. p > Len(list_) /\ Full
    <3>1. p \notin 1 .. Len(list_)
      BY <2>1 DEF Recent, Mapped
    <3> QED BY <1>1, <3>1
  <2>3. /\ order' \in Seq(Keys) /\ Len(order') = Len(order) /\ order'[1] = order[p]
        /\ \A i \in 2 .. p : order'[i] = order[i - 1]
        /\ \A i \in p + 1 .. Len(order) : order'[i] = order[i]
    <3>1. order' = ToFront(order, order[p])
      BY <2>1
    <3> QED BY <1>1, <3>1, Fronted
  <2>4. Unique(order')
    BY <1>1, <2>3, FrontedList
  <2> QED BY <1>1, <2>1, <2>2, <2>3, <2>4
<1> QED BY <1>2, <1>3

\* Room is made by freeing the node of the key in place Capacity of the order.
LEMMA FreesTheOldest ==
  ASSUME IInv, Recent
  PROVE  /\ Trimmed \in Seq(Nodes) /\ Len(Trimmed) = IF Full THEN Len(list_) - 1 ELSE Len(list_)
         /\ Len(Trimmed) \in Nat
         /\ \A i \in 1 .. Len(Trimmed) :
              /\ i \in 1 .. Len(list_) /\ Trimmed[i] = list_[i]
              /\ order[i] \in DOMAIN TrimmedMap /\ TrimmedMap[order[i]] = list_[i]
         /\ \A j \in DOMAIN TrimmedMap : \E i \in 1 .. Len(Trimmed) : order[i] = j
<1> USE LruAssumption
<1>1. /\ list_ \in Seq(Nodes) /\ order \in Seq(Keys) /\ Unique(order)
      /\ Len(list_) \in Nat /\ Len(order) \in Nat /\ Len(list_) <= Len(order)
      /\ (Full => Len(list_) > 0)
  BY LenProperties DEF IInv, TypeOK, Recent, Full
<1>2. CASE ~Full
  <2>1. Trimmed = list_ /\ TrimmedMap = map_
    BY <1>2 DEF Trimmed, TrimmedMap
  <2> QED BY <1>1, <1>2, <2>1 DEF Recent
<1>3. CASE Full
  <2>1. /\ Trimmed \in Seq(Nodes) /\ Len(Trimmed) = Len(list_) - 1
        /\ \A i \in 1 .. Len(list_) - 1 : Trimmed[i] = list_[i]
    <3>1. Trimmed = SubSeq(list_, 1, Len(list_) - 1)
      BY <1>3 DEF Trimmed
    <3> QED BY <1>1, <1>3, <3>1, Popped
  <2>2. Len(list_) \in 1 .. Len(list_) /\ Len(list_) - 1 \in Nat
    BY <1>1, <1>3
  <2>3. content[list_[Len(list_)]].key = order[Len(list_)]
    BY <2>2 DEF Recent, IInv, MapSound
  <2>4. /\ DOMAIN TrimmedMap = DOMAIN map_ \ {order[Len(list_)]}
        /\ \A j \in DOMAIN TrimmedMap : TrimmedMap[j] = map_[j]
    BY <1>3, <2>3 DEF TrimmedMap
  <2>5. ASSUME NEW i \in 1 .. Len(Trimmed)
        PROVE  /\ i \in 1 .. Len(list_) /\ Trimmed[i] = list_[i]
               /\ order[i] \in DOMAIN TrimmedMap /\ TrimmedMap[order[i]] = list_[i]
    <3>1. i \in 1 .. Len(list_) /\ i # Len(list_) /\ Trimmed[i] = list_[i]
      BY <1>1, <2>1
    <3>2. order[i] # order[Len(list_)]
      <4>1. i \in 1 .. Len(order) /\ Len(list_) \in 1 .. Len(order)
        BY <1>1, <2>2, <3>1
      <4> QED BY <1>1, <3>1, <4>1 DEF Unique
    <3> QED BY <2>4, <3>1, <3>2 DEF Recent
  <2>6. ASSUME NEW j \in DOMAIN TrimmedMap PROVE \E i \in 1 .. Len(Trimmed) : order[i] = j
    <3>1. PICK i \in 1 .. Len(list_) : order[i] = j
      BY <2>4 DEF Recent
    <3>2. i # Len(list_)
      BY <2>4, <3>1
    <3> QED BY <1>1, <2>1, <3>1, <3>2
  <2> QED BY <1>3, <2>1, <2>2, <2>5, <2>6
<1> QED BY <1>2, <1>3

LEMMA PutInsertsAlike ==
  ASSUME IInv, Recent, NEW k \in Keys, NEW v \in Values, PutInsert(k, v)
  PROVE  Recent' /\ Policy!Put(k, v)
<1> USE LruAssumption
<1>1. PICK n \in Nodes :
        /\ PushFront(k, v, n)
        /\ map_' = [j \in DOMAIN TrimmedMap \cup {k} |-> IF j = k THEN n ELSE TrimmedMap[j]]
  BY DEF PutInsert
<1>2. /\ ~Mapped(k) /\ order' = ToFront(order, k) /\ result' = NoValue
      /\ latest' = [latest EXCEPT ![k] = v]
  BY DEF PutInsert, Recorded
<1>3. /\ n \notin NodesIn(Trimmed) /\ list_' = <<n>> \o Trimmed
      /\ content' = [content EXCEPT ![n] = [key |-> k, value |-> v]]
  BY <1>1 DEF PushFront
<1>4. /\ order' \in Seq(Keys) /\ Unique(order') /\ order'[1] = k
      /\ Len(order') >= Len(order) /\ (~Full => Len(order') = Len(order) + 1)
      /\ \A i \in 2 .. Len(list_) + 1 : order'[i] = order[i - 1]
  BY <1>2, NewInFront
<1>5. /\ Trimmed \in Seq(Nodes) /\ Len(Trimmed) \in Nat
      /\ Len(Trimmed) = IF Full THEN Len(list_) - 1 ELSE Len(list_)
      /\ \A i \in 1 .. Len(Trimmed) :
           /\ i \in 1 .. Len(list_) /\ Trimmed[i] = list_[i]
           /\ order[i] \in DOMAIN TrimmedMap /\ TrimmedMap[order[i]] = list_[i]
      /\ \A j \in DOMAIN TrimmedMap : \E i \in 1 .. Len(Trimmed) : order[i] = j
  BY FreesTheOldest
<1>6. /\ Len(list_') = Len(Trimmed) + 1 /\ list_'[1] = n
      /\ \A i \in 2 .. Len(Trimmed) + 1 : list_'[i] = Trimmed[i - 1]
  BY <1>3, <1>5, Prepended
<1>7. /\ Len(list_) \in Nat /\ Len(order) \in Nat /\ Len(list_) <= Len(order)
      /\ Len(list_) <= Capacity /\ (~Full => Len(order) = Len(list_))
      /\ Len(order') \in Nat /\ (Full <=> Len(list_) = Capacity)
  BY <1>4, LenProperties DEF IInv, TypeOK, Recent, Full
<1>8. Len(list_') <= Len(order') /\ (Len(list_') < Capacity => Len(order') = Len(list_'))
  BY <1>4, <1>5, <1>6, <1>7
<1>9. content'[n].value = v /\ \A m \in Nodes \ {n} : content'[m] = content[m]
  BY <1>3 DEF IInv, TypeOK
<1>10. \A j \in Keys : latest'[j] = IF j = k THEN v ELSE latest[j]
  BY <1>2 DEF Recent
<1>11. k \notin DOMAIN TrimmedMap
  BY <1>2, Room DEF Mapped
<1>12. ASSUME NEW i \in 1 .. Len(Trimmed)
       PROVE  /\ order'[i + 1] = order[i] /\ list_'[i + 1] = list_[i]
              /\ order[i] \in DOMAIN map_' /\ map_'[order[i]] = list_[i]
              /\ content'[list_[i]].value = latest'[order[i]]
  <2>0. i \in 1 .. Len(list_) /\ Len(Trimmed) \in Nat /\ Len(list_) \in Nat
    BY <1>5, <1>7
  <2> PICK h \in Nat : h = i + 1
    BY <2>0
  <2>1. h \in 2 .. Len(Trimmed) + 1 /\ h \in 2 .. Len(list_) + 1 /\ h - 1 = i
    BY <2>0
  <2>2. order'[i + 1] = order[i] /\ list_'[i + 1] = list_[i]
    <3>1. order'[h] = order[h - 1]
      BY <1>4, <2>1
    <3>2. list_'[h] = Trimmed[h - 1]
      BY <1>6, <2>1
    <3> QED BY <1>5, <2>1, <3>1, <3>2
  <2> PICK g, m : g = order[i] /\ m = list_[i]
    OBVIOUS
  <2>3. g \in DOMAIN TrimmedMap /\ TrimmedMap[g] = m /\ g # k
    BY <1>5, <1>11
  <2>4. g \in DOMAIN map_' /\ map_'[g] = m
    BY <1>1, <2>3
  <2>5. content[m].value = latest[g] /\ g \in DOMAIN map_ /\ g \in Keys
    BY <1>5 DEF Recent, IInv, TypeOK
  <2>6. m \in NodesIn(Trimmed) /\ m \in Nodes
    BY <1>5, ElementOfSeq DEF NodesIn
  <2> QED BY <1>3, <1>9, <1>10, <2>2, <2>3, <2>4, <2>5, <2>6
<1>13. ASSUME NEW i \in 1 .. Len(list_')
       PROVE  /\ order'[i] \in DOMAIN map_' /\ map_'[order'[i]] = list_'[i]
              /\ content'[list_'[i]].value = latest'[order'[i]]
  <2>1. CASE i = 1
    BY <1>1, <1>4, <1>6, <1>9, <1>10, <2>1
  <2>2. CASE i # 1
    <3>1. PICK h \in 1 .. Len(Trimmed) : h + 1 = i
      <4>1. i - 1 \in 1 .. Len(Trimmed) /\ i - 1 + 1 = i
        BY <1>5, <1>6, <2>2
      <4> QED BY <4>1
    <3>2. /\ order'[i] = order[h] /\ list_'[i] = list_[h]
          /\ order[h] \in DOMAIN map_' /\ map_'[order[h]] = list_[h]
          /\ content'[list_[h]].value = latest'[order[h]]
      BY <1>12, <3>1
    <3> QED BY <3>2
  <2> QED BY <2>1, <2>2
<1>14. ASSUME NEW j \in DOMAIN map_' PROVE \E i \in 1 .. Len(list_') : order'[i] = j
  <2>1. CASE j = k
    <3>1. 1 \in 1 .. Len(list_')
      BY <1>5, <1>6
    <3> QED BY <1>4, <2>1, <3>1
  <2>2. CASE j # k
    <3>1. PICK i \in 1 .. Len(Trimmed) : order[i] = j
      BY <1>1, <1>5, <2>2
    <3>2. i + 1 \in 1 .. Len(list_')
      BY <1>5, <1>6
    <3> QED BY <1>12, <3>1, <3>2
  <2> QED BY <2>1, <2>2
<1>15. latest' \in [Keys -> Values \cup {NoValue}]
  BY <1>2 DEF Recent
<1>16. Recent'
  BY <1>4, <1>8, <1>13, <1>14, <1>15 DEF Recent
<1> QED BY <1>2, <1>16, SameMove DEF Policy!Put

LEMMA RecentInit == Init => Recent /\ Policy!Init
<1> SUFFICES ASSUME Init PROVE Recent /\ Policy!Init
  OBVIOUS
<1>1. /\ order = <<>> /\ Len(order) = 0 /\ order \in Seq(Keys)
      /\ list_ = <<>> /\ Len(list_) = 0 /\ DOMAIN map_ = {}
  BY DEF Init
<1>2. Recent
  BY <1>1 DEF Init, Recent, Unique
<1> QED BY <1>2 DEF Init, Policy!Init

\* Every step is one of the policy, while no call throws.
LEMMA RecentStep ==
  ASSUME MaxThrows = 0
  PROVE  IInv /\ Recent /\ [Next]_vars => Recent' /\ [Policy!Next]_(Policy!vars)
<1> SUFFICES ASSUME IInv, Recent, [Next]_vars PROVE Recent' /\ [Policy!Next]_(Policy!vars)
  OBVIOUS
<1>1. CASE UNCHANGED vars
  BY <1>1 DEF vars, cache, history, Recent, Policy!vars
<1>2. ASSUME NEW c \in Clients, NEW k \in Keys, GetMiss(c, k)
      PROVE  Recent' /\ Policy!Miss(k)
  <2>1. /\ ~Mapped(k) /\ list_' = list_ /\ map_' = map_ /\ content' = content
        /\ order' = order /\ latest' = latest /\ result' = NoValue
    BY <1>2 DEF GetMiss, cache
  <2>2. ~Policy!Cached(k)
    BY <2>1, MappedIsCached
  <2> QED BY <2>1, <2>2 DEF Recent, Policy!Miss
<1>3. ASSUME NEW k \in Keys, NEW v \in Values, PutThrowsEarly(k) \/ PutThrowsLate(k, v)
      PROVE  FALSE
  <2>1. throws < MaxThrows /\ throws \in 0 .. MaxThrows
    BY <1>3 DEF PutThrowsEarly, PutThrowsLate, IInv, TypeOK
  <2> QED BY <2>1
<1>4. CASE Next
  <2>1. PICK k \in Keys :
          \/ \E c \in Clients : GetMiss(c, k) \/ GetHit(c, k)
          \/ \E v \in Values :
               PutUpdate(k, v) \/ PutInsert(k, v) \/ PutThrowsEarly(k) \/ PutThrowsLate(k, v)
    BY <1>4 DEF Next, Get, Put
  <2>2. Recent' /\ (Policy!Hit(k) \/ Policy!Miss(k) \/ \E v \in Values : Policy!Put(k, v))
    BY <1>2, <1>3, <2>1, GetHitsAlike, PutUpdatesAlike, PutInsertsAlike
  <2> QED BY <2>2 DEF Policy!Next
<1> QED BY <1>1, <1>4

\* For every capacity, a cache whose allocations succeed answers every call as the
\* policy does, that evicts the least recently used key (lru_cache.h:23-55).
THEOREM Implements ==
  ASSUME MaxThrows = 0
  PROVE  Spec => ImplementsLru
<1>1. Spec => []Recent
  BY RecentInit, RecentStep, Inductive, PTL DEF Spec
<1>2. Init => Policy!Init
  BY RecentInit
<1>3. IInv /\ Recent /\ [Next]_vars => [Policy!Next]_(Policy!vars)
  BY RecentStep
<1> QED BY <1>1, <1>2, <1>3, Inductive, PTL DEF Spec, ImplementsLru, Policy!Spec
=============================================================================
