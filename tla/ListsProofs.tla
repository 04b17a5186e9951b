----------------------------- MODULE ListsProofs ----------------------------
(***************************************************************************)
(* Proofs about the linked lists of MCQueues: spsc_queue, sutter_queue and *)
(* mpsc_queue with its cache of nodes, for any number of producers, nodes  *)
(* and preallocated nodes and whatever is enqueued.                        *)
(***************************************************************************)
EXTENDS MCQueues, Sequences, FiniteSetTheorems, TLAPS

-----------------------------------------------------------------------------
(* Sequences, element by element *)

LEMMA FunctionIsSeq ==
  ASSUME NEW T, NEW n \in Nat, NEW q \in [1..n -> T]
  PROVE  q \in Seq(T) /\ Len(q) = n
OBVIOUS

LEMMA AppendIs ==
  ASSUME NEW T, NEW n \in Nat, NEW q \in [1..n -> T], NEW v \in T, NEW r \in [1..(n + 1) -> T],
         \A i \in 1..n : r[i] = q[i], r[n + 1] = v
  PROVE  r = Append(q, v)
<1>1. q \in Seq(T) /\ Len(q) = n
  BY FunctionIsSeq
<1>2. Append(q, v) \in [1..(n + 1) -> T]
  <2>1. Append(q, v) \in Seq(T) /\ Len(Append(q, v)) = n + 1
    BY <1>1
  <2>2. \A s \in Seq(T) : s \in [1..Len(s) -> T]
    OBVIOUS
  <2>. QED  BY <2>1, <2>2
<1>3. \A i \in 1..(n + 1) : Append(q, v)[i] = IF i = n + 1 THEN v ELSE q[i]
  BY <1>1
<1>4. \A i \in 1..(n + 1) : i = n + 1 \/ i \in 1..n
  OBVIOUS
<1>5. \A i \in 1..(n + 1) : Append(q, v)[i] = r[i]
  BY <1>3, <1>4
<1>. QED  BY <1>2, <1>5

LEMMA TailIs ==
  ASSUME NEW T, NEW n \in Nat, n > 0, NEW q \in [1..n -> T], NEW r \in [1..(n - 1) -> T],
         \A i \in 1..(n - 1) : r[i] = q[i + 1]
  PROVE  r = Tail(q) /\ q # << >> /\ Head(q) = q[1]
<1>1. q \in Seq(T) /\ Len(q) = n
  BY FunctionIsSeq
<1>2. q # << >> /\ Head(q) = q[1]
  BY <1>1
<1>3. Tail(q) \in [1..(n - 1) -> T]
  <2>1. Tail(q) \in Seq(T) /\ Len(Tail(q)) = n - 1
    BY <1>1
  <2>2. \A s \in Seq(T) : s \in [1..Len(s) -> T]
    OBVIOUS
  <2>. QED  BY <2>1, <2>2
<1>4. \A i \in 1..(n - 1) : Tail(q)[i] = q[i + 1]
  BY <1>1
<1>. QED  BY <1>2, <1>3, <1>4

-----------------------------------------------------------------------------
(* Linked lists *)

\* The nodes of a list, once each and each with the next one's address.
ListNodes(c)  == {c[i] : i \in 1..Len(c)}
Distinct(c)   == \A i, j \in 1..Len(c) : c[i] = c[j] => i = j
Linked(c, nx) == \A i \in 1..Len(c) : nx[c[i]] = IF i = Len(c) THEN Null ELSE c[i + 1]

\* What the nodes after the one at f hold, up to the one at l.
Items(c, val, f, l) == [i \in 1..(l - f) |-> val[c[f + i]]]

\* These are values; and another list holds the same, in the same places or in
\* the places before.
Valued(c, v, f, l)        == \A i \in (f + 1)..l : v[c[i]] \in Values
Same(c, v, d, w, f, l)    == \A i \in (f + 1)..l : w[d[i]] = v[c[i]]
Shifted(c, v, d, w, f, l) == \A i \in (f + 1)..l : w[d[i - 1]] = v[c[i]]

LEMMA SeqIs ==
  ASSUME NEW T, NEW c \in Seq(T)
  PROVE  /\ Len(c) \in Nat /\ \A i \in 1..Len(c) : c[i] \in T
         /\ c = << >> <=> Len(c) = 0
         /\ Len(c) # 0 => 1 \in 1..Len(c) /\ Len(c) \in 1..Len(c)
OBVIOUS

\* A list without its first node.
LEMMA TailList ==
  ASSUME NEW T, NEW c \in Seq(T), Len(c) # 0
  PROVE  /\ Tail(c) \in Seq(T) /\ Len(Tail(c)) = Len(c) - 1
         /\ \A i \in 1..(Len(c) - 1) : Tail(c)[i] = c[i + 1]
         /\ Distinct(c) => Distinct(Tail(c)) /\ ListNodes(Tail(c)) = ListNodes(c) \ {c[1]}
         /\ \A nx : Linked(c, nx) => Linked(Tail(c), nx)
<1>. DEFINE n == Len(c)   d == Tail(c)
<1>1. c # << >> /\ n \in Nat /\ n >= 1
  BY SeqIs
<1>2. d \in Seq(T) /\ Len(d) = n - 1 /\ \A i \in 1..(n - 1) : d[i] = c[i + 1]
  BY <1>1
<1>. HIDE DEF n, d
<1>3. \A i \in 1..(n - 1) : i + 1 \in 1..n /\ i + 1 # 1 /\ (i + 1 = n <=> i = n - 1) /\ (i # n - 1 => i + 1 \in 1..(n - 1))
  BY <1>1
<1>4. \A i \in 1..n : i # 1 => i - 1 \in 1..(n - 1) /\ (i - 1) + 1 = i
  BY <1>1
<1>5. ASSUME Distinct(c) PROVE Distinct(d) /\ ListNodes(d) = ListNodes(c) \ {c[1]}
  <2>1. \A i, j \in 1..n : c[i] = c[j] => i = j
    BY <1>5 DEF Distinct, n
  <2>2. ASSUME NEW i \in 1..(n - 1), NEW j \in 1..(n - 1), d[i] = d[j] PROVE i = j
    <3>1. c[i + 1] = c[j + 1] /\ i + 1 \in 1..n /\ j + 1 \in 1..n
      BY <2>2, <1>2, <1>3
    <3>2. i + 1 = j + 1
      BY <3>1, <2>1
    <3>. QED  BY <3>2, <1>1
  <2>3. ListNodes(d) \subseteq ListNodes(c) \ {c[1]}
    <3>1. ASSUME NEW i \in 1..(n - 1) PROVE d[i] \in ListNodes(c) /\ d[i] # c[1]
      <4>1. d[i] = c[i + 1] /\ i + 1 \in 1..n /\ i + 1 # 1 /\ 1 \in 1..n
        BY <1>1, <1>2, <1>3
      <4>. QED  BY <4>1, <2>1 DEF ListNodes, n
    <3>. QED  BY <3>1, <1>2 DEF ListNodes
  <2>4. ASSUME NEW i \in 1..n, c[i] # c[1] PROVE c[i] \in ListNodes(d)
    <3>1. i - 1 \in 1..(n - 1) /\ d[i - 1] = c[i]
      BY <2>4, <1>2, <1>4
    <3>. QED  BY <3>1, <1>2 DEF ListNodes
  <2>5. ListNodes(d) = ListNodes(c) \ {c[1]}
    BY <2>3, <2>4 DEF ListNodes, n
  <2>. QED  BY <2>2, <2>5, <1>2 DEF Distinct
<1>6. ASSUME NEW nx, Linked(c, nx) PROVE Linked(d, nx)
  <2>1. \A i \in 1..n : nx[c[i]] = IF i = n THEN Null ELSE c[i + 1]
    BY <1>6 DEF Linked, n
  <2>2. \A i \in 1..(n - 1) : nx[d[i]] = IF i = n - 1 THEN Null ELSE d[i + 1]
    BY <2>1, <1>2, <1>3
  <2>. QED  BY <2>2, <1>2 DEF Linked
<1>. QED  BY <1>2, <1>5, <1>6 DEF n, d

\* A list with one more node at its end.
LEMMA AppendList ==
  ASSUME NEW T, NEW c \in Seq(T), NEW x \in T
  PROVE  /\ Append(c, x) \in Seq(T) /\ Len(Append(c, x)) = Len(c) + 1
         /\ \A i \in 1..Len(c) : Append(c, x)[i] = c[i]
         /\ Append(c, x)[Len(c) + 1] = x
         /\ ListNodes(Append(c, x)) = ListNodes(c) \cup {x}
         /\ Distinct(c) /\ x \notin ListNodes(c) => Distinct(Append(c, x))
<1>. DEFINE n == Len(c)   d == Append(c, x)
<1>1. n \in Nat /\ d \in Seq(T) /\ Len(d) = n + 1 /\ (\A i \in 1..n : d[i] = c[i]) /\ d[n + 1] = x
  OBVIOUS
<1>2. ListNodes(c) = {c[i] : i \in 1..n} /\ (Distinct(c) => \A i, j \in 1..n : c[i] = c[j] => i = j)
  BY DEF ListNodes, Distinct
<1>. HIDE DEF n, d
<1>3. \A i \in 1..(n + 1) : i \in 1..n \/ i = n + 1
  BY <1>1
<1>4. n + 1 \in 1..(n + 1) /\ \A i \in 1..n : i \in 1..(n + 1)
  BY <1>1
<1>5. ListNodes(d) = ListNodes(c) \cup {x}
  <2>1. ListNodes(d) = {d[i] : i \in 1..(n + 1)}
    BY <1>1 DEF ListNodes
  <2>2. ASSUME NEW y \in ListNodes(d) PROVE y \in ListNodes(c) \cup {x}
    <3>1. PICK i \in 1..(n + 1) : y = d[i]
      BY <2>1
    <3>. QED  BY <3>1, <1>1, <1>2, <1>3
  <2>3. \A i \in 1..n : c[i] \in ListNodes(d)
    BY <2>1, <1>1, <1>4
  <2>4. x \in ListNodes(d)
    BY <2>1, <1>1, <1>4
  <2>. QED  BY <2>2, <2>3, <2>4, <1>2
<1>6. ASSUME Distinct(c), x \notin ListNodes(c) PROVE Distinct(d)
  <2>1. \A i, j \in 1..n : c[i] = c[j] => i = j
    BY <1>2, <1>6
  <2>2. \A i \in 1..n : c[i] # x
    BY <1>2, <1>6
  <2>3. \A i, j \in 1..(n + 1) : d[i] = d[j] => i = j
    BY <2>1, <2>2, <1>1, <1>3
  <2>. QED  BY <2>3, <1>1 DEF Distinct
<1>. QED  BY <1>1, <1>5, <1>6 DEF n, d

\* Linking the new node to the last, and changing a node of no list.
LEMMA LinkList ==
  ASSUME NEW T, NEW c \in Seq(T), NEW x \in T, NEW nx, DOMAIN nx = T, Len(c) # 0,
         Distinct(c), Linked(c, nx), x \notin ListNodes(c), nx[x] = Null
  PROVE  Linked(Append(c, x), [nx EXCEPT ![c[Len(c)]] = x])
<1>. DEFINE n == Len(c)   d == Append(c, x)   ny == [nx EXCEPT ![c[n]] = x]
<1>1. n \in Nat /\ n >= 1 /\ Len(d) = n + 1 /\ (\A i \in 1..n : d[i] = c[i]) /\ d[n + 1] = x
  BY SeqIs, AppendList
<1>2. (\A i \in 1..n : c[i] \in T) /\ n \in 1..n
  BY SeqIs
<1>3. \A i, j \in 1..n : c[i] = c[j] => i = j
  BY DEF Distinct
<1>4. \A i \in 1..n : nx[c[i]] = IF i = n THEN Null ELSE c[i + 1]
  BY DEF Linked
<1>5. \A i \in 1..n : c[i] # x
  BY DEF ListNodes
<1>6. ny[x] = Null /\ ny[c[n]] = x /\ \A i \in 1..n : i # n => ny[c[i]] = nx[c[i]]
  BY <1>2, <1>3, <1>5
<1>. HIDE DEF n, d, ny
<1>7. \A i \in 1..(n + 1) : i = n + 1 \/ i = n \/ (i \in 1..n /\ i # n /\ i # n + 1 /\ i + 1 \in 1..n)
  BY <1>1
<1>8. \A i \in 1..(n + 1) : ny[d[i]] = IF i = n + 1 THEN Null ELSE d[i + 1]
  <2>. SUFFICES ASSUME NEW i \in 1..(n + 1) PROVE ny[d[i]] = IF i = n + 1 THEN Null ELSE d[i + 1]
    OBVIOUS
  <2>1. CASE i = n + 1
    BY <2>1, <1>1, <1>6
  <2>2. CASE i = n
    <3>1. i # n + 1
      BY <2>2, <1>1
    <3>. QED  BY <2>2, <3>1, <1>1, <1>2, <1>6
  <2>3. CASE i \in 1..n /\ i # n /\ i # n + 1 /\ i + 1 \in 1..n
    BY <2>3, <1>1, <1>4, <1>6
  <2>. QED  BY <1>7, <2>1, <2>2, <2>3
<1>. QED  BY <1>1, <1>8 DEF Linked, n, d, ny

LEMMA LinkElsewhere ==
  ASSUME NEW T, NEW c \in Seq(T), NEW x, NEW y, NEW nx, DOMAIN nx = T, Linked(c, nx), x \notin ListNodes(c)
  PROVE  Linked(c, [nx EXCEPT ![x] = y])
BY SeqIs DEF Linked, ListNodes

\* A list has as many nodes as it is long.
LEMMA ListCardinality ==
  ASSUME NEW T, NEW c \in Seq(T), Distinct(c)
  PROVE  Cardinality(ListNodes(c)) = Len(c) /\ (IsFiniteSet(T) => Len(c) <= Cardinality(T))
<1>. DEFINE n == Len(c)
<1>1. n \in Nat /\ c \in [1..n -> ListNodes(c)]
  BY DEF ListNodes
<1>2. c \in Injection(1..n, ListNodes(c))
  BY <1>1 DEF Distinct, Injection, IsInjective
<1>3. c \in Surjection(1..n, ListNodes(c))
  BY <1>1 DEF Surjection, ListNodes
<1>4. ExistsBijection(1..n, ListNodes(c))
  BY <1>2, <1>3 DEF ExistsBijection, Bijection
<1>5. IsFiniteSet(1..n) /\ Cardinality(1..n) = n
  <2>1. IsFiniteSet(1..n) /\ Cardinality(1..n) = IF 1 > n THEN 0 ELSE n - 1 + 1
    BY <1>1, FS_Interval
  <2>. QED  BY <2>1, <1>1
<1>6. Cardinality(ListNodes(c)) = n
  BY <1>4, <1>5, FS_Bijection
<1>7. ListNodes(c) \in SUBSET T
  BY SeqIs DEF ListNodes
<1>. QED  BY <1>6, <1>7, FS_Subset

\* A node's place is where it is.
LEMMA AtIs ==
  ASSUME NEW c, Distinct(c), NEW i \in 1..Len(c)
  PROVE  (CHOOSE k \in 1..Len(c) : c[k] = c[i]) = i
BY DEF Distinct

LEMMA ItemsAppend ==
  ASSUME NEW c, NEW v, NEW d, NEW w, NEW f \in Nat, NEW l \in Nat, f <= l, NEW x \in Values,
         Valued(c, v, f, l), Same(c, v, d, w, f, l), w[d[l + 1]] = x
  PROVE  Items(d, w, f, l + 1) = Append(Items(c, v, f, l), x) /\ Len(Items(c, v, f, l)) = l - f
<1>. DEFINE n == l - f   q == Items(c, v, f, l)   r == Items(d, w, f, l + 1)
<1>1. n \in Nat /\ (l + 1) - f = n + 1 /\ f + (n + 1) = l + 1
  OBVIOUS
<1>2. \A i \in 1..n : f + i \in (f + 1)..l /\ i \in 1..(n + 1)
  OBVIOUS
<1>3. \A i \in 1..(n + 1) : i \in 1..n \/ i = n + 1
  BY <1>1
<1>4. q = [i \in 1..n |-> v[c[f + i]]]
  BY DEF Items
<1>5. r = [i \in 1..(n + 1) |-> w[d[f + i]]]
  BY <1>1 DEF Items
<1>. HIDE DEF n, q, r
<1>6. q \in [1..n -> Values] /\ \A i \in 1..n : q[i] = v[c[f + i]]
  BY <1>2, <1>4 DEF Valued
<1>7. (\A i \in 1..n : r[i] = q[i]) /\ r[n + 1] = x
  <2>1. n + 1 \in 1..(n + 1)
    BY <1>1
  <2>. QED  BY <2>1, <1>1, <1>2, <1>5, <1>6 DEF Same
<1>8. r \in [1..(n + 1) -> Values]
  <2>1. \A i \in 1..(n + 1) : r[i] \in Values
    BY <1>3, <1>6, <1>7
  <2>. QED  BY <2>1, <1>5
<1>9. r = Append(q, x)
  BY <1>1, <1>6, <1>7, <1>8, AppendIs
<1>. QED  BY <1>1, <1>6, <1>9, FunctionIsSeq DEF n, q, r

LEMMA ItemsTail ==
  ASSUME NEW c, NEW v, NEW d, NEW w, NEW f \in Nat, NEW l \in Nat, f < l,
         Valued(c, v, f, l), Same(c, v, d, w, f + 1, l)
  PROVE  /\ Items(d, w, f + 1, l) = Tail(Items(c, v, f, l)) /\ Items(c, v, f, l) # << >>
         /\ Head(Items(c, v, f, l)) = v[c[f + 1]]
<1>. DEFINE n == l - f   q == Items(c, v, f, l)   r == Items(d, w, f + 1, l)
<1>1. n \in Nat /\ n > 0 /\ l - (f + 1) = n - 1
  OBVIOUS
<1>2. \A i \in 1..n : f + i \in (f + 1)..l
  OBVIOUS
<1>3. \A i \in 1..(n - 1) : /\ (f + 1) + i \in ((f + 1) + 1)..l /\ (f + 1) + i \in (f + 1)..l
                            /\ i + 1 \in 1..n /\ f + (i + 1) = (f + 1) + i
  OBVIOUS
<1>4. q = [i \in 1..n |-> v[c[f + i]]]
  BY DEF Items
<1>5. r = [i \in 1..(n - 1) |-> w[d[(f + 1) + i]]]
  BY <1>1 DEF Items
<1>. HIDE DEF n, q, r
<1>6. q \in [1..n -> Values] /\ \A i \in 1..n : q[i] = v[c[f + i]]
  BY <1>2, <1>4 DEF Valued
<1>7. \A i \in 1..(n - 1) : r[i] = q[i + 1] /\ r[i] \in Values
  BY <1>3, <1>5, <1>6 DEF Same, Valued
<1>8. r \in [1..(n - 1) -> Values]
  BY <1>5, <1>7
<1>9. r = Tail(q) /\ q # << >> /\ Head(q) = q[1]
  BY <1>1, <1>6, <1>7, <1>8, TailIs
<1>10. q[1] = v[c[f + 1]]
  <2>1. 1 \in 1..n
    BY <1>1
  <2>. QED  BY <2>1, <1>6
<1>. QED  BY <1>9, <1>10 DEF q, r

LEMMA ItemsSame ==
  ASSUME NEW c, NEW v, NEW d, NEW w, NEW f \in Nat, NEW l \in Nat, Same(c, v, d, w, f, l)
  PROVE  Items(d, w, f, l) = Items(c, v, f, l)
<1>1. \A i \in 1..(l - f) : f + i \in (f + 1)..l
  OBVIOUS
<1>. QED  BY <1>1 DEF Items, Same

LEMMA ItemsShift ==
  ASSUME NEW c, NEW v, NEW d, NEW w, NEW f \in Nat, NEW l \in Nat, f > 0, Shifted(c, v, d, w, f, l)
  PROVE  Items(d, w, f - 1, l - 1) = Items(c, v, f, l)
<1>1. (l - 1) - (f - 1) = l - f
  OBVIOUS
<1>2. \A i \in 1..(l - f) : f + i \in (f + 1)..l /\ (f - 1) + i = (f + i) - 1
  OBVIOUS
<1>. QED  BY <1>1, <1>2 DEF Items, Shifted

-----------------------------------------------------------------------------
(* SpscQueue *)

SpscDestroying == sCpc \in {"destroy", "destroyed"}

ListInv == /\ S!TypeOK /\ sChain \in Seq(Nodes) /\ Distinct(sChain) /\ Linked(sChain, sNext)
           /\ IF sCpc = "destroyed" THEN Len(sChain) = 0 ELSE Len(sChain) # 0 /\ sFirst = sChain[1]

\* The producer's node is in nobody else's hand, and ready to be linked.
HandInv == /\ sAlloc = ListNodes(sChain) \cup (IF sPc = "link" THEN {sN} ELSE {})
           /\ sPc = "link" => /\ sN \in Nodes /\ sN \notin ListNodes(sChain) /\ sNext[sN] = Null
                              /\ sValue[sN] \in Values /\ ~SpscDestroying

\* The copy of m_tail is at c and m_tail at t, with the items after it.
Places(c, t) ==
  /\ c <= t /\ sChain[c] = sCopy /\ sChain[t] = sTail
  /\ sCpc \in {"read", "advance"} => t < Len(sChain)
  /\ \A i \in (t + 1)..Len(sChain) : sValue[sChain[i]] \in Values
  /\ sCpc = "advance" => sOut = sValue[sChain[t + 1]]
PlacesInv == ~SpscDestroying =>
  sChain[Len(sChain)] = sHead /\ \E c, t \in 1..Len(sChain) : Places(c, t)

RecycleInv == ListInv /\ HandInv /\ PlacesInv

\* There are nodes to construct the queue with.
LEMMA FirstNodes ==
  ASSUME NEW k \in 0..MaxPreAlloc
  PROVE  \E s \in [1..(k + 1) -> Nodes] : \A i, j \in 1..(k + 1) : s[i] = s[j] => i = j
<1>. DEFINE n == Cardinality(Nodes)
<1>1. n \in Nat /\ ExistsBijection(1..n, Nodes) /\ k + 1 <= n /\ k \in Nat
  BY NodesAssumption, FS_CardinalityType
<1>2. PICK f \in Bijection(1..n, Nodes) : TRUE
  BY <1>1 DEF ExistsBijection
<1>3. f \in [1..n -> Nodes] /\ \A i, j \in 1..n : f[i] = f[j] => i = j
  BY <1>2 DEF Bijection, Injection, IsInjective
<1>. HIDE DEF n
<1>4. \A i \in 1..(k + 1) : i \in 1..n
  BY <1>1
<1>5. [i \in 1..(k + 1) |-> f[i]] \in [1..(k + 1) -> Nodes]
  BY <1>3, <1>4
<1>. WITNESS [i \in 1..(k + 1) |-> f[i]] \in [1..(k + 1) -> Nodes]
<1>. QED  BY <1>3, <1>4

LEMMA RecycleInit == S!Init => RecycleInv
<1>. SUFFICES ASSUME S!Init PROVE RecycleInv
  OBVIOUS
<1>1. PICK k \in 0..MaxPreAlloc :
        LET c == CHOOSE s \in [1..k+1 -> Nodes] : \A i, j \in 1..k+1 : s[i] = s[j] => i = j
        IN
        /\ sChain = c /\ sAlloc = {c[i] : i \in 1..k+1}
        /\ sNext = [x \in Nodes |-> IF \E i \in 1..k : c[i] = x
                                      THEN c[1 + CHOOSE i \in 1..k : c[i] = x] ELSE Null]
        /\ sValue = [x \in Nodes |-> None]
        /\ sFirst = c[1] /\ sCopy = c[1] /\ sTail = c[k+1] /\ sHead = c[k+1]
        /\ sPc = "idle" /\ sN = Null /\ sCpc = "idle" /\ sOut = None
  BY DEF S!Init
<1>. DEFINE n == k + 1
<1>2. k \in Nat /\ n \in Nat /\ n # 0 /\ 1 \in 1..n /\ n \in 1..n /\ 1 <= n
  BY NodesAssumption
<1>3. sChain \in [1..n -> Nodes] /\ \A i, j \in 1..n : sChain[i] = sChain[j] => i = j
  BY <1>1, FirstNodes
<1>4. /\ sAlloc = {sChain[i] : i \in 1..n} /\ sValue = [x \in Nodes |-> None]
      /\ sNext = [x \in Nodes |-> IF \E i \in 1..k : sChain[i] = x
                                    THEN sChain[1 + CHOOSE i \in 1..k : sChain[i] = x] ELSE Null]
      /\ sFirst = sChain[1] /\ sCopy = sChain[1] /\ sTail = sChain[n] /\ sHead = sChain[n]
      /\ sPc = "idle" /\ sN = Null /\ sCpc = "idle" /\ sOut = None
  BY <1>1
<1>. HIDE DEF n
<1>5. sChain \in Seq(Nodes) /\ Len(sChain) = n
  BY <1>2, <1>3, FunctionIsSeq
<1>6. ASSUME NEW i \in 1..n PROVE sNext[sChain[i]] = IF i = n THEN Null ELSE sChain[i + 1]
  <2>1. sChain[i] \in Nodes
    BY <1>3
  <2>2. CASE i = n
    <3>1. \A j \in 1..k : j \in 1..n /\ j # n
      BY <1>2 DEF n
    <3>2. ~\E j \in 1..k : sChain[j] = sChain[i]
      BY <3>1, <2>2, <1>3
    <3>. QED  BY <3>2, <2>1, <2>2, <1>4
  <2>3. CASE i # n
    <3>1. i \in 1..k /\ \A j \in 1..k : j \in 1..n
      BY <2>3, <1>2 DEF n
    <3>2. (CHOOSE j \in 1..k : sChain[j] = sChain[i]) = i
      BY <3>1, <1>3
    <3>3. 1 + i = i + 1
      BY <3>1
    <3>4. sNext[sChain[i]] = sChain[1 + CHOOSE j \in 1..k : sChain[j] = sChain[i]]
      BY <3>1, <2>1, <1>4
    <3>. QED  BY <3>2, <3>3, <3>4, <2>3
  <2>. QED  BY <2>2, <2>3
<1>7. sNext \in [Nodes -> Nodes \cup {Null}]
  <2>1. ASSUME NEW x \in Nodes PROVE sNext[x] \in Nodes \cup {Null}
    <3>1. CASE \E i \in 1..k : sChain[i] = x
      <4>1. PICK i \in 1..k : sChain[i] = x
        BY <3>1
      <4>2. i \in 1..n /\ i # n /\ i + 1 \in 1..n
        BY <1>2 DEF n
      <4>. QED  BY <4>1, <4>2, <1>3, <1>6
    <3>2. CASE ~\E i \in 1..k : sChain[i] = x
      BY <3>2, <1>4
    <3>. QED  BY <3>1, <3>2
  <2>2. DOMAIN sNext = Nodes /\ sNext = [x \in Nodes |-> sNext[x]]
    BY <1>4
  <2>. QED  BY <2>1, <2>2
<1>8. S!TypeOK
  BY <1>2, <1>3, <1>4, <1>7 DEF S!TypeOK, ListNodes
<1>9. ListInv
  BY <1>2, <1>3, <1>4, <1>5, <1>6, <1>8 DEF ListInv, Distinct, Linked
<1>10. HandInv
  BY <1>4, <1>5 DEF HandInv, ListNodes
<1>11. Places(1, n)
  <2>1. \A i \in (n + 1)..n : FALSE
    BY <1>2
  <2>. QED  BY <2>1, <1>2, <1>4, <1>5 DEF Places
<1>. QED  BY <1>2, <1>4, <1>5, <1>9, <1>10, <1>11 DEF RecycleInv, PlacesInv

LEMMA RecycleTypes ==
  ASSUME RecycleInv
  PROVE  /\ Len(sChain) \in Nat /\ (\A i \in 1..Len(sChain) : sChain[i] \in Nodes)
         /\ DOMAIN sNext = Nodes /\ DOMAIN sValue = Nodes
         /\ Null \notin Nodes
         /\ sCpc # "destroyed" => 1 \in 1..Len(sChain) /\ Len(sChain) \in 1..Len(sChain)
BY SeqIs, NodesAssumption DEF RecycleInv, ListInv, S!TypeOK

LEMMA TakeBackStep ==
  ASSUME RecycleInv, NEW v \in Values, S!Enqueue(v), S!create_from_internal
  PROVE  /\ RecycleInv'
         /\ \A c, t \in 1..Len(sChain) : Places(c, t) =>
              \E e \in 1..Len(sChain') : t - 1 \in 1..Len(sChain') /\ Places(e, t - 1)'
<1>. DEFINE l == Len(sChain)
<1>1. ListInv /\ HandInv /\ PlacesInv
  BY DEF RecycleInv
<1>2. /\ sPc = "idle" /\ ~SpscDestroying /\ sCpc' = sCpc /\ sOut' = sOut /\ sTail' = sTail /\ sHead' = sHead /\ sAlloc' = sAlloc
      /\ sN' = sFirst /\ sFirst' = sNext[sFirst] /\ sChain' = Tail(sChain) /\ sPc' = "link"
      /\ sCopy' = S!TailCopy /\ sFirst # S!TailCopy
      /\ sValue' = [sValue EXCEPT ![sFirst] = v] /\ sNext' = [sNext EXCEPT ![sFirst] = Null]
  BY DEF S!Enqueue, S!create_from_internal, S!consumerVars, SpscDestroying
<1>3. /\ l \in Nat /\ (\A i \in 1..l : sChain[i] \in Nodes) /\ DOMAIN sNext = Nodes /\ DOMAIN sValue = Nodes
      /\ l # 0 /\ sFirst = sChain[1] /\ 1 \in 1..l /\ l \in 1..l /\ sChain \in Seq(Nodes) /\ Distinct(sChain)
      /\ Linked(sChain, sNext)
  BY <1>1, <1>2, RecycleTypes DEF ListInv, SpscDestroying
<1>4. /\ sChain' \in Seq(Nodes) /\ Len(sChain') = l - 1 /\ \A i \in 1..(l - 1) : sChain'[i] = sChain[i + 1]
      /\ Distinct(sChain') /\ ListNodes(sChain') = ListNodes(sChain) \ {sFirst} /\ Linked(sChain', sNext)
  BY <1>2, <1>3, TailList
<1>5. Linked(sChain', sNext')
  <2>1. Linked(sChain', [sNext EXCEPT ![sFirst] = Null])
    BY <1>3, <1>4, LinkElsewhere
  <2>. QED  BY <2>1, <1>2
<1>6. \A i, j \in 1..l : sChain[i] = sChain[j] => i = j
  BY <1>3 DEF Distinct
<1>7. ASSUME NEW c \in 1..l, NEW t \in 1..l, Places(c, t)
      PROVE  l >= 2 /\ \E e \in 1..Len(sChain') : t - 1 \in 1..Len(sChain') /\ Places(e, t - 1)'
  <2>1. c <= t /\ sChain[c] = sCopy /\ sChain[t] = sTail
    BY <1>7 DEF Places
  <2>2. PICK f \in 1..l : f <= t /\ sChain[f] = S!TailCopy
    BY <2>1, <1>3 DEF S!TailCopy
  <2>3. f # 1
    BY <2>2, <1>2, <1>3
  <2>4. /\ f - 1 \in 1..(l - 1) /\ t - 1 \in 1..(l - 1) /\ f - 1 <= t - 1 /\ l >= 2
        /\ (f - 1) + 1 = f /\ (t - 1) + 1 = t /\ (t < l => t - 1 < l - 1)
    BY <2>2, <2>3, <1>3
  <2>5. sChain'[f - 1] = sCopy' /\ sChain'[t - 1] = sTail'
    BY <2>1, <2>2, <2>4, <1>2, <1>4
  <2>6. ASSUME NEW i \in t..(l - 1) PROVE sValue'[sChain'[i]] = sValue[sChain[i + 1]] /\ i + 1 \in (t + 1)..l
    <3>1. i \in 1..(l - 1) /\ i + 1 \in 1..l /\ i + 1 # 1 /\ i + 1 \in (t + 1)..l
      BY <1>3
    <3>2. sChain'[i] = sChain[i + 1] /\ sChain[i + 1] # sFirst /\ sChain[i + 1] \in Nodes
      BY <3>1, <1>3, <1>4, <1>6
    <3>. QED  BY <3>1, <3>2, <1>2, <1>3
  <2>7. \A i \in ((t - 1) + 1)..Len(sChain') : sValue'[sChain'[i]] \in Values
    BY <2>4, <2>6, <1>4, <1>7 DEF Places
  <2>8. sCpc' = "advance" => sOut' = sValue'[sChain'[(t - 1) + 1]]
    <3>1. sCpc = "advance" => t \in t..(l - 1) /\ sOut = sValue[sChain[t + 1]]
      BY <1>3, <1>7 DEF Places
    <3>. QED  BY <3>1, <2>4, <2>6, <1>2
  <2>9. sCpc' \in {"read", "advance"} => t - 1 < Len(sChain')
    BY <2>4, <1>2, <1>4, <1>7 DEF Places
  <2>10. Places(f - 1, t - 1)'
    BY <2>4, <2>5, <2>7, <2>8, <2>9 DEF Places
  <2>. QED  BY <2>4, <2>10, <1>4
<1>8. PICK c, t \in 1..l : Places(c, t)
  BY <1>1, <1>2 DEF PlacesInv
<1>9. l >= 2
  BY <1>7, <1>8
<1>10. sChain'[Len(sChain')] = sHead' /\ Len(sChain') # 0 /\ sFirst' = sChain'[1]
  <2>1. l - 1 \in 1..(l - 1) /\ (l - 1) + 1 = l /\ 1 \in 1..(l - 1) /\ 1 # l
    BY <1>3, <1>9
  <2>2. sChain[l] = sHead
    BY <1>1, <1>2 DEF PlacesInv
  <2>3. sNext[sChain[1]] = sChain[1 + 1]
    BY <2>1, <1>3 DEF Linked
  <2>. QED  BY <2>1, <2>2, <2>3, <1>2, <1>3, <1>4
<1>11. S!TypeOK'
  <2>1. sFirst' \in Nodes
    <3>1. 1 \in 1..Len(sChain')
      BY <1>4, <1>9, <1>3
    <3>. QED  BY <3>1, <1>4, <1>10, SeqIs
  <2>2. sCopy' \in Nodes /\ sN' \in Nodes
    BY <1>1, <1>2, <1>3 DEF ListInv, S!TypeOK, S!TailCopy
  <2>. QED  BY <2>1, <2>2, <1>1, <1>2 DEF ListInv, S!TypeOK
<1>12. HandInv'
  <2>1. sFirst \in ListNodes(sChain) /\ sFirst \in Nodes
    BY <1>3 DEF ListNodes
  <2>2. sAlloc' = ListNodes(sChain') \cup {sN'}
    BY <2>1, <1>1, <1>2, <1>4 DEF HandInv
  <2>3. sN' \notin ListNodes(sChain') /\ sNext'[sN'] = Null /\ sValue'[sN'] \in Values
    BY <2>1, <1>2, <1>3, <1>4
  <2>4. ~SpscDestroying'
    BY <1>2 DEF SpscDestroying
  <2>. QED  BY <2>1, <2>2, <2>3, <2>4, <1>2 DEF HandInv
<1>13. PlacesInv'
  BY <1>7, <1>8, <1>10 DEF PlacesInv
<1>14. ListInv'
  BY <1>2, <1>4, <1>5, <1>10, <1>11 DEF ListInv, SpscDestroying
<1>. QED  BY <1>7, <1>12, <1>13, <1>14 DEF RecycleInv

LEMMA CreateNewStep ==
  ASSUME RecycleInv, NEW v \in Values, S!Enqueue(v), S!create_new
  PROVE  /\ RecycleInv' /\ sChain' = sChain
         /\ \A c, t \in 1..Len(sChain) : Places(c, t) => \E e \in 1..Len(sChain) : Places(e, t)'
<1>. DEFINE l == Len(sChain)
<1>1. ListInv /\ HandInv /\ PlacesInv
  BY DEF RecycleInv
<1>2. PICK x \in Nodes \ sAlloc : sN' = x /\ sAlloc' = sAlloc \cup {x}
  BY DEF S!create_new
<1>3. /\ sPc = "idle" /\ ~SpscDestroying /\ sCpc' = sCpc /\ sOut' = sOut /\ sTail' = sTail /\ sHead' = sHead
      /\ sFirst' = sFirst /\ sChain' = sChain /\ sPc' = "link" /\ sCopy' = S!TailCopy
      /\ sValue' = [sValue EXCEPT ![x] = v] /\ sNext' = [sNext EXCEPT ![x] = Null]
  BY <1>2 DEF S!Enqueue, S!create_new, S!consumerVars, SpscDestroying
<1>4. /\ l \in Nat /\ (\A i \in 1..l : sChain[i] \in Nodes) /\ DOMAIN sNext = Nodes /\ DOMAIN sValue = Nodes
      /\ sChain \in Seq(Nodes) /\ Linked(sChain, sNext)
  BY <1>1, RecycleTypes DEF ListInv
<1>5. sAlloc = ListNodes(sChain) /\ x \notin ListNodes(sChain)
  BY <1>1, <1>2, <1>3 DEF HandInv
<1>6. Linked(sChain', sNext')
  <2>1. Linked(sChain, [sNext EXCEPT ![x] = Null])
    BY <1>4, <1>5, LinkElsewhere
  <2>. QED  BY <2>1, <1>3
<1>7. \A i \in 1..l : sValue'[sChain[i]] = sValue[sChain[i]]
  BY <1>3, <1>4, <1>5 DEF ListNodes
<1>8. ASSUME NEW c \in 1..l, NEW t \in 1..l, Places(c, t) PROVE \E e \in 1..l : Places(e, t)'
  <2>1. c <= t /\ sChain[c] = sCopy /\ sChain[t] = sTail
    BY <1>8 DEF Places
  <2>2. PICK f \in 1..l : f <= t /\ sChain[f] = S!TailCopy
    BY <2>1, <1>4 DEF S!TailCopy
  <2>3. \A i \in (t + 1)..l : i \in 1..l
    BY <1>4
  <2>4. sCpc = "advance" => t + 1 \in (t + 1)..l
    BY <1>4, <1>8 DEF Places
  <2>5. Places(f, t)'
    BY <2>1, <2>2, <2>3, <2>4, <1>3, <1>7, <1>8 DEF Places
  <2>. QED  BY <2>5
<1>9. PlacesInv'
  BY <1>1, <1>3, <1>8 DEF PlacesInv, SpscDestroying
<1>10. HandInv'
  BY <1>2, <1>3, <1>4, <1>5 DEF HandInv, SpscDestroying
<1>11. ListInv'
  BY <1>1, <1>2, <1>3, <1>6 DEF ListInv, S!TypeOK, S!TailCopy
<1>. QED  BY <1>3, <1>8, <1>9, <1>10, <1>11 DEF RecycleInv

LEMMA LinkStep ==
  ASSUME RecycleInv, S!Link
  PROVE  /\ RecycleInv' /\ Len(sChain') = Len(sChain) + 1 /\ sChain'[Len(sChain) + 1] = sN /\ sN \in Nodes
         /\ \A i \in 1..Len(sChain) : sChain'[i] = sChain[i]
         /\ \A c, t \in 1..Len(sChain) : Places(c, t) => Places(c, t)'
<1>. DEFINE l == Len(sChain)
<1>1. ListInv /\ HandInv /\ PlacesInv
  BY DEF RecycleInv
<1>2. /\ sPc = "link" /\ sPc' = "idle" /\ sN' = Null /\ sHead' = sN /\ sChain' = Append(sChain, sN)
      /\ sNext' = [sNext EXCEPT ![sHead] = sN]
      /\ UNCHANGED <<sFirst, sCopy, sValue, sAlloc, sTail, sCpc, sOut>>
  BY DEF S!Link, S!consumerVars
<1>3. sN \in Nodes /\ sN \notin ListNodes(sChain) /\ sNext[sN] = Null /\ sValue[sN] \in Values /\ ~SpscDestroying
  BY <1>1, <1>2 DEF HandInv
<1>4. /\ l \in Nat /\ (\A i \in 1..l : sChain[i] \in Nodes) /\ DOMAIN sNext = Nodes
      /\ l # 0 /\ sFirst = sChain[1] /\ 1 \in 1..l /\ l \in 1..l /\ sChain \in Seq(Nodes) /\ Distinct(sChain)
      /\ Linked(sChain, sNext) /\ sHead = sChain[l]
  BY <1>1, <1>3, RecycleTypes DEF ListInv, PlacesInv, SpscDestroying
<1>5. /\ sChain' \in Seq(Nodes) /\ Len(sChain') = l + 1 /\ (\A i \in 1..l : sChain'[i] = sChain[i])
      /\ sChain'[l + 1] = sN /\ ListNodes(sChain') = ListNodes(sChain) \cup {sN} /\ Distinct(sChain')
  BY <1>2, <1>3, <1>4, AppendList
<1>6. Linked(sChain', sNext')
  <2>1. Linked(Append(sChain, sN), [sNext EXCEPT ![sChain[l]] = sN])
    BY <1>3, <1>4, LinkList
  <2>. QED  BY <2>1, <1>2, <1>4
<1>7. ASSUME NEW c \in 1..l, NEW t \in 1..l, Places(c, t) PROVE Places(c, t)'
  <2>1. \A i \in (t + 1)..(l + 1) : (i \in 1..l /\ i \in (t + 1)..l) \/ i = l + 1
    BY <1>4
  <2>2. \A i \in (t + 1)..(l + 1) : sValue[sChain'[i]] \in Values
    BY <2>1, <1>3, <1>5, <1>7 DEF Places
  <2>3. t < l => t + 1 \in 1..l
    BY <1>4
  <2>4. t < l + 1
    BY <1>4
  <2>. QED  BY <2>2, <2>3, <2>4, <1>2, <1>5, <1>7 DEF Places
<1>8. ListInv'
  <2>1. S!TypeOK'
    BY <1>1, <1>2, <1>3 DEF ListInv, S!TypeOK
  <2>2. Len(sChain') # 0 /\ sFirst' = sChain'[1] /\ sCpc' # "destroyed"
    BY <1>2, <1>3, <1>4, <1>5 DEF SpscDestroying
  <2>. QED  BY <2>1, <2>2, <1>5, <1>6 DEF ListInv
<1>9. HandInv'
  BY <1>1, <1>2, <1>5 DEF HandInv
<1>10. PlacesInv'
  <2>1. PICK c, t \in 1..l : Places(c, t)
    BY <1>1, <1>3 DEF PlacesInv
  <2>2. Places(c, t)' /\ c \in 1..(l + 1) /\ t \in 1..(l + 1)
    BY <2>1, <1>4, <1>7
  <2>. QED  BY <2>2, <1>2, <1>5 DEF PlacesInv
<1>. QED  BY <1>3, <1>5, <1>7, <1>8, <1>9, <1>10 DEF RecycleInv

\* What follows m_tail when the consumer is after it.
LEMMA NextOfTail ==
  ASSUME RecycleInv, ~SpscDestroying, NEW c \in 1..Len(sChain), NEW t \in 1..Len(sChain), Places(c, t)
  PROVE  /\ sNext[sTail] # Null => t < Len(sChain)
         /\ t < Len(sChain) => sNext[sTail] = sChain[t + 1] /\ t + 1 \in 1..Len(sChain)
<1>1. Len(sChain) \in Nat
  BY RecycleTypes
<1>2. sNext[sTail] = IF t = Len(sChain) THEN Null ELSE sChain[t + 1]
  BY DEF RecycleInv, ListInv, Linked, Places
<1>. QED  BY <1>1, <1>2

LEMMA ConsumerListSteps ==
  ASSUME RecycleInv, S!TryDequeue \/ S!Read \/ S!Advance
  PROVE  /\ RecycleInv' /\ UNCHANGED <<sChain, sValue>> /\ ~SpscDestroying
         /\ \A c, t \in 1..Len(sChain) : Places(c, t) =>
              /\ sCpc # "idle" => t + 1 \in 1..Len(sChain)
              /\ sCpc # "advance" => Places(c, t)'
              /\ sCpc = "advance" => Places(c, t + 1)'
<1>. DEFINE l == Len(sChain)
<1>1. ListInv /\ HandInv /\ PlacesInv
  BY DEF RecycleInv
<1>2. /\ UNCHANGED <<sHead, sFirst, sCopy, sChain, sNext, sValue, sAlloc, sPc, sN>>
      /\ sCpc \in {"idle", "read", "advance"} /\ sCpc' \in {"idle", "read", "advance"}
  BY DEF S!TryDequeue, S!Read, S!Advance, S!cache
<1>3. ~SpscDestroying /\ ~SpscDestroying' /\ l \in Nat /\ sCpc # "destroyed" /\ sCpc' # "destroyed"
  BY <1>2, RecycleTypes DEF SpscDestroying
<1>4. ASSUME NEW c \in 1..l, NEW t \in 1..l, Places(c, t)
      PROVE  /\ sCpc # "idle" => t + 1 \in 1..l
             /\ sCpc # "advance" => Places(c, t)'
             /\ sCpc = "advance" => Places(c, t + 1)'
             /\ sTail' \in Nodes /\ sOut' \in Values \cup {None}
  <2>1. /\ sNext[sTail] # Null => t < l
        /\ t < l => sNext[sTail] = sChain[t + 1] /\ t + 1 \in 1..l /\ sChain[t + 1] \in Nodes
    BY <1>3, <1>4, NextOfTail, RecycleTypes
  <2>2. sTail \in Nodes /\ sOut \in Values \cup {None} /\ sCpc # "destroy"
    BY <1>1, <1>2 DEF ListInv, S!TypeOK
  <2>3. CASE S!TryDequeue
    BY <2>1, <2>2, <2>3, <1>2, <1>4 DEF Places, S!TryDequeue
  <2>4. CASE S!Read
    <3>1. t < l /\ sTail' = sTail /\ sOut' = sValue[sChain[t + 1]] /\ sCpc = "read" /\ sCpc' = "advance"
      BY <2>1, <2>4, <1>4 DEF Places, S!Read
    <3>2. t + 1 \in (t + 1)..l
      BY <3>1, <1>3
    <3>3. sOut' \in Values
      BY <3>1, <3>2, <1>4 DEF Places
    <3>. QED  BY <2>1, <2>2, <3>1, <3>3, <1>2, <1>4 DEF Places
  <2>5. CASE S!Advance
    <3>1. t < l /\ sTail' = sChain[t + 1] /\ sOut' = None /\ sCpc = "advance" /\ sCpc' = "idle"
      BY <2>1, <2>5, <1>4 DEF Places, S!Advance
    <3>2. c <= t + 1 /\ \A i \in ((t + 1) + 1)..l : i \in (t + 1)..l
      BY <1>3, <1>4 DEF Places
    <3>. QED  BY <2>1, <3>1, <3>2, <1>2, <1>4 DEF Places
  <2>. QED  BY <2>3, <2>4, <2>5
<1>5. PICK c, t \in 1..l : Places(c, t)
  BY <1>1, <1>3 DEF PlacesInv
<1>6. PlacesInv'
  <2>1. \E e, u \in 1..l : Places(e, u)'
    BY <1>2, <1>4, <1>5
  <2>. QED  BY <2>1, <1>1, <1>2, <1>3 DEF PlacesInv
<1>7. ListInv'
  BY <1>1, <1>2, <1>3, <1>4, <1>5 DEF ListInv, S!TypeOK
<1>8. HandInv'
  BY <1>1, <1>2, <1>3 DEF HandInv
<1>. QED  BY <1>2, <1>3, <1>4, <1>6, <1>7, <1>8 DEF RecycleInv

LEMMA DestroySteps ==
  ASSUME RecycleInv, S!Destroy \/ S!DestroyNode
  PROVE  RecycleInv'
<1>. DEFINE l == Len(sChain)
<1>1. ListInv /\ HandInv
  BY DEF RecycleInv
<1>2. CASE S!Destroy
  <2>1. /\ UNCHANGED <<sTail, sHead, sFirst, sCopy, sChain, sNext, sValue, sAlloc, sPc, sN, sOut>>
        /\ sPc = "idle" /\ sCpc = "idle" /\ sCpc' = "destroy"
    BY <1>2 DEF S!Destroy, S!cache
  <2>. QED  BY <2>1, <1>1 DEF RecycleInv, ListInv, S!TypeOK, HandInv, PlacesInv, SpscDestroying
<1>3. CASE S!DestroyNode
  <2>1. /\ sCpc = "destroy" /\ sAlloc' = sAlloc \ {sFirst} /\ sFirst' = sNext[sFirst] /\ sChain' = Tail(sChain)
        /\ sCpc' = IF sFirst' = Null THEN "destroyed" ELSE "destroy"
        /\ UNCHANGED <<sTail, sHead, sCopy, sNext, sValue, sPc, sN, sOut>>
    BY <1>3 DEF S!DestroyNode
  <2>2. /\ l \in Nat /\ l # 0 /\ 1 \in 1..l /\ sFirst = sChain[1] /\ sChain \in Seq(Nodes) /\ Distinct(sChain)
        /\ Linked(sChain, sNext) /\ (\A i \in 1..l : sChain[i] \in Nodes) /\ Null \notin Nodes
    BY <2>1, <1>1, RecycleTypes DEF ListInv
  <2>3. /\ sChain' \in Seq(Nodes) /\ Len(sChain') = l - 1 /\ \A i \in 1..(l - 1) : sChain'[i] = sChain[i + 1]
        /\ Distinct(sChain') /\ ListNodes(sChain') = ListNodes(sChain) \ {sFirst} /\ Linked(sChain', sNext)
    BY <2>1, <2>2, TailList
  <2>4. sPc # "link"
    BY <2>1, <1>1 DEF HandInv, SpscDestroying
  <2>5. sFirst' = IF l = 1 THEN Null ELSE sChain[1 + 1]
    BY <2>1, <2>2 DEF Linked
  <2>6. IF sCpc' = "destroyed" THEN Len(sChain') = 0 ELSE Len(sChain') # 0 /\ sFirst' = sChain'[1]
    <3>1. CASE l = 1
      BY <3>1, <2>1, <2>3, <2>5
    <3>2. CASE l # 1
      <4>1. 1 + 1 \in 1..l /\ 1 \in 1..(l - 1) /\ l - 1 # 0
        <5>1. \A m \in Nat : m # 0 /\ m # 1 => 1 + 1 \in 1..m /\ 1 \in 1..(m - 1) /\ m - 1 # 0
          OBVIOUS
        <5>. QED  BY <5>1, <3>2, <2>2
      <4>. QED  BY <3>2, <4>1, <2>1, <2>2, <2>3, <2>5
    <3>. QED  BY <3>1, <3>2
  <2>7. ListInv'
    BY <2>1, <2>2, <2>3, <2>6, <1>1 DEF ListInv, S!TypeOK
  <2>8. HandInv'
    BY <2>1, <2>3, <2>4, <1>1 DEF HandInv
  <2>9. PlacesInv'
    BY <2>1 DEF PlacesInv, SpscDestroying
  <2>. QED  BY <2>7, <2>8, <2>9 DEF RecycleInv
<1>. QED  BY <1>2, <1>3

LEMMA RecycleStep == RecycleInv /\ [S!Next]_sVars => RecycleInv'
<1>. SUFFICES ASSUME RecycleInv, [S!Next]_sVars PROVE RecycleInv'
  OBVIOUS
<1>1. CASE UNCHANGED sVars
  BY <1>1 DEF sVars, RecycleInv, ListInv, S!TypeOK, HandInv, PlacesInv, Places, SpscDestroying
<1>2. ASSUME NEW v \in Values, S!Enqueue(v) PROVE RecycleInv'
  BY <1>2, TakeBackStep, CreateNewStep DEF S!Enqueue
<1>. QED  BY <1>1, <1>2, LinkStep, ConsumerListSteps, DestroySteps DEF S!Next

LEMMA RecycleBehaviour == MCSpec => S!Init /\ [][S!Next]_sVars
<1>1. MCInit => S!Init
  BY DEF MCInit
<1>2. [MCNext]_mcVars => [S!Next]_sVars
  BY DEF MCNext, mcVars
<1>. QED  BY <1>1, <1>2, PTL DEF MCSpec

LEMMA RecycleAt ==
  ASSUME RecycleInv, NEW i \in 1..Len(sChain)
  PROVE  S!At(sChain[i]) = i
BY AtIs DEF RecycleInv, ListInv, S!At

LEMMA RecycleOwns == RecycleInv => S!NodesOwned
<1>. SUFFICES ASSUME RecycleInv PROVE S!NodesOwned
  OBVIOUS
<1>1. ListInv /\ HandInv /\ PlacesInv
  BY DEF RecycleInv
<1>2. S!ChainNodes = ListNodes(sChain)
  BY DEF S!ChainNodes, ListNodes
<1>3. S!Ordered
  <2>. SUFFICES ASSUME ~SpscDestroying PROVE S!Ordered
    BY DEF S!Ordered, SpscDestroying
  <2>1. PICK c, t \in 1..Len(sChain) : Places(c, t)
    BY <1>1 DEF PlacesInv
  <2>2. /\ sChain[Len(sChain)] = sHead /\ sFirst = sChain[1] /\ sCopy = sChain[c] /\ sTail = sChain[t] /\ c <= t
        /\ sCpc \in {"read", "advance"} => t < Len(sChain)
    BY <2>1, <1>1 DEF PlacesInv, Places, ListInv, SpscDestroying
  <2>3. 1 \in 1..Len(sChain) /\ Len(sChain) \in 1..Len(sChain)
    BY RecycleTypes DEF SpscDestroying
  <2>4. S!At(sHead) = Len(sChain) /\ S!At(sFirst) = 1 /\ S!At(sCopy) = c /\ S!At(sTail) = t
    BY <2>2, <2>3, RecycleAt
  <2>5. {sFirst, sCopy, sTail, sHead} \subseteq S!ChainNodes
    BY <2>2, <2>3 DEF S!ChainNodes
  <2>6. S!Cardinality(S!ChainNodes) = Len(sChain)
    <3>1. Cardinality(ListNodes(sChain)) = Len(sChain)
      BY <1>1, ListCardinality DEF ListInv
    <3>2. S!Cardinality(S!ChainNodes) = Cardinality(S!ChainNodes)
      BY DEF S!Cardinality, Cardinality
    <3>. QED  BY <3>1, <3>2, <1>2
  <2>7. \A i \in 1..Len(sChain) : sNext[sChain[i]] = IF i = Len(sChain) THEN Null ELSE sChain[i + 1]
    BY <1>1 DEF ListInv, Linked
  <2>. QED  BY <2>2, <2>4, <2>5, <2>6, <2>7 DEF S!Ordered
<1>. QED  BY <1>1, <1>2, <1>3 DEF S!NodesOwned, ListInv, HandInv

\* What spsc_queue holds and what its consumer has taken: what Fifo's variables
\* stand for.
RecycleQueued == LET first == S!At(sTail) + IF sCpc = "advance" THEN 1 ELSE 0
                 IN  [i \in 1..(Len(sChain) - first) |-> sValue[sChain[first + i]]]
RecycleTaken  == [t \in {"consumer"} |-> IF sCpc = "advance" THEN sOut ELSE None]

\* They are the items after m_tail, or after the one that is being returned.
RecycleFrom(t)   == IF sCpc = "advance" THEN t + 1 ELSE t
RecycleContent == ~SpscDestroying => \A c, t \in 1..Len(sChain) : Places(c, t) =>
  RecycleQueued = Items(sChain, sValue, RecycleFrom(t), Len(sChain))

LEMMA RecycleItems == RecycleInv => RecycleContent
<1>. SUFFICES ASSUME RecycleInv, NEW c \in 1..Len(sChain), NEW t \in 1..Len(sChain), Places(c, t)
              PROVE  RecycleQueued = Items(sChain, sValue, RecycleFrom(t), Len(sChain))
  BY DEF RecycleContent
<1>1. S!At(sTail) = t
  BY RecycleAt DEF Places
<1>2. S!At(sTail) + (IF sCpc = "advance" THEN 1 ELSE 0) = RecycleFrom(t)
  BY <1>1 DEF RecycleFrom
<1>. QED  BY <1>2 DEF RecycleQueued, Items

LEMMA RecycleEnqueueQuiet ==
  ASSUME RecycleInv, NEW v \in Values, S!Enqueue(v), RecycleContent, RecycleContent'
  PROVE  RecycleQueued' = RecycleQueued
<1>. DEFINE l == Len(sChain)
<1>1. ~SpscDestroying /\ ~SpscDestroying' /\ sCpc' = sCpc
  BY DEF S!Enqueue, S!consumerVars, SpscDestroying
<1>2. PICK c, t \in 1..l : Places(c, t)
  BY <1>1 DEF RecycleInv, PlacesInv
<1>3. /\ l \in Nat /\ (\A i \in 1..l : sChain[i] \in Nodes) /\ DOMAIN sValue = Nodes /\ 1 \in 1..l /\ l # 0
      /\ \A i, j \in 1..l : sChain[i] = sChain[j] => i = j
  BY <1>1, RecycleTypes DEF RecycleInv, ListInv, Distinct, SpscDestroying
<1>. DEFINE f == RecycleFrom(t)
<1>4. f \in Nat /\ f >= 1 /\ \A i \in (f + 1)..l : i \in 1..l /\ i # 1 /\ i - 1 \in 1..(l - 1) /\ (i - 1) + 1 = i
  BY <1>3 DEF RecycleFrom
<1>5. RecycleQueued = Items(sChain, sValue, f, l)
  BY <1>1, <1>2 DEF RecycleContent
<1>. HIDE DEF f
<1>6. CASE S!create_from_internal
  <2>1. PICK e \in 1..Len(sChain') : t - 1 \in 1..Len(sChain') /\ Places(e, t - 1)'
    BY <1>2, <1>6, TakeBackStep
  <2>2. sChain' = Tail(sChain) /\ sValue' = [sValue EXCEPT ![sFirst] = v] /\ sFirst = sChain[1]
    BY <1>1, <1>6 DEF S!Enqueue, S!create_from_internal, RecycleInv, ListInv, SpscDestroying
  <2>3. Len(sChain') = l - 1 /\ \A i \in 1..(l - 1) : sChain'[i] = sChain[i + 1]
    BY <2>2, <1>3, TailList DEF RecycleInv, ListInv
  <2>4. RecycleFrom(t - 1)' = f - 1
    BY <1>1, <1>2, <1>3 DEF RecycleFrom, f
  <2>5. RecycleQueued' = Items(sChain', sValue', f - 1, l - 1)
    BY <2>1, <2>3, <2>4, <1>1 DEF RecycleContent
  <2>6. ASSUME NEW i \in (f + 1)..l PROVE sValue'[sChain'[i - 1]] = sValue[sChain[i]]
    <3>1. sChain'[i - 1] = sChain[i] /\ sChain[i] # sFirst /\ sChain[i] \in Nodes
      BY <2>2, <2>3, <1>3, <1>4
    <3>. QED  BY <3>1, <2>2, <1>3
  <2>7. Items(sChain', sValue', f - 1, l - 1) = Items(sChain, sValue, f, l)
    <3>1. f > 0 /\ f \in Nat /\ l \in Nat /\ Shifted(sChain, sValue, sChain', sValue', f, l)
      BY <2>6, <1>3, <1>4 DEF Shifted
    <3>. QED  BY <3>1, ItemsShift
  <2>. QED  BY <2>5, <2>7, <1>5
<1>7. CASE S!create_new
  <2>1. PICK e \in 1..l : Places(e, t)'
    BY <1>2, <1>7, CreateNewStep
  <2>2. PICK x \in Nodes \ sAlloc : sValue' = [sValue EXCEPT ![x] = v]
    BY <1>7 DEF S!Enqueue, S!create_new
  <2>3. sChain' = sChain /\ RecycleFrom(t)' = f
    BY <1>1, <1>7 DEF S!create_new, RecycleFrom, f
  <2>4. RecycleQueued' = Items(sChain, sValue', f, l)
    BY <2>1, <2>3, <1>1, <1>2 DEF RecycleContent
  <2>5. \A i \in 1..l : sValue'[sChain[i]] = sValue[sChain[i]]
    <3>1. ListNodes(sChain) \subseteq sAlloc
      BY DEF RecycleInv, HandInv
    <3>. QED  BY <3>1, <2>2, <1>3 DEF ListNodes
  <2>6. Same(sChain, sValue, sChain, sValue', f, l)
    BY <2>5, <1>4 DEF Same
  <2>. QED  BY <2>4, <2>6, <1>3, <1>4, <1>5, ItemsSame
<1>. QED  BY <1>6, <1>7 DEF S!Enqueue

LEMMA RecycleEnqueues ==
  ASSUME RecycleInv, S!Link, RecycleContent, RecycleContent'
  PROVE  /\ RecycleQueued' = Append(RecycleQueued, sValue[sN]) /\ sValue[sN] \in Values
         /\ Len(RecycleQueued) < Cardinality(Nodes)
<1>. DEFINE l == Len(sChain)
<1>1. ~SpscDestroying /\ ~SpscDestroying' /\ sCpc' = sCpc /\ sValue[sN] \in Values /\ sValue' = sValue
  BY DEF S!Link, S!consumerVars, SpscDestroying, RecycleInv, HandInv
<1>2. PICK c, t \in 1..l : Places(c, t)
  BY <1>1 DEF RecycleInv, PlacesInv
<1>3. /\ Len(sChain') = l + 1 /\ sChain'[l + 1] = sN /\ Places(c, t)'
      /\ RecycleInv' /\ \A i \in 1..l : sChain'[i] = sChain[i]
  BY <1>2, LinkStep
<1>4. l \in Nat /\ t \in 1..(l + 1) /\ c \in 1..(l + 1)
  BY RecycleTypes
<1>. DEFINE f == RecycleFrom(t)
<1>5. f \in Nat /\ f >= 1 /\ f <= l /\ \A i \in (f + 1)..l : i \in 1..l /\ i \in (t + 1)..l
  BY <1>2, <1>4 DEF RecycleFrom, Places
<1>6. RecycleQueued = Items(sChain, sValue, f, l)
  BY <1>1, <1>2 DEF RecycleContent
<1>7. RecycleFrom(t)' = f
  BY <1>1 DEF RecycleFrom
<1>8. RecycleQueued' = Items(sChain', sValue, f, l + 1)
  BY <1>1, <1>3, <1>4, <1>7 DEF RecycleContent
<1>9. Same(sChain, sValue, sChain', sValue, f, l) /\ Valued(sChain, sValue, f, l)
  BY <1>2, <1>3, <1>5 DEF Places, Same, Valued
<1>. HIDE DEF f
<1>10. Items(sChain', sValue, f, l + 1) = Append(Items(sChain, sValue, f, l), sValue[sN]) /\ Len(Items(sChain, sValue, f, l)) = l - f
  <2>1. sValue[sN] \in Values /\ sValue[sChain'[l + 1]] = sValue[sN] /\ f \in Nat /\ l \in Nat /\ f <= l
    BY <1>1, <1>3, <1>4, <1>5
  <2>. QED  BY <2>1, <1>9, ItemsAppend
<1>11. l + 1 <= Cardinality(Nodes) /\ Cardinality(Nodes) \in Nat
  <2>1. sChain' \in Seq(Nodes) /\ Distinct(sChain')
    BY <1>3 DEF RecycleInv, ListInv
  <2>. QED  BY <2>1, <1>3, NodesAssumption, ListCardinality, FS_CardinalityType
<1>. QED  BY <1>1, <1>4, <1>5, <1>6, <1>8, <1>10, <1>11

LEMMA RecycleDequeues ==
  ASSUME RecycleInv, S!Read, RecycleContent, RecycleContent'
  PROVE  RecycleQueued # << >> /\ Head(RecycleQueued) = sOut' /\ RecycleQueued' = Tail(RecycleQueued)
<1>. DEFINE l == Len(sChain)
<1>1. /\ ~SpscDestroying /\ ~SpscDestroying' /\ sCpc = "read" /\ sCpc' = "advance"
      /\ sValue' = sValue /\ sChain' = sChain /\ sOut' = sValue[sNext[sTail]]
  BY DEF S!Read, S!cache, SpscDestroying
<1>2. PICK c, t \in 1..l : Places(c, t)
  BY <1>1 DEF RecycleInv, PlacesInv
<1>3. l \in Nat /\ t < l /\ Places(c, t)' /\ sOut' = sValue[sChain[t + 1]]
  BY <1>1, <1>2, RecycleTypes, NextOfTail, ConsumerListSteps DEF Places
<1>4. RecycleQueued = Items(sChain, sValue, t, l)
  BY <1>1, <1>2 DEF RecycleContent, RecycleFrom
<1>5. RecycleQueued' = Items(sChain, sValue, t + 1, l)
  BY <1>1, <1>2, <1>3 DEF RecycleContent, RecycleFrom
<1>6. t \in Nat /\ Valued(sChain, sValue, t, l) /\ Same(sChain, sValue, sChain, sValue, t + 1, l)
  BY <1>2, <1>3 DEF Places, Valued, Same
<1>7. /\ Items(sChain, sValue, t + 1, l) = Tail(Items(sChain, sValue, t, l)) /\ Items(sChain, sValue, t, l) # << >>
      /\ Head(Items(sChain, sValue, t, l)) = sValue[sChain[t + 1]]
  BY <1>3, <1>6, ItemsTail
<1>. QED  BY <1>3, <1>4, <1>5, <1>7

LEMMA RecycleReturns ==
  ASSUME RecycleInv, S!TryDequeue \/ S!Advance, RecycleContent, RecycleContent'
  PROVE  RecycleQueued' = RecycleQueued /\ (S!Advance => sOut \in Values)
<1>. DEFINE l == Len(sChain)
<1>1. /\ ~SpscDestroying /\ ~SpscDestroying' /\ sValue' = sValue /\ sChain' = sChain
      /\ IF sCpc = "advance" THEN sCpc' = "idle" ELSE sCpc' = "read"
  BY DEF S!TryDequeue, S!Advance, S!cache, SpscDestroying
<1>2. PICK c, t \in 1..l : Places(c, t)
  BY <1>1 DEF RecycleInv, PlacesInv
<1>3. /\ sCpc # "advance" => Places(c, t)'
      /\ sCpc = "advance" => Places(c, t + 1)' /\ t + 1 \in 1..l /\ t < l
  BY <1>2, ConsumerListSteps DEF Places
<1>4. RecycleQueued = Items(sChain, sValue, RecycleFrom(t), l)
  BY <1>1, <1>2 DEF RecycleContent
<1>5. RecycleQueued' = Items(sChain, sValue, RecycleFrom(t), l)
  <2>1. sCpc = "advance" => RecycleFrom(t + 1)' = t + 1 /\ RecycleFrom(t) = t + 1
    BY <1>1 DEF RecycleFrom
  <2>2. sCpc # "advance" => RecycleFrom(t)' = t /\ RecycleFrom(t) = t
    BY <1>1 DEF RecycleFrom
  <2>. QED  BY <2>1, <2>2, <1>1, <1>2, <1>3 DEF RecycleContent
<1>6. S!Advance => sOut \in Values
  <2>1. l \in Nat
    BY RecycleTypes
  <2>2. sCpc = "advance" => t + 1 \in (t + 1)..l /\ sOut = sValue[sChain[t + 1]]
    BY <2>1, <1>2, <1>3 DEF Places
  <2>. QED  BY <2>2, <1>2 DEF S!Advance, Places
<1>. QED  BY <1>4, <1>5, <1>6

LEMMA RecycleFifoStep ==
  RecycleInv /\ RecycleContent /\ RecycleContent' /\ [S!Next]_sVars
    => [sCpc' \in {"destroy", "destroyed"} \/ S!F!Next]_(S!F!vars)
<1>. SUFFICES ASSUME RecycleInv, RecycleContent, RecycleContent', [S!Next]_sVars, ~SpscDestroying'
              PROVE  S!F!Next \/ (RecycleQueued' = RecycleQueued /\ RecycleTaken' = RecycleTaken)
  BY DEF S!F!vars, RecycleQueued, RecycleTaken, SpscDestroying
<1>1. CASE UNCHANGED sVars
  BY <1>1 DEF sVars, RecycleQueued, RecycleTaken, S!At
<1>2. ASSUME NEW v \in Values, S!Enqueue(v) PROVE RecycleQueued' = RecycleQueued /\ RecycleTaken' = RecycleTaken
  BY <1>2, RecycleEnqueueQuiet DEF RecycleTaken, S!Enqueue, S!consumerVars
<1>3. CASE S!Link
  <2>1. RecycleTaken' = RecycleTaken
    BY <1>3 DEF RecycleTaken, S!Link, S!consumerVars
  <2>2. /\ RecycleQueued' = Append(RecycleQueued, sValue[sN]) /\ sValue[sN] \in Values
        /\ Len(RecycleQueued) < S!Cardinality(Nodes)
    BY <1>3, RecycleEnqueues DEF S!Cardinality, Cardinality
  <2>3. PICK v \in Values : v = sValue[sN]
    BY <2>2
  <2>4. S!F!Enqueue(v)
    BY <2>1, <2>2, <2>3 DEF S!F!Enqueue, RecycleQueued, RecycleTaken
  <2>. QED  BY <2>4 DEF S!F!Next
<1>4. CASE S!Read
  <2>1. RecycleQueued # << >> /\ Head(RecycleQueued) = sOut' /\ RecycleQueued' = Tail(RecycleQueued)
    BY <1>4, RecycleDequeues
  <2>2. RecycleTaken["consumer"] = None /\ RecycleTaken' = [RecycleTaken EXCEPT !["consumer"] = sOut']
    BY <1>4 DEF S!Read, RecycleTaken
  <2>3. S!F!Dequeue("consumer")
    BY <2>1, <2>2 DEF S!F!Dequeue, RecycleQueued, RecycleTaken
  <2>. QED  BY <2>3 DEF S!F!Next
<1>5. CASE S!Advance
  <2>1. RecycleQueued' = RecycleQueued /\ sOut # None
    BY <1>5, RecycleReturns, RingAssumption
  <2>2. RecycleTaken["consumer"] # None /\ RecycleTaken' = [RecycleTaken EXCEPT !["consumer"] = None]
    BY <2>1, <1>5 DEF S!Advance, RecycleTaken
  <2>3. S!F!Return("consumer")
    BY <2>1, <2>2 DEF S!F!Return, RecycleQueued, RecycleTaken
  <2>. QED  BY <2>3 DEF S!F!Next
<1>6. CASE S!TryDequeue
  BY <1>6, RecycleReturns DEF RecycleTaken, S!TryDequeue
<1>7. CASE S!Destroy \/ S!DestroyNode
  BY <1>7 DEF S!Destroy, S!DestroyNode, SpscDestroying
<1>. QED  BY <1>1, <1>2, <1>3, <1>4, <1>5, <1>6, <1>7 DEF S!Next

LEMMA RecycleFifoInit == S!Init => S!F!Init
<1>. SUFFICES ASSUME S!Init PROVE S!F!Init
  OBVIOUS
<1>1. sCpc = "idle" /\ sTail = sHead
  BY DEF S!Init
<1>2. RecycleInv /\ RecycleContent /\ ~SpscDestroying
  BY <1>1, RecycleInit, RecycleItems DEF SpscDestroying
<1>3. PICK c, t \in 1..Len(sChain) : Places(c, t)
  BY <1>2 DEF RecycleInv, PlacesInv
<1>4. t = Len(sChain) /\ Len(sChain) \in Nat
  BY <1>1, <1>2, <1>3, RecycleTypes DEF RecycleInv, ListInv, PlacesInv, Places, Distinct, SpscDestroying
<1>5. RecycleQueued = [i \in 1..(Len(sChain) - Len(sChain)) |-> sValue[sChain[Len(sChain) + i]]]
  BY <1>1, <1>2, <1>3, <1>4 DEF RecycleContent, RecycleFrom, Items
<1>6. RecycleQueued = << >>
  <2>1. 1..(Len(sChain) - Len(sChain)) = {}
    BY <1>4
  <2>. QED  BY <2>1, <1>5
<1>. QED  BY <1>1, <1>6 DEF S!F!Init, RecycleQueued

\* spsc_queue: with nodes taken again and again, the queue is a FIFO until its
\* destructor runs.
LEMMA RecycleIsFifo == MCSpec => S!ImplementsFifo
BY RecycleBehaviour, RecycleInit, RecycleStep, RecycleItems, RecycleFifoInit, RecycleFifoStep, PTL DEF S!ImplementsFifo

-----------------------------------------------------------------------------
(* SutterQueue *)

SutterDestroying == uCpc \in {"destroy", "destroyed"}

SutterListInv ==
  /\ U!TypeOK /\ uChain \in Seq(Nodes) /\ Distinct(uChain) /\ Linked(uChain, uNext)
  /\ uAlloc = ListNodes(uChain)
  /\ IF uCpc = "destroyed" THEN Len(uChain) = 0 ELSE Len(uChain) # 0 /\ uFirst = uChain[1]
  /\ uPc # "idle" => ~SutterDestroying

\* m_divider is at d and m_last at l: the items lie between, but for the one
\* the consumer has moved out, and the producer's div is not beyond d.
Divided(d, l) ==
  /\ d <= l /\ uChain[d] = uDiv /\ uChain[l] = uLast
  /\ l = IF uPc = "publish" THEN Len(uChain) - 1 ELSE Len(uChain)
  /\ uCpc \in {"move", "store"} => d < l
  /\ uPc = "trim" => \E e \in 1..d : uChain[e] = uLocal
  /\ \A i \in (d + 1)..Len(uChain) : uCpc # "store" \/ i # d + 1 => uValue[uChain[i]] \in Values
  /\ uCpc = "store" => uOut \in Values
DividedInv == ~SutterDestroying => \E d, l \in 1..Len(uChain) : Divided(d, l)

SutterInv == SutterListInv /\ DividedInv

LEMMA SutterInit == U!Init => SutterInv
<1>. SUFFICES ASSUME U!Init PROVE SutterInv
  OBVIOUS
<1>. DEFINE x == CHOOSE x \in Nodes : TRUE
<1>1. /\ uFirst = x /\ uDiv = x /\ uLast = x /\ uChain = <<x>> /\ uAlloc = {x}
      /\ uNext = [y \in Nodes |-> Null] /\ uValue = [y \in Nodes |-> None]
      /\ uPc = "idle" /\ uLocal = Null /\ uCpc = "idle" /\ uOut = None
  BY DEF U!Init
<1>2. x \in Nodes
  <2>1. PICK y \in FewNodes : y \in Nodes
    BY NodesAssumption
  <2>. QED  BY <2>1
<1>. HIDE DEF x
<1>3. uChain \in Seq(Nodes) /\ Len(uChain) = 1 /\ uChain[1] = x /\ \A i \in 1..1 : i = 1
  BY <1>1, <1>2
<1>4. SutterListInv
  BY <1>1, <1>2, <1>3 DEF SutterListInv, U!TypeOK, Distinct, Linked, ListNodes
<1>5. Divided(1, 1)
  BY <1>1, <1>3 DEF Divided
<1>. QED  BY <1>3, <1>4, <1>5 DEF SutterInv, DividedInv

LEMMA SutterTypes ==
  ASSUME SutterInv
  PROVE  /\ Len(uChain) \in Nat /\ (\A i \in 1..Len(uChain) : uChain[i] \in Nodes)
         /\ DOMAIN uNext = Nodes /\ DOMAIN uValue = Nodes /\ Null \notin Nodes
         /\ uCpc # "destroyed" => 1 \in 1..Len(uChain) /\ Len(uChain) \in 1..Len(uChain)
BY SeqIs, NodesAssumption DEF SutterInv, SutterListInv, U!TypeOK

LEMMA SutterEnqueueStep ==
  ASSUME SutterInv, NEW v \in Values, U!Enqueue(v)
  PROVE  /\ SutterInv' /\ ~SutterDestroying
         /\ \A d, l \in 1..Len(uChain) : Divided(d, l) =>
              /\ Divided(d, l)' /\ \A i \in 1..l : uChain'[i] = uChain[i] /\ uValue'[uChain[i]] = uValue[uChain[i]]
<1>. DEFINE n == Len(uChain)
<1>1. SutterListInv /\ DividedInv
  BY DEF SutterInv
<1>2. PICK x \in Nodes \ uAlloc :
        /\ uAlloc' = uAlloc \cup {x} /\ uValue' = [uValue EXCEPT ![x] = v]
        /\ uNext' = [uNext EXCEPT ![x] = Null, ![uLast] = x] /\ uChain' = Append(uChain, x)
  BY DEF U!Enqueue
<1>3. /\ uPc = "idle" /\ ~SutterDestroying /\ uPc' = "publish" /\ uCpc' = uCpc /\ ~SutterDestroying'
      /\ UNCHANGED <<uFirst, uLast, uLocal, uDiv, uOut>>
  BY DEF U!Enqueue, U!consumerVars, SutterDestroying
<1>4. /\ n \in Nat /\ (\A i \in 1..n : uChain[i] \in Nodes) /\ DOMAIN uNext = Nodes /\ DOMAIN uValue = Nodes
      /\ n # 0 /\ uFirst = uChain[1] /\ 1 \in 1..n /\ n \in 1..n /\ uChain \in Seq(Nodes) /\ Distinct(uChain)
      /\ Linked(uChain, uNext) /\ x \notin ListNodes(uChain) /\ uAlloc = ListNodes(uChain)
  BY <1>1, <1>3, SutterTypes DEF SutterListInv, SutterDestroying
<1>5. /\ uChain' \in Seq(Nodes) /\ Len(uChain') = n + 1 /\ (\A i \in 1..n : uChain'[i] = uChain[i])
      /\ uChain'[n + 1] = x /\ ListNodes(uChain') = ListNodes(uChain) \cup {x} /\ Distinct(uChain')
  BY <1>2, <1>4, AppendList
<1>6. uLast = uChain[n]
  BY <1>1, <1>3 DEF DividedInv, Divided
<1>7. Linked(uChain', uNext')
  <2>. DEFINE nx == [uNext EXCEPT ![x] = Null]
  <2>1. Linked(uChain, nx) /\ DOMAIN nx = Nodes /\ nx[x] = Null
    BY <1>4, LinkElsewhere
  <2>2. uNext' = [nx EXCEPT ![uChain[n]] = x]
    BY <1>2, <1>6
  <2>. HIDE DEF nx
  <2>3. Linked(Append(uChain, x), [nx EXCEPT ![uChain[n]] = x])
    BY <2>1, <1>4, LinkList
  <2>. QED  BY <2>2, <2>3, <1>2
<1>8. \A i \in 1..n : uValue'[uChain'[i]] = uValue[uChain[i]] /\ uValue'[uChain[i]] = uValue[uChain[i]]
  BY <1>2, <1>4, <1>5 DEF ListNodes
<1>9. uValue'[uChain'[n + 1]] = v
  BY <1>2, <1>4, <1>5
<1>10. ASSUME NEW d \in 1..n, NEW l \in 1..n, Divided(d, l) PROVE Divided(d, l)'
  <2>1. l = n /\ d <= n /\ uChain[d] = uDiv /\ uChain[l] = uLast
    BY <1>3, <1>10 DEF Divided
  <2>2. l = (n + 1) - 1
    BY <2>1, <1>4
  <2>3. \A i \in (d + 1)..(n + 1) : i = n + 1 \/ (i \in (d + 1)..n /\ i \in 1..n)
    BY <1>4
  <2>4. \A i \in (d + 1)..(n + 1) : uCpc # "store" \/ i # d + 1 => uValue'[uChain'[i]] \in Values
    BY <2>3, <1>8, <1>9, <1>10 DEF Divided
  <2>. QED  BY <2>1, <2>2, <2>4, <1>3, <1>5, <1>10 DEF Divided
<1>11. DividedInv'
  <2>1. PICK d, l \in 1..n : Divided(d, l)
    BY <1>1, <1>3 DEF DividedInv
  <2>2. Divided(d, l)' /\ d \in 1..(n + 1) /\ l \in 1..(n + 1)
    BY <2>1, <1>4, <1>10
  <2>. QED  BY <2>2, <1>5 DEF DividedInv
<1>12. U!TypeOK'
  <2>1. uNext' \in [Nodes -> Nodes \cup {Null}] /\ uValue' \in [Nodes -> Values \cup {None}]
    BY <1>1, <1>2 DEF SutterListInv, U!TypeOK
  <2>. QED  BY <2>1, <1>1, <1>2, <1>3 DEF SutterListInv, U!TypeOK
<1>13. SutterListInv'
  <2>1. uAlloc' = ListNodes(uChain')
    BY <1>2, <1>4, <1>5
  <2>2. Len(uChain') # 0 /\ uFirst' = uChain'[1] /\ uCpc' # "destroyed"
    BY <1>3, <1>4, <1>5 DEF SutterDestroying
  <2>. QED  BY <2>1, <2>2, <1>3, <1>5, <1>7, <1>12 DEF SutterListInv
<1>14. \A l \in 1..n : \A i \in 1..l : i \in 1..n
  BY <1>4
<1>. QED  BY <1>3, <1>5, <1>8, <1>10, <1>11, <1>13, <1>14 DEF SutterInv

\* Neither the list nor what it holds changes.
LEMMA SutterProducerSteps ==
  ASSUME SutterInv, U!Publish \/ U!LoadDivider
  PROVE  /\ SutterInv' /\ ~SutterDestroying /\ UNCHANGED <<uChain, uValue>>
         /\ \A d, l \in 1..Len(uChain) : Divided(d, l) =>
              /\ U!LoadDivider => Divided(d, l)'
              /\ U!Publish => l + 1 = Len(uChain) /\ Divided(d, l + 1)' /\ l + 1 \in 1..Len(uChain)
<1>. DEFINE n == Len(uChain)
<1>1. SutterListInv /\ DividedInv
  BY DEF SutterInv
<1>2. /\ UNCHANGED <<uFirst, uDiv, uNext, uValue, uAlloc, uCpc, uOut, uChain>>
      /\ uPc \in {"publish", "load"} /\ uPc' \in {"load", "trim"}
  BY DEF U!Publish, U!LoadDivider, U!consumerVars
<1>3. ~SutterDestroying /\ ~SutterDestroying'
  BY <1>1, <1>2 DEF SutterListInv, SutterDestroying
<1>4. n \in Nat /\ (\A i \in 1..n : uChain[i] \in Nodes) /\ Linked(uChain, uNext)
  BY <1>1, SutterTypes DEF SutterListInv
<1>5. ASSUME NEW d \in 1..n, NEW l \in 1..n, Divided(d, l)
      PROVE  /\ U!LoadDivider => Divided(d, l)'
             /\ U!Publish => l + 1 = n /\ Divided(d, l + 1)' /\ l + 1 \in 1..n
             /\ \E k \in 1..n : Divided(d, k)'
             /\ uLast' \in Nodes
  <2>1. CASE U!LoadDivider
    <3>1. uLocal' = uDiv /\ uPc = "load" /\ uPc' = "trim" /\ uLast' = uLast
      BY <2>1 DEF U!LoadDivider
    <3>2. d \in 1..d
      OBVIOUS
    <3>3. Divided(d, l)'
      BY <3>1, <3>2, <1>2, <1>5 DEF Divided
    <3>. QED  BY <3>1, <3>3, <1>1 DEF SutterListInv, U!TypeOK, U!LoadDivider, U!Publish
  <2>2. CASE U!Publish
    <3>1. uPc = "publish" /\ uPc' = "load" /\ uLast' = uNext[uLast]
      BY <2>2 DEF U!Publish
    <3>2. l = n - 1 /\ uChain[l] = uLast
      BY <3>1, <1>5 DEF Divided
    <3>3. l + 1 = n /\ l + 1 \in 1..n /\ l # n
      BY <3>2, <1>4
    <3>4. uLast' = uChain[l + 1]
      BY <3>1, <3>2, <3>3, <1>4 DEF Linked
    <3>5. d <= l + 1 /\ (d < l => d < l + 1)
      BY <1>5 DEF Divided
    <3>6. Divided(d, l + 1)'
      BY <3>1, <3>3, <3>4, <3>5, <1>2, <1>5 DEF Divided
    <3>. QED  BY <3>1, <3>3, <3>4, <3>6, <1>4 DEF U!LoadDivider
  <2>. QED  BY <2>1, <2>2
<1>6. PICK d, l \in 1..n : Divided(d, l)
  BY <1>1, <1>3 DEF DividedInv
<1>7. DividedInv'
  BY <1>2, <1>5, <1>6 DEF DividedInv
<1>8. uLocal' \in Nodes \cup {Null}
  BY <1>1 DEF SutterListInv, U!TypeOK, U!Publish, U!LoadDivider
<1>9. SutterListInv'
  BY <1>1, <1>2, <1>3, <1>5, <1>6, <1>8 DEF SutterListInv, U!TypeOK
<1>. QED  BY <1>2, <1>3, <1>5, <1>7, <1>9 DEF SutterInv

LEMMA SutterTrimStep ==
  ASSUME SutterInv, U!Trim
  PROVE  /\ SutterInv' /\ ~SutterDestroying
         /\ uFirst = uLocal => UNCHANGED <<uChain, uValue>>
         /\ \A d, l \in 1..Len(uChain) : Divided(d, l) =>
              /\ uFirst = uLocal => Divided(d, l)'
              /\ uFirst # uLocal =>
                   /\ Divided(d - 1, l - 1)' /\ d - 1 \in 1..Len(uChain') /\ l - 1 \in 1..Len(uChain')
                   /\ \A i \in 2..Len(uChain) : uValue'[uChain'[i - 1]] = uValue[uChain[i]]
<1>. DEFINE n == Len(uChain)
<1>1. SutterListInv /\ DividedInv
  BY DEF SutterInv
<1>2. uPc = "trim" /\ UNCHANGED <<uLast, uDiv, uCpc, uOut>> /\ ~SutterDestroying /\ ~SutterDestroying'
  BY <1>1 DEF U!Trim, U!consumerVars, SutterListInv, SutterDestroying
<1>3. /\ n \in Nat /\ (\A i \in 1..n : uChain[i] \in Nodes) /\ DOMAIN uNext = Nodes /\ DOMAIN uValue = Nodes
      /\ n # 0 /\ uFirst = uChain[1] /\ 1 \in 1..n /\ n \in 1..n /\ uChain \in Seq(Nodes) /\ Distinct(uChain)
      /\ Linked(uChain, uNext) /\ uAlloc = ListNodes(uChain)
  BY <1>1, <1>2, SutterTypes DEF SutterListInv, SutterDestroying
<1>4. PICK d0, l0 \in 1..n : Divided(d0, l0)
  BY <1>1, <1>2 DEF DividedInv
<1>5. CASE uFirst = uLocal
  <2>1. uPc' = "idle" /\ uLocal' = Null /\ UNCHANGED <<uFirst, uNext, uValue, uAlloc, uChain>>
    BY <1>5 DEF U!Trim
  <2>2. \A d, l \in 1..n : Divided(d, l) => Divided(d, l)'
    BY <2>1, <1>2 DEF Divided
  <2>3. SutterListInv' /\ DividedInv'
    BY <2>1, <2>2, <1>1, <1>2, <1>4 DEF SutterListInv, U!TypeOK, DividedInv
  <2>. QED  BY <2>1, <2>2, <2>3, <1>2, <1>5 DEF SutterInv
<1>6. CASE uFirst # uLocal
  <2>1. /\ uFirst' = uNext[uFirst] /\ uAlloc' = uAlloc \ {uFirst} /\ uNext' = [uNext EXCEPT ![uFirst] = Null]
        /\ uValue' = [uValue EXCEPT ![uFirst] = None] /\ uChain' = Tail(uChain) /\ uPc' = "load" /\ uLocal' = uLocal
    BY <1>6 DEF U!Trim
  <2>2. /\ uChain' \in Seq(Nodes) /\ Len(uChain') = n - 1 /\ \A i \in 1..(n - 1) : uChain'[i] = uChain[i + 1]
        /\ Distinct(uChain') /\ ListNodes(uChain') = ListNodes(uChain) \ {uFirst} /\ Linked(uChain', uNext)
    BY <2>1, <1>3, TailList
  <2>3. Linked(uChain', uNext')
    <3>1. Linked(uChain', [uNext EXCEPT ![uFirst] = Null])
      BY <2>2, <1>3, LinkElsewhere
    <3>. QED  BY <3>1, <2>1
  <2>4. \A i, j \in 1..n : uChain[i] = uChain[j] => i = j
    BY <1>3 DEF Distinct
  <2>5. ASSUME NEW i \in 2..n PROVE uValue'[uChain'[i - 1]] = uValue[uChain[i]] /\ uChain'[i - 1] = uChain[i]
    <3>1. i - 1 \in 1..(n - 1) /\ (i - 1) + 1 = i /\ i \in 1..n /\ i # 1
      BY <1>3
    <3>2. uChain'[i - 1] = uChain[i] /\ uChain[i] # uFirst /\ uChain[i] \in Nodes
      BY <3>1, <2>2, <2>4, <1>3
    <3>. QED  BY <3>2, <2>1, <1>3
  <2>6. ASSUME NEW d \in 1..n, NEW l \in 1..n, Divided(d, l)
        PROVE  Divided(d - 1, l - 1)' /\ d - 1 \in 1..(n - 1) /\ l - 1 \in 1..(n - 1) /\ n >= 2
    <3>1. PICK e \in 1..d : uChain[e] = uLocal
      BY <2>6, <1>2 DEF Divided
    <3>2. e # 1
      BY <3>1, <1>3, <1>6
    <3>3. d <= l /\ uChain[d] = uDiv /\ uChain[l] = uLast /\ l = n /\ (uCpc \in {"move", "store"} => d < l)
      BY <2>6, <1>2 DEF Divided
    <3>4. /\ d - 1 \in 1..(n - 1) /\ l - 1 \in 1..(n - 1) /\ n >= 2 /\ d - 1 <= l - 1 /\ l - 1 = n - 1
          /\ (d < l => d - 1 < l - 1) /\ (d - 1) + 1 = d /\ d \in 2..n /\ l \in 2..n
      BY <3>1, <3>2, <3>3, <1>3
    <3>5. uChain'[d - 1] = uDiv /\ uChain'[l - 1] = uLast
      BY <3>3, <3>4, <2>5
    <3>6. ASSUME NEW i \in d..(n - 1), uCpc # "store" \/ i # d PROVE uValue'[uChain'[i]] \in Values
      <4>1. i + 1 \in 2..n /\ (i + 1) - 1 = i /\ i + 1 \in (d + 1)..n /\ (i # d => i + 1 # d + 1)
        BY <1>3
      <4>2. uValue'[uChain'[i]] = uValue[uChain[i + 1]]
        BY <4>1, <2>5
      <4>. QED  BY <4>1, <4>2, <3>6, <2>6 DEF Divided
    <3>7. uCpc = "store" => uOut \in Values
      BY <2>6 DEF Divided
    <3>8. Divided(d - 1, l - 1)'
      BY <3>3, <3>4, <3>5, <3>6, <3>7, <2>1, <2>2, <1>2 DEF Divided
    <3>. QED  BY <3>4, <3>8
  <2>7. n >= 2
    BY <2>6, <1>4
  <2>8. DividedInv'
    BY <2>2, <2>6, <1>4 DEF DividedInv
  <2>9. uFirst' = uChain'[1] /\ Len(uChain') # 0 /\ uFirst' \in Nodes
    <3>1. 1 # n /\ 2 \in 2..n /\ 2 - 1 = 1 /\ 1 + 1 = 2 /\ 2 \in 1..n /\ n - 1 # 0
      BY <2>7, <1>3
    <3>2. uNext[uFirst] = uChain[1 + 1]
      BY <3>1, <1>3 DEF Linked
    <3>3. uChain'[2 - 1] = uChain[2]
      BY <3>1, <2>5
    <3>. QED  BY <3>1, <3>2, <3>3, <2>1, <2>2, <1>3
  <2>10. U!TypeOK'
    BY <2>1, <2>9, <1>1, <1>2 DEF SutterListInv, U!TypeOK
  <2>11. SutterListInv'
    BY <2>1, <2>2, <2>3, <2>9, <2>10, <1>2, <1>3 DEF SutterListInv, SutterDestroying
  <2>. QED  BY <2>2, <2>5, <2>6, <2>8, <2>11, <1>2, <1>6 DEF SutterInv
<1>. QED  BY <1>5, <1>6

LEMMA SutterConsumerSteps ==
  ASSUME SutterInv, U!Dequeue \/ U!Move \/ U!StoreDivider
  PROVE  /\ SutterInv' /\ ~SutterDestroying /\ uChain' = uChain
         /\ \A d, l \in 1..Len(uChain) : Divided(d, l) =>
              /\ uCpc # "idle" => d + 1 \in 1..l /\ uNext[uDiv] = uChain[d + 1]
              /\ uCpc # "store" => Divided(d, l)'
              /\ uCpc = "store" => Divided(d + 1, l)' /\ d + 1 \in 1..Len(uChain)
<1>. DEFINE n == Len(uChain)
<1>1. SutterListInv /\ DividedInv
  BY DEF SutterInv
<1>2. /\ UNCHANGED <<uFirst, uLast, uNext, uAlloc, uPc, uLocal, uChain>>
      /\ uCpc \in {"idle", "move", "store"} /\ uCpc' \in {"idle", "move", "store"}
  BY DEF U!Dequeue, U!Move, U!StoreDivider
<1>3. ~SutterDestroying /\ ~SutterDestroying' /\ uCpc # "destroyed" /\ uCpc' # "destroyed"
  BY <1>2 DEF SutterDestroying
<1>4. /\ n \in Nat /\ (\A i \in 1..n : uChain[i] \in Nodes) /\ Linked(uChain, uNext) /\ DOMAIN uValue = Nodes
      /\ \A i, j \in 1..n : uChain[i] = uChain[j] => i = j
  BY <1>1, SutterTypes DEF SutterListInv, Distinct
<1>5. ASSUME NEW d \in 1..n, NEW l \in 1..n, Divided(d, l)
      PROVE  /\ uCpc # "idle" => d + 1 \in 1..l /\ uNext[uDiv] = uChain[d + 1]
             /\ uCpc # "store" => Divided(d, l)'
             /\ uCpc = "store" => Divided(d + 1, l)' /\ d + 1 \in 1..n
             /\ uDiv' \in Nodes /\ uValue' \in [Nodes -> Values \cup {None}]
  <2>1. uChain[d] = uDiv /\ uChain[l] = uLast /\ d <= l /\ l <= n /\ (uCpc \in {"move", "store"} => d < l)
    BY <1>4, <1>5 DEF Divided
  <2>2. uCpc # "idle" => d + 1 \in 1..l /\ d + 1 \in 1..n /\ d # n
    BY <2>1, <1>2, <1>4
  <2>3. uCpc # "idle" => uNext[uDiv] = uChain[d + 1] /\ uChain[d + 1] \in Nodes
    BY <2>1, <2>2, <1>4 DEF Linked
  <2>4. uDiv \in Nodes /\ uValue \in [Nodes -> Values \cup {None}]
    BY <1>1 DEF SutterListInv, U!TypeOK
  <2>5. CASE U!Dequeue
    <3>1. uCpc = "idle" /\ uCpc' = "move" /\ uDiv # uLast /\ UNCHANGED <<uDiv, uValue, uOut>>
      BY <2>5 DEF U!Dequeue
    <3>2. d < l
      BY <2>1, <3>1
    <3>3. Divided(d, l)'
      BY <3>1, <3>2, <1>2, <1>5 DEF Divided
    <3>. QED  BY <2>4, <3>1, <3>3
  <2>6. CASE U!Move
    <3>1. /\ uCpc = "move" /\ uCpc' = "store" /\ uDiv' = uDiv /\ uOut' = uValue[uChain[d + 1]]
          /\ uValue' = [uValue EXCEPT ![uChain[d + 1]] = None]
      BY <2>3, <2>6 DEF U!Move
    <3>2. d + 1 \in (d + 1)..n
      BY <2>2, <3>1, <1>4
    <3>3. uOut' \in Values
      BY <3>1, <3>2, <1>5 DEF Divided
    <3>4. ASSUME NEW i \in (d + 1)..n, i # d + 1 PROVE uValue'[uChain[i]] \in Values
      <4>1. i \in 1..n /\ d + 1 \in 1..n
        BY <3>2, <1>4
      <4>2. uChain[i] # uChain[d + 1] /\ uChain[i] \in Nodes
        BY <4>1, <3>4, <1>4
      <4>3. uValue[uChain[i]] \in Values
        BY <3>1, <1>5 DEF Divided
      <4>. QED  BY <4>2, <4>3, <3>1, <2>4
    <3>5. Divided(d, l)'
      BY <3>1, <3>3, <3>4, <2>1, <1>2, <1>5 DEF Divided
    <3>6. uValue' \in [Nodes -> Values \cup {None}]
      BY <3>1, <2>4
    <3>. QED  BY <2>2, <2>3, <2>4, <3>1, <3>5, <3>6
  <2>7. CASE U!StoreDivider
    <3>1. uCpc = "store" /\ uCpc' = "idle" /\ uDiv' = uChain[d + 1] /\ uValue' = uValue
      BY <2>3, <2>7 DEF U!StoreDivider
    <3>2. d + 1 <= l /\ \A i \in ((d + 1) + 1)..n : i \in (d + 1)..n /\ i # d + 1
      BY <2>1, <3>1, <1>4
    <3>3. uPc = "trim" => \E e \in 1..(d + 1) : uChain[e] = uLocal
      <4>1. \A e \in 1..d : e \in 1..(d + 1)
        OBVIOUS
      <4>. QED  BY <4>1, <1>5 DEF Divided
    <3>4. \A i \in ((d + 1) + 1)..n : uValue[uChain[i]] \in Values
      BY <3>2, <1>5 DEF Divided
    <3>5. Divided(d + 1, l)'
      BY <3>1, <3>2, <3>3, <3>4, <2>1, <1>2, <1>5 DEF Divided
    <3>. QED  BY <2>2, <2>3, <2>4, <3>1, <3>5
  <2>. QED  BY <2>5, <2>6, <2>7
<1>6. PICK d, l \in 1..n : Divided(d, l)
  BY <1>1, <1>3 DEF DividedInv
<1>7. DividedInv'
  <2>1. \E e, k \in 1..n : Divided(e, k)'
    BY <1>5, <1>6
  <2>. QED  BY <2>1, <1>2 DEF DividedInv
<1>8. SutterListInv'
  BY <1>1, <1>2, <1>3, <1>5, <1>6 DEF SutterListInv, U!TypeOK
<1>. QED  BY <1>2, <1>3, <1>5, <1>7, <1>8 DEF SutterInv

LEMMA SutterDestroySteps ==
  ASSUME SutterInv, U!Destroy \/ U!DestroyNode
  PROVE  SutterInv'
<1>. DEFINE n == Len(uChain)
<1>1. SutterListInv
  BY DEF SutterInv
<1>2. CASE U!Destroy
  <2>1. /\ UNCHANGED <<uFirst, uDiv, uLast, uNext, uValue, uAlloc, uPc, uLocal, uOut, uChain>>
        /\ uPc = "idle" /\ uCpc = "idle" /\ uCpc' = "destroy"
    BY <1>2 DEF U!Destroy
  <2>. QED  BY <2>1, <1>1 DEF SutterInv, SutterListInv, U!TypeOK, DividedInv, SutterDestroying
<1>3. CASE U!DestroyNode
  <2>1. /\ uCpc = "destroy" /\ uAlloc' = uAlloc \ {uFirst} /\ uFirst' = uNext[uFirst] /\ uChain' = Tail(uChain)
        /\ uCpc' = IF uFirst' = Null THEN "destroyed" ELSE "destroy"
        /\ UNCHANGED <<uDiv, uLast, uNext, uValue, uPc, uLocal, uOut>>
    BY <1>3 DEF U!DestroyNode
  <2>2. /\ n \in Nat /\ n # 0 /\ 1 \in 1..n /\ uFirst = uChain[1] /\ uChain \in Seq(Nodes) /\ Distinct(uChain)
        /\ Linked(uChain, uNext) /\ (\A i \in 1..n : uChain[i] \in Nodes) /\ Null \notin Nodes
        /\ uAlloc = ListNodes(uChain) /\ uPc = "idle"
    BY <2>1, <1>1, SutterTypes DEF SutterListInv, SutterDestroying
  <2>3. /\ uChain' \in Seq(Nodes) /\ Len(uChain') = n - 1 /\ \A i \in 1..(n - 1) : uChain'[i] = uChain[i + 1]
        /\ Distinct(uChain') /\ ListNodes(uChain') = ListNodes(uChain) \ {uFirst} /\ Linked(uChain', uNext)
    BY <2>1, <2>2, TailList
  <2>4. uFirst' = IF n = 1 THEN Null ELSE uChain[1 + 1]
    BY <2>1, <2>2 DEF Linked
  <2>5. IF uCpc' = "destroyed" THEN Len(uChain') = 0 ELSE Len(uChain') # 0 /\ uFirst' = uChain'[1]
    <3>1. CASE n = 1
      BY <3>1, <2>1, <2>3, <2>4
    <3>2. CASE n # 1
      <4>1. \A m \in Nat : m # 0 /\ m # 1 => 1 + 1 \in 1..m /\ 1 \in 1..(m - 1) /\ m - 1 # 0
        OBVIOUS
      <4>2. 1 + 1 \in 1..n /\ 1 \in 1..(n - 1) /\ n - 1 # 0
        BY <4>1, <3>2, <2>2
      <4>. QED  BY <3>2, <4>2, <2>1, <2>2, <2>3, <2>4
    <3>. QED  BY <3>1, <3>2
  <2>6. U!TypeOK'
    BY <2>1, <2>2, <1>1 DEF SutterListInv, U!TypeOK
  <2>7. SutterListInv'
    BY <2>1, <2>2, <2>3, <2>5, <2>6 DEF SutterListInv
  <2>8. DividedInv'
    BY <2>1 DEF DividedInv, SutterDestroying
  <2>. QED  BY <2>7, <2>8 DEF SutterInv
<1>. QED  BY <1>2, <1>3

LEMMA SutterStep == SutterInv /\ [U!Next]_uVars => SutterInv'
<1>. SUFFICES ASSUME SutterInv, [U!Next]_uVars PROVE SutterInv'
  OBVIOUS
<1>1. CASE UNCHANGED uVars
  BY <1>1 DEF uVars, SutterInv, SutterListInv, U!TypeOK, DividedInv, Divided, SutterDestroying
<1>. QED  BY <1>1, SutterEnqueueStep, SutterProducerSteps, SutterTrimStep, SutterConsumerSteps, SutterDestroySteps DEF U!Next

LEMMA SutterBehaviour == MCSpec => U!Init /\ [][U!Next]_uVars
<1>1. MCInit => U!Init
  BY DEF MCInit
<1>2. [MCNext]_mcVars => [U!Next]_uVars
  BY DEF MCNext, mcVars
<1>. QED  BY <1>1, <1>2, PTL DEF MCSpec

LEMMA SutterAt ==
  ASSUME SutterInv, NEW i \in 1..Len(uChain)
  PROVE  U!At(uChain[i]) = i
BY AtIs DEF SutterInv, SutterListInv, U!At

LEMMA SutterOwns == SutterInv => U!NoUseAfterFree
<1>. SUFFICES ASSUME SutterInv PROVE U!NoUseAfterFree
  OBVIOUS
<1>1. SutterListInv /\ DividedInv
  BY DEF SutterInv
<1>2. U!ChainNodes = ListNodes(uChain)
  BY DEF U!ChainNodes, ListNodes
<1>3. U!TypeOK /\ uAlloc = U!ChainNodes
  BY <1>1, <1>2 DEF SutterListInv
<1>4. CASE SutterDestroying
  BY <1>3, <1>4 DEF U!NoUseAfterFree, SutterDestroying
<1>5. CASE ~SutterDestroying
  <2>1. PICK d, l \in 1..Len(uChain) : Divided(d, l)
    BY <1>1, <1>5 DEF DividedInv
  <2>2. /\ uFirst = uChain[1] /\ uDiv = uChain[d] /\ uLast = uChain[l] /\ d <= l /\ 1 \in 1..Len(uChain)
        /\ l = IF uPc = "publish" THEN Len(uChain) - 1 ELSE Len(uChain)
        /\ uCpc \in {"move", "store"} => d < l
    BY <2>1, <1>1, <1>5, SutterTypes DEF SutterListInv, Divided, SutterDestroying
  <2>3. U!At(uFirst) = 1 /\ U!At(uDiv) = d /\ U!At(uLast) = l
    BY <2>1, <2>2, SutterAt
  <2>4. {uFirst, uDiv, uLast} \subseteq U!ChainNodes
    BY <2>2 DEF U!ChainNodes
  <2>5. U!Cardinality(U!ChainNodes) = Len(uChain)
    <3>1. Cardinality(ListNodes(uChain)) = Len(uChain)
      BY <1>1, ListCardinality DEF SutterListInv
    <3>2. U!Cardinality(U!ChainNodes) = Cardinality(U!ChainNodes)
      BY DEF U!Cardinality, Cardinality
    <3>. QED  BY <3>1, <3>2, <1>2
  <2>6. \A i \in 1..Len(uChain) : uNext[uChain[i]] = IF i = Len(uChain) THEN Null ELSE uChain[i + 1]
    BY <1>1 DEF SutterListInv, Linked
  <2>7. l = Len(uChain) - (IF uPc = "publish" THEN 1 ELSE 0)
    BY <2>2, SutterTypes
  <2>8. uPc = "trim" => uLocal \in U!ChainNodes /\ U!At(uLocal) <= U!At(uDiv)
    <3>. SUFFICES ASSUME uPc = "trim" PROVE uLocal \in U!ChainNodes /\ U!At(uLocal) <= U!At(uDiv)
      OBVIOUS
    <3>1. PICK e \in 1..d : uChain[e] = uLocal
      BY <2>1 DEF Divided
    <3>2. e \in 1..Len(uChain) /\ e <= d
      BY SutterTypes
    <3>3. U!At(uLocal) = e
      BY <3>1, <3>2, SutterAt
    <3>. QED  BY <3>1, <3>2, <3>3, <2>3 DEF U!ChainNodes
  <2>. QED  BY <2>2, <2>3, <2>4, <2>5, <2>6, <2>7, <2>8, <1>3 DEF U!NoUseAfterFree
<1>. QED  BY <1>4, <1>5

\* What sutter_queue holds and what its consumer has taken: what Fifo's
\* variables stand for.
SutterQueued == LET first == U!At(uDiv) + IF uCpc = "store" THEN 1 ELSE 0
                IN  [i \in 1..(U!At(uLast) - first) |-> uValue[uChain[first + i]]]
SutterTaken  == [t \in {"consumer"} |-> IF uCpc = "store" THEN uOut ELSE None]

\* They are the items after m_divider, or after the one that is being returned.
SutterFrom(d) == IF uCpc = "store" THEN d + 1 ELSE d
SutterContent == ~SutterDestroying => \A d, l \in 1..Len(uChain) : Divided(d, l) =>
  SutterQueued = Items(uChain, uValue, SutterFrom(d), l)

LEMMA SutterItems == SutterInv => SutterContent
<1>. SUFFICES ASSUME SutterInv, NEW d \in 1..Len(uChain), NEW l \in 1..Len(uChain), Divided(d, l)
              PROVE  SutterQueued = Items(uChain, uValue, SutterFrom(d), l)
  BY DEF SutterContent
<1>1. U!At(uDiv) = d /\ U!At(uLast) = l
  BY SutterAt DEF Divided
<1>2. U!At(uDiv) + (IF uCpc = "store" THEN 1 ELSE 0) = SutterFrom(d)
  BY <1>1 DEF SutterFrom
<1>. QED  BY <1>1, <1>2 DEF SutterQueued, Items

LEMMA SutterFromIs ==
  ASSUME SutterInv, NEW d \in 1..Len(uChain), NEW l \in 1..Len(uChain), Divided(d, l)
  PROVE  /\ SutterFrom(d) \in Nat /\ SutterFrom(d) >= 1 /\ SutterFrom(d) <= l /\ l \in Nat
         /\ Valued(uChain, uValue, SutterFrom(d), l)
<1>1. Len(uChain) \in Nat
  BY SutterTypes
<1>2. \A i \in (SutterFrom(d) + 1)..l : i \in (d + 1)..Len(uChain) /\ (uCpc # "store" \/ i # d + 1)
  BY <1>1 DEF SutterFrom
<1>3. Valued(uChain, uValue, SutterFrom(d), l)
  BY <1>2 DEF Divided, Valued
<1>. QED  BY <1>1, <1>3 DEF SutterFrom, Divided

LEMMA SutterEnqueueQuiet ==
  ASSUME SutterInv, SutterContent, SutterContent', U!LoadDivider \/ U!Trim \/ \E v \in Values : U!Enqueue(v)
  PROVE  SutterQueued' = SutterQueued
<1>1. ~SutterDestroying /\ ~SutterDestroying' /\ uCpc' = uCpc
  BY SutterProducerSteps, SutterTrimStep
     DEF U!Enqueue, U!LoadDivider, U!Trim, U!consumerVars, SutterDestroying
<1>2. PICK d, l \in 1..Len(uChain) : Divided(d, l)
  BY <1>1 DEF SutterInv, DividedInv
<1>. DEFINE f == SutterFrom(d)
<1>3. /\ f \in Nat /\ f >= 1 /\ f <= l /\ l \in Nat /\ Len(uChain) \in Nat
      /\ SutterQueued = Items(uChain, uValue, f, l)
  BY <1>1, <1>2, SutterFromIs, SutterTypes DEF SutterContent
<1>4. SutterFrom(d)' = f /\ SutterFrom(d - 1)' = f - 1
  BY <1>1, <1>2, <1>3 DEF SutterFrom
<1>. HIDE DEF f
<1>5. ASSUME d \in 1..Len(uChain'), l \in 1..Len(uChain'), Divided(d, l)', Same(uChain, uValue, uChain', uValue', f, l)
      PROVE  SutterQueued' = SutterQueued
  <2>1. SutterQueued' = Items(uChain', uValue', f, l)
    BY <1>1, <1>4, <1>5 DEF SutterContent
  <2>. QED  BY <2>1, <1>3, <1>5, ItemsSame
<1>6. \A i \in (f + 1)..l : i \in 1..l /\ i \in 2..Len(uChain)
  BY <1>2, <1>3
<1>7. CASE U!LoadDivider
  <2>1. UNCHANGED <<uChain, uValue>> /\ Divided(d, l)'
    BY <1>2, <1>7, SutterProducerSteps
  <2>. QED  BY <2>1, <1>2, <1>5 DEF Same
<1>8. ASSUME NEW v \in Values, U!Enqueue(v) PROVE SutterQueued' = SutterQueued
  <2>1. Divided(d, l)' /\ \A i \in 1..l : uChain'[i] = uChain[i] /\ uValue'[uChain[i]] = uValue[uChain[i]]
    BY <1>2, <1>8, SutterEnqueueStep
  <2>2. Same(uChain, uValue, uChain', uValue', f, l)
    BY <2>1, <1>6 DEF Same
  <2>3. d \in 1..Len(uChain') /\ l \in 1..Len(uChain')
    <3>1. PICK x \in Nodes : uChain' = Append(uChain, x)
      BY <1>8 DEF U!Enqueue
    <3>2. Len(uChain') = Len(uChain) + 1
      BY <3>1, AppendList DEF SutterInv, SutterListInv
    <3>. QED  BY <3>2, <1>2, <1>3
  <2>. QED  BY <2>1, <2>2, <2>3, <1>5
<1>9. CASE U!Trim
  <2>1. CASE uFirst = uLocal
    <3>1. UNCHANGED <<uChain, uValue>> /\ Divided(d, l)'
      BY <1>2, <1>9, <2>1, SutterTrimStep
    <3>. QED  BY <3>1, <1>2, <1>5 DEF Same
  <2>2. CASE uFirst # uLocal
    <3>1. /\ Divided(d - 1, l - 1)' /\ d - 1 \in 1..Len(uChain') /\ l - 1 \in 1..Len(uChain')
          /\ \A i \in 2..Len(uChain) : uValue'[uChain'[i - 1]] = uValue[uChain[i]]
      BY <1>2, <1>9, <2>2, SutterTrimStep
    <3>2. SutterQueued' = Items(uChain', uValue', f - 1, l - 1)
      BY <3>1, <1>1, <1>4 DEF SutterContent
    <3>3. f > 0 /\ Shifted(uChain, uValue, uChain', uValue', f, l)
      <4>1. \A i \in (f + 1)..l : uValue'[uChain'[i - 1]] = uValue[uChain[i]]
        BY <3>1, <1>6
      <4>2. f > 0
        BY <1>3
      <4>. QED  BY <4>1, <4>2 DEF Shifted
    <3>. QED  BY <3>2, <3>3, <1>3, ItemsShift
  <2>. QED  BY <2>1, <2>2
<1>. QED  BY <1>7, <1>8, <1>9

LEMMA SutterEnqueues ==
  ASSUME SutterInv, U!Publish, SutterContent, SutterContent'
  PROVE  \E v \in Values : SutterQueued' = Append(SutterQueued, v) /\ Len(SutterQueued) < Cardinality(Nodes)
<1>. DEFINE n == Len(uChain)
<1>1. ~SutterDestroying /\ ~SutterDestroying' /\ uCpc' = uCpc /\ UNCHANGED <<uChain, uValue>>
  BY SutterProducerSteps DEF U!Publish, U!consumerVars, SutterDestroying
<1>2. PICK d, l \in 1..n : Divided(d, l)
  BY <1>1 DEF SutterInv, DividedInv
<1>3. l + 1 = n /\ Divided(d, l + 1)' /\ l + 1 \in 1..n
  BY <1>2, SutterProducerSteps
<1>. DEFINE f == SutterFrom(d)
<1>4. /\ f \in Nat /\ f >= 1 /\ f <= l /\ l \in Nat /\ Valued(uChain, uValue, f, l)
      /\ SutterQueued = Items(uChain, uValue, f, l)
  BY <1>1, <1>2, SutterFromIs DEF SutterContent
<1>5. SutterFrom(d)' = f
  BY <1>1 DEF SutterFrom
<1>6. SutterQueued' = Items(uChain, uValue, f, l + 1)
  BY <1>1, <1>2, <1>3, <1>5 DEF SutterContent
<1>7. uValue[uChain[l + 1]] \in Values
  <2>1. l + 1 \in (d + 1)..n /\ (uCpc = "store" => l + 1 # d + 1)
    BY <1>2, <1>3, <1>4 DEF Divided
  <2>. QED  BY <2>1, <1>2 DEF Divided
<1>8. Same(uChain, uValue, uChain, uValue, f, l)
  BY DEF Same
<1>. HIDE DEF f
<1>9. /\ Items(uChain, uValue, f, l + 1) = Append(Items(uChain, uValue, f, l), uValue[uChain[l + 1]])
      /\ Len(Items(uChain, uValue, f, l)) = l - f
  BY <1>4, <1>7, <1>8, ItemsAppend
<1>10. l + 1 <= Cardinality(Nodes) /\ Cardinality(Nodes) \in Nat
  BY <1>3, NodesAssumption, ListCardinality, FS_CardinalityType DEF SutterInv, SutterListInv
<1>11. Len(SutterQueued) < Cardinality(Nodes)
  BY <1>4, <1>9, <1>10
<1>. QED  BY <1>4, <1>6, <1>7, <1>9, <1>11

LEMMA SutterDequeues ==
  ASSUME SutterInv, U!Move, SutterContent, SutterContent'
  PROVE  SutterQueued # << >> /\ Head(SutterQueued) = uOut' /\ SutterQueued' = Tail(SutterQueued)
<1>. DEFINE n == Len(uChain)
<1>1. /\ ~SutterDestroying /\ ~SutterDestroying' /\ uCpc = "move" /\ uCpc' = "store" /\ uChain' = uChain
      /\ uOut' = uValue[uNext[uDiv]] /\ uValue' = [uValue EXCEPT ![uNext[uDiv]] = None]
  BY DEF U!Move, SutterDestroying
<1>2. PICK d, l \in 1..n : Divided(d, l)
  BY <1>1 DEF SutterInv, DividedInv
<1>3. d + 1 \in 1..l /\ uNext[uDiv] = uChain[d + 1] /\ Divided(d, l)'
  BY <1>1, <1>2, SutterConsumerSteps
<1>4. /\ n \in Nat /\ DOMAIN uValue = Nodes /\ (\A i \in 1..n : uChain[i] \in Nodes)
      /\ \A i, j \in 1..n : uChain[i] = uChain[j] => i = j
  BY SutterTypes DEF SutterInv, SutterListInv, Distinct
<1>5. d \in Nat /\ l \in Nat /\ d < l /\ Valued(uChain, uValue, d, l) /\ SutterQueued = Items(uChain, uValue, d, l)
  BY <1>1, <1>2, <1>3, <1>4, SutterFromIs DEF SutterContent, SutterFrom
<1>6. SutterQueued' = Items(uChain, uValue', d + 1, l)
  BY <1>1, <1>2, <1>3 DEF SutterContent, SutterFrom
<1>7. Same(uChain, uValue, uChain, uValue', d + 1, l)
  <2>. SUFFICES ASSUME NEW i \in ((d + 1) + 1)..l PROVE uValue'[uChain[i]] = uValue[uChain[i]]
    BY DEF Same
  <2>1. i \in 1..n /\ d + 1 \in 1..n /\ i # d + 1
    BY <1>2, <1>3, <1>4
  <2>2. uChain[i] # uChain[d + 1] /\ uChain[i] \in Nodes
    BY <2>1, <1>4
  <2>. QED  BY <2>2, <1>1, <1>3, <1>4
<1>8. /\ Items(uChain, uValue', d + 1, l) = Tail(Items(uChain, uValue, d, l)) /\ Items(uChain, uValue, d, l) # << >>
      /\ Head(Items(uChain, uValue, d, l)) = uValue[uChain[d + 1]]
  BY <1>5, <1>7, ItemsTail
<1>. QED  BY <1>1, <1>3, <1>5, <1>6, <1>8

LEMMA SutterReturns ==
  ASSUME SutterInv, U!Dequeue \/ U!StoreDivider, SutterContent, SutterContent'
  PROVE  SutterQueued' = SutterQueued /\ (U!StoreDivider => uOut \in Values)
<1>. DEFINE n == Len(uChain)
<1>1. /\ ~SutterDestroying /\ ~SutterDestroying' /\ uValue' = uValue /\ uChain' = uChain
      /\ IF uCpc = "store" THEN uCpc' = "idle" ELSE uCpc' = "move"
  BY DEF U!Dequeue, U!StoreDivider, SutterDestroying
<1>2. PICK d, l \in 1..n : Divided(d, l)
  BY <1>1 DEF SutterInv, DividedInv
<1>3. /\ uCpc # "store" => Divided(d, l)'
      /\ uCpc = "store" => Divided(d + 1, l)' /\ d + 1 \in 1..n
  BY <1>2, SutterConsumerSteps
<1>4. SutterQueued = Items(uChain, uValue, SutterFrom(d), l)
  BY <1>1, <1>2 DEF SutterContent
<1>5. SutterQueued' = Items(uChain, uValue, SutterFrom(d), l)
  <2>1. uCpc = "store" => SutterFrom(d + 1)' = d + 1 /\ SutterFrom(d) = d + 1
    BY <1>1 DEF SutterFrom
  <2>2. uCpc # "store" => SutterFrom(d)' = d /\ SutterFrom(d) = d
    BY <1>1 DEF SutterFrom
  <2>. QED  BY <2>1, <2>2, <1>1, <1>2, <1>3 DEF SutterContent
<1>. QED  BY <1>2, <1>4, <1>5 DEF Divided, U!StoreDivider

LEMMA SutterFifoStep ==
  SutterInv /\ SutterContent /\ SutterContent' /\ [U!Next]_uVars
    => [uCpc' \in {"destroy", "destroyed"} \/ U!F!Next]_(U!F!vars)
<1>. SUFFICES ASSUME SutterInv, SutterContent, SutterContent', [U!Next]_uVars, ~SutterDestroying'
              PROVE  U!F!Next \/ (SutterQueued' = SutterQueued /\ SutterTaken' = SutterTaken)
  BY DEF U!F!vars, SutterQueued, SutterTaken, SutterDestroying
<1>1. CASE UNCHANGED uVars
  BY <1>1 DEF uVars, SutterQueued, SutterTaken, U!At
<1>2. CASE U!LoadDivider \/ U!Trim \/ \E v \in Values : U!Enqueue(v)
  BY <1>2, SutterEnqueueQuiet DEF SutterTaken, U!Enqueue, U!LoadDivider, U!Trim, U!consumerVars
<1>3. CASE U!Publish
  <2>1. SutterTaken' = SutterTaken
    BY <1>3 DEF SutterTaken, U!Publish, U!consumerVars
  <2>2. PICK v \in Values : SutterQueued' = Append(SutterQueued, v) /\ Len(SutterQueued) < U!Cardinality(Nodes)
    BY <1>3, SutterEnqueues DEF U!Cardinality, Cardinality
  <2>3. U!F!Enqueue(v)
    BY <2>1, <2>2 DEF U!F!Enqueue, SutterQueued, SutterTaken
  <2>. QED  BY <2>3 DEF U!F!Next
<1>4. CASE U!Move
  <2>1. SutterQueued # << >> /\ Head(SutterQueued) = uOut' /\ SutterQueued' = Tail(SutterQueued)
    BY <1>4, SutterDequeues
  <2>2. SutterTaken["consumer"] = None /\ SutterTaken' = [SutterTaken EXCEPT !["consumer"] = uOut']
    BY <1>4 DEF U!Move, SutterTaken
  <2>3. U!F!Dequeue("consumer")
    BY <2>1, <2>2 DEF U!F!Dequeue, SutterQueued, SutterTaken
  <2>. QED  BY <2>3 DEF U!F!Next
<1>5. CASE U!StoreDivider
  <2>1. SutterQueued' = SutterQueued /\ uOut # None
    BY <1>5, SutterReturns, RingAssumption
  <2>2. SutterTaken["consumer"] # None /\ SutterTaken' = [SutterTaken EXCEPT !["consumer"] = None]
    BY <2>1, <1>5 DEF U!StoreDivider, SutterTaken
  <2>3. U!F!Return("consumer")
    BY <2>1, <2>2 DEF U!F!Return, SutterQueued, SutterTaken
  <2>. QED  BY <2>3 DEF U!F!Next
<1>6. CASE U!Dequeue
  BY <1>6, SutterReturns DEF SutterTaken, U!Dequeue
<1>7. CASE U!Destroy \/ U!DestroyNode
  BY <1>7 DEF U!Destroy, U!DestroyNode, SutterDestroying
<1>. QED  BY <1>1, <1>2, <1>3, <1>4, <1>5, <1>6, <1>7 DEF U!Next

LEMMA SutterFifoInit == U!Init => U!F!Init
<1>. SUFFICES ASSUME U!Init PROVE U!F!Init
  OBVIOUS
<1>1. uCpc = "idle" /\ uDiv = uLast
  BY DEF U!Init
<1>2. SutterInv /\ SutterContent /\ ~SutterDestroying
  BY <1>1, SutterInit, SutterItems DEF SutterDestroying
<1>3. PICK d, l \in 1..Len(uChain) : Divided(d, l)
  BY <1>2 DEF SutterInv, DividedInv
<1>4. d = l /\ Len(uChain) \in Nat
  BY <1>1, <1>2, <1>3, SutterTypes DEF SutterInv, SutterListInv, Divided, Distinct
<1>5. SutterQueued = [i \in 1..(l - l) |-> uValue[uChain[l + i]]]
  BY <1>1, <1>2, <1>3, <1>4 DEF SutterContent, SutterFrom, Items
<1>6. SutterQueued = << >>
  <2>1. 1..(l - l) = {}
    BY <1>3, <1>4
  <2>. QED  BY <2>1, <1>5
<1>. QED  BY <1>1, <1>6 DEF U!F!Init, SutterQueued

\* sutter_queue: the queue is a FIFO until its destructor runs.
LEMMA SutterIsFifo == MCSpec => U!ImplementsFifo
BY SutterBehaviour, SutterInit, SutterStep, SutterItems, SutterFifoInit, SutterFifoStep, PTL DEF U!ImplementsFifo

-----------------------------------------------------------------------------
(* MpscBufferedQueue *)

CacheDestroying == kCpc \in {"destroy", "destroyed"}

CacheTypes ==
  /\ kNext \in [FewNodes -> FewNodes \cup {Null}] /\ kValue \in [FewNodes -> Values \cup {None}]
  /\ kPc \in [Producers -> {"idle", "check", "next", "cas", "exchange", "link"}]
  /\ kNew \in [Producers -> FewNodes \cup {Null}] /\ kOld \in [Producers -> FewNodes \cup {Null}]
  /\ kAfter \in [Producers -> FewNodes \cup {Null}] /\ kItem \in [Producers -> Values \cup {None}]
  /\ kCpc \in {"idle", "empty", "take", "delete", "destroy", "destroyed"}
  /\ kHead \in FewNodes /\ kBuffer \in FewNodes

\* The list a is all of it, its first c nodes the cached ones before m_tail.
CacheCells(a, c) ==
  /\ kCached \in Seq(FewNodes) /\ kChain \in Seq(FewNodes)
  /\ a = kCached \o kChain /\ c = Len(kCached) /\ c <= Len(a) /\ Distinct(a)
  /\ IF kCpc = "destroyed" THEN c = Len(a) ELSE c < Len(a) /\ a[c + 1] = kTail /\ a[Len(a)] = kHead

\* Every other node that is allocated is in the hand of one producer.
CacheHands(a) ==
  /\ \A p \in Producers : kPc[p] = "exchange" =>
       /\ kNew[p] \in FewNodes /\ kNew[p] \notin ListNodes(a)
       /\ kNext[kNew[p]] = Null /\ kValue[kNew[p]] \in Values
  /\ \A p, q \in Producers : kPc[p] = "exchange" /\ kPc[q] = "exchange" /\ kNew[p] = kNew[q] => p = q
  /\ kAlloc = ListNodes(a) \cup {kNew[p] : p \in {q \in Producers : kPc[q] = "exchange"}}

\* A node has the address of the next one, or one producer is about to write
\* it there; a cached node has it.
CacheLinks(a, c) ==
  /\ c < Len(a) => kNext[a[Len(a)]] = Null
  /\ \A i \in 1..(Len(a) - 1) : (CacheDestroying => i > c) =>
       \/ kNext[a[i]] = a[i + 1]
       \/ i > c /\ kNext[a[i]] = Null /\ \E p \in Producers : kPc[p] = "link" /\ kOld[p] = a[i]
  /\ \A p \in Producers : kPc[p] = "link" =>
       \E i \in (c + 1)..(Len(a) - 1) : kOld[p] = a[i] /\ kNew[p] = a[i + 1] /\ kNext[a[i]] = Null
  /\ \A p, q \in Producers : kPc[p] = "link" /\ kPc[q] = "link" /\ kOld[p] = kOld[q] => p = q

\* The nodes after m_tail hold values, and the consumer has read the first of
\* them or holds what was in it.
CacheItems(a, c) ==
  /\ Valued(a, kValue, c + 1, Len(a))
  /\ kCpc = "take" => c + 2 <= Len(a) /\ kPopped = a[c + 2] /\ kNext[a[c + 1]] = a[c + 2]
  /\ kCpc = "delete" => kOut \in Values

\* A producer whom nobody has overtaken has checked that the node it found at
\* the head of the cache is a cached one, and has read the next one's address.
CacheHead(a, c) ==
  ~CacheDestroying =>
    /\ kBuffer = a[1]
    /\ \A p \in Producers : kPc[p] \in {"next", "cas"} /\ p \notin kOver /\ kNew[p] = kBuffer =>
         c >= 1 /\ (kPc[p] = "cas" => kAfter[p] = a[2])

CacheCalls ==
  \A p \in Producers : /\ kPc[p] \in {"check", "next", "cas"} => kItem[p] \in Values /\ kNew[p] \in FewNodes
                       /\ CacheDestroying => kPc[p] = "idle"

CacheAll(a, c) == CacheCells(a, c) /\ CacheHands(a) /\ CacheLinks(a, c) /\ CacheItems(a, c) /\ CacheHead(a, c)
CacheKept == CacheTypes /\ CacheCalls /\ \E a \in Seq(FewNodes), c \in Nat : CacheAll(a, c)
CacheInv  == ~kStale => CacheKept

\* Two lists, one after the other.
LEMMA ConcatIs ==
  ASSUME NEW T, NEW s \in Seq(T), NEW t \in Seq(T)
  PROVE  /\ s \o t \in Seq(T) /\ Len(s \o t) = Len(s) + Len(t) /\ Len(s) \in Nat /\ Len(t) \in Nat
         /\ \A i \in 1..Len(s) : (s \o t)[i] = s[i]
         /\ \A i \in 1..Len(t) : (s \o t)[Len(s) + i] = t[i]
<1>1. s \o t \in Seq(T) /\ Len(s \o t) = Len(s) + Len(t) /\ Len(s) \in Nat /\ Len(t) \in Nat
  OBVIOUS
<1>2. \A i \in 1..(Len(s) + Len(t)) : (s \o t)[i] = IF i <= Len(s) THEN s[i] ELSE t[i - Len(s)]
  OBVIOUS
<1>3. ASSUME NEW l \in Nat, NEW m \in Nat
      PROVE  /\ \A i \in 1..l : i \in 1..(l + m) /\ i <= l
             /\ \A i \in 1..m : l + i \in 1..(l + m) /\ ~(l + i <= l) /\ (l + i) - l = i
  BY <1>3
<1>. QED  BY <1>1, <1>2, <1>3

LEMMA SameSeq ==
  ASSUME NEW T, NEW s \in Seq(T), NEW t \in Seq(T), Len(s) = Len(t), \A i \in 1..Len(s) : s[i] = t[i]
  PROVE  s = t
<1>1. \A x \in Seq(T) : x = [i \in 1..Len(x) |-> x[i]]
  OBVIOUS
<1>. QED  BY <1>1

\* A node is appended, the first one of the second list goes to the first list,
\* the first of all is taken away.
LEMMA ConcatAppend ==
  ASSUME NEW T, NEW s \in Seq(T), NEW t \in Seq(T), NEW x \in T
  PROVE  s \o Append(t, x) = Append(s \o t, x)
<1>. DEFINE l == Len(s)   m == Len(t)   r == Append(t, x)   u == s \o t   a == s \o r   b == Append(u, x)
<1>0. \A z, y \in Seq(T) :
        /\ z \o y \in Seq(T) /\ Len(z \o y) = Len(z) + Len(y)
        /\ (\A i \in 1..Len(z) : (z \o y)[i] = z[i]) /\ \A i \in 1..Len(y) : (z \o y)[Len(z) + i] = y[i]
  BY ConcatIs
<1>1. r \in Seq(T) /\ Len(r) = m + 1 /\ (\A i \in 1..m : r[i] = t[i]) /\ r[m + 1] = x
  OBVIOUS
<1>2. /\ u \in Seq(T) /\ Len(u) = l + m /\ l \in Nat /\ m \in Nat
      /\ (\A i \in 1..l : u[i] = s[i]) /\ \A i \in 1..m : u[l + i] = t[i]
  BY ConcatIs
<1>3. /\ a \in Seq(T) /\ Len(a) = l + (m + 1)
      /\ (\A i \in 1..l : a[i] = s[i]) /\ \A i \in 1..(m + 1) : a[l + i] = r[i]
  <2>. HIDE DEF r
  <2>1. /\ a \in Seq(T) /\ Len(a) = Len(s) + Len(r)
        /\ (\A i \in 1..Len(s) : a[i] = s[i]) /\ \A i \in 1..Len(r) : a[Len(s) + i] = r[i]
    BY <1>0, <1>1
  <2>. QED  BY <2>1, <1>1
<1>4. b \in Seq(T) /\ Len(b) = (l + m) + 1 /\ (\A i \in 1..(l + m) : b[i] = u[i]) /\ b[(l + m) + 1] = x
  <2>0. u \in Seq(T)
    BY <1>2
  <2>. HIDE DEF u
  <2>1. /\ b \in Seq(T) /\ Len(b) = Len(u) + 1 /\ (\A i \in 1..Len(u) : b[i] = u[i]) /\ b[Len(u) + 1] = x
    BY <2>0
  <2>. QED  BY <2>1, <1>2
<1>. HIDE DEF l, m, r, a, b, u
<1>5. ASSUME NEW i \in 1..(l + (m + 1)) PROVE a[i] = b[i]
  <2>1. \/ i \in 1..l /\ i \in 1..(l + m)
        \/ i - l \in 1..m /\ i - l \in 1..(m + 1) /\ l + (i - l) = i /\ i \in 1..(l + m)
        \/ i = l + (m + 1) /\ i = (l + m) + 1 /\ m + 1 \in 1..(m + 1)
    BY <1>2
  <2>2. CASE i \in 1..l /\ i \in 1..(l + m)
    BY <2>2, <1>2, <1>3, <1>4
  <2>3. CASE i - l \in 1..m /\ i - l \in 1..(m + 1) /\ l + (i - l) = i /\ i \in 1..(l + m)
    <3>1. a[i] = r[i - l] /\ r[i - l] = t[i - l]
      BY <2>3, <1>1, <1>3
    <3>2. b[i] = u[i] /\ u[i] = t[i - l]
      BY <2>3, <1>2, <1>4
    <3>. QED  BY <3>1, <3>2
  <2>4. CASE i = l + (m + 1) /\ i = (l + m) + 1 /\ m + 1 \in 1..(m + 1)
    BY <2>4, <1>1, <1>3, <1>4
  <2>. QED  BY <2>1, <2>2, <2>3, <2>4
<1>6. Len(a) = Len(b)
  BY <1>2, <1>3, <1>4
<1>7. a = b
  BY <1>3, <1>4, <1>5, <1>6, SameSeq
<1>. QED  BY <1>7 DEF a, b, r, u

LEMMA ConcatMove ==
  ASSUME NEW T, NEW s \in Seq(T), NEW t \in Seq(T), Len(t) # 0
  PROVE  Append(s, t[1]) \o Tail(t) = s \o t
<1>. DEFINE l == Len(s)   m == Len(t)   r == Append(s, t[1])   d == Tail(t)   a == r \o d   b == s \o t
<1>0. \A x, y \in Seq(T) :
        /\ x \o y \in Seq(T) /\ Len(x \o y) = Len(x) + Len(y)
        /\ (\A i \in 1..Len(x) : (x \o y)[i] = x[i]) /\ \A i \in 1..Len(y) : (x \o y)[Len(x) + i] = y[i]
  BY ConcatIs
<1>1. t[1] \in T /\ l \in Nat /\ m \in Nat /\ m >= 1 /\ 1 \in 1..m
  BY SeqIs
<1>2. r \in Seq(T) /\ Len(r) = l + 1 /\ (\A i \in 1..l : r[i] = s[i]) /\ r[l + 1] = t[1]
  BY <1>1, AppendList
<1>3. d \in Seq(T) /\ Len(d) = m - 1 /\ \A i \in 1..(m - 1) : d[i] = t[i + 1]
  BY TailList
<1>4. b \in Seq(T) /\ Len(b) = l + m /\ (\A i \in 1..l : b[i] = s[i]) /\ \A i \in 1..m : b[l + i] = t[i]
  BY ConcatIs
<1>5. /\ a \in Seq(T) /\ Len(a) = (l + 1) + (m - 1)
      /\ (\A i \in 1..(l + 1) : a[i] = r[i]) /\ \A i \in 1..(m - 1) : a[(l + 1) + i] = d[i]
  <2>. HIDE DEF r, d
  <2>1. /\ a \in Seq(T) /\ Len(a) = Len(r) + Len(d)
        /\ (\A i \in 1..Len(r) : a[i] = r[i]) /\ \A i \in 1..Len(d) : a[Len(r) + i] = d[i]
    BY <1>0, <1>2, <1>3
  <2>. QED  BY <2>1, <1>2, <1>3
<1>. HIDE DEF l, m, r, d, a, b
<1>6. ASSUME NEW i \in 1..(l + m) PROVE a[i] = b[i]
  <2>1. \/ i \in 1..l /\ i \in 1..(l + 1)
        \/ i = l + 1 /\ i \in 1..(l + 1)
        \/ (i - l) - 1 \in 1..(m - 1) /\ (l + 1) + ((i - l) - 1) = i /\ ((i - l) - 1) + 1 = i - l /\ i - l \in 1..m /\ l + (i - l) = i
    BY <1>1
  <2>2. CASE i \in 1..l /\ i \in 1..(l + 1)
    BY <2>2, <1>2, <1>4, <1>5
  <2>3. CASE i = l + 1 /\ i \in 1..(l + 1)
    BY <2>3, <1>1, <1>2, <1>4, <1>5
  <2>4. CASE (i - l) - 1 \in 1..(m - 1) /\ (l + 1) + ((i - l) - 1) = i /\ ((i - l) - 1) + 1 = i - l /\ i - l \in 1..m /\ l + (i - l) = i
    <3>1. a[i] = d[(i - l) - 1] /\ d[(i - l) - 1] = t[i - l]
      BY <2>4, <1>3, <1>5
    <3>2. b[i] = t[i - l]
      BY <2>4, <1>4
    <3>. QED  BY <3>1, <3>2
  <2>. QED  BY <2>1, <2>2, <2>3, <2>4
<1>7. Len(a) = Len(b) /\ Len(a) = l + m
  BY <1>1, <1>4, <1>5
<1>8. a = b
  BY <1>4, <1>5, <1>6, <1>7, SameSeq
<1>. QED  BY <1>8 DEF a, b, r, d

LEMMA ConcatTail ==
  ASSUME NEW T, NEW s \in Seq(T), NEW t \in Seq(T), Len(s) # 0
  PROVE  Tail(s) \o t = Tail(s \o t)
<1>. DEFINE l == Len(s)   m == Len(t)   d == Tail(s)   u == s \o t   a == d \o t   b == Tail(u)
<1>0. \A x, y \in Seq(T) :
        /\ x \o y \in Seq(T) /\ Len(x \o y) = Len(x) + Len(y)
        /\ (\A i \in 1..Len(x) : (x \o y)[i] = x[i]) /\ \A i \in 1..Len(y) : (x \o y)[Len(x) + i] = y[i]
  BY ConcatIs
<1>1. l \in Nat /\ m \in Nat /\ l >= 1
  BY SeqIs
<1>2. d \in Seq(T) /\ Len(d) = l - 1 /\ \A i \in 1..(l - 1) : d[i] = s[i + 1]
  BY TailList
<1>3. u \in Seq(T) /\ Len(u) = l + m /\ (\A i \in 1..l : u[i] = s[i]) /\ \A i \in 1..m : u[l + i] = t[i]
  BY ConcatIs
<1>4. /\ a \in Seq(T) /\ Len(a) = (l - 1) + m
      /\ (\A i \in 1..(l - 1) : a[i] = d[i]) /\ \A i \in 1..m : a[(l - 1) + i] = t[i]
  <2>. HIDE DEF d
  <2>1. /\ a \in Seq(T) /\ Len(a) = Len(d) + Len(t)
        /\ (\A i \in 1..Len(d) : a[i] = d[i]) /\ \A i \in 1..Len(t) : a[Len(d) + i] = t[i]
    BY <1>0, <1>2
  <2>. QED  BY <2>1, <1>2
<1>5. b \in Seq(T) /\ Len(b) = (l + m) - 1 /\ \A i \in 1..((l + m) - 1) : b[i] = u[i + 1]
  <2>. HIDE DEF u, l, m
  <2>1. Len(u) # 0
    BY <1>1, <1>3
  <2>. QED  BY <2>1, <1>3, TailList
<1>. HIDE DEF l, m, d, u, a, b
<1>6. ASSUME NEW i \in 1..((l + m) - 1) PROVE a[i] = b[i]
  <2>1. \/ i \in 1..(l - 1) /\ i + 1 \in 1..l
        \/ (i + 1) - l \in 1..m /\ (l - 1) + ((i + 1) - l) = i /\ l + ((i + 1) - l) = i + 1
    BY <1>1
  <2>2. CASE i \in 1..(l - 1) /\ i + 1 \in 1..l
    BY <2>2, <1>2, <1>3, <1>4, <1>5
  <2>3. CASE (i + 1) - l \in 1..m /\ (l - 1) + ((i + 1) - l) = i /\ l + ((i + 1) - l) = i + 1
    <3>1. a[i] = t[(i + 1) - l]
      BY <2>3, <1>4
    <3>2. b[i] = u[i + 1] /\ u[i + 1] = t[(i + 1) - l]
      BY <2>3, <1>3, <1>5
    <3>. QED  BY <3>1, <3>2
  <2>. QED  BY <2>1, <2>2, <2>3
<1>7. Len(a) = Len(b) /\ Len(a) = (l + m) - 1
  BY <1>1, <1>4, <1>5
<1>8. a = b
  BY <1>4, <1>5, <1>6, <1>7, SameSeq
<1>. QED  BY <1>8 DEF a, b, d, u

LEMMA CacheInit == K!BufInit => CacheInv
<1>. SUFFICES ASSUME K!BufInit PROVE CacheKept
  BY DEF CacheInv
<1>1. PICK x \in FewNodes :
        /\ kHead = x /\ kTail = x /\ kChain = <<x>> /\ kAlloc = {x}
        /\ kNext = [y \in FewNodes |-> Null] /\ kValue = [y \in FewNodes |-> None]
        /\ kPc = [p \in Producers |-> "idle"] /\ kNew = [p \in Producers |-> Null]
        /\ kOld = [p \in Producers |-> Null] /\ kCpc = "idle" /\ kPopped = Null /\ kOldTail = Null /\ kOut = None
  BY DEF K!BufInit, K!Init
<1>2. /\ kBuffer = x /\ kItem = [p \in Producers |-> None] /\ kAfter = [p \in Producers |-> Null]
      /\ kCached = << >> /\ kOver = {}
  BY <1>1 DEF K!BufInit
<1>. DEFINE a == <<x>>
<1>3. a \in Seq(FewNodes) /\ Len(a) = 1 /\ a[1] = x
  OBVIOUS
<1>4. kCached \in Seq(FewNodes) /\ kChain \in Seq(FewNodes) /\ Len(kCached) = 0 /\ a = kCached \o kChain
  BY <1>1, <1>2
<1>. HIDE DEF a
<1>5. CacheTypes /\ CacheCalls
  BY <1>1, <1>2 DEF CacheTypes, CacheCalls, CacheDestroying
<1>6. (\A i \in 1..1 : i = 1) /\ 1..(1 - 1) = {} /\ ((0 + 1) + 1)..1 = {} /\ 0 + 1 = 1 /\ 0 <= 1 /\ 0 < 1 /\ 1 \in 1..1
  OBVIOUS
<1>7. ListNodes(a) = {x} /\ Distinct(a)
  BY <1>3, <1>6 DEF ListNodes, Distinct
<1>8. CacheCells(a, 0)
  BY <1>1, <1>3, <1>4, <1>6, <1>7 DEF CacheCells
<1>9. CacheHands(a)
  BY <1>1, <1>7 DEF CacheHands
<1>10. CacheLinks(a, 0)
  BY <1>1, <1>3, <1>6 DEF CacheLinks
<1>11. CacheItems(a, 0) /\ CacheHead(a, 0)
  BY <1>1, <1>2, <1>3, <1>6 DEF CacheItems, CacheHead, Valued
<1>. QED  BY <1>3, <1>5, <1>8, <1>9, <1>10, <1>11 DEF CacheKept, CacheAll

LEMMA CacheFacts ==
  ASSUME CacheTypes, NEW a \in Seq(FewNodes), NEW c \in Nat, CacheCells(a, c)
  PROVE  /\ Len(a) \in Nat /\ (\A i \in 1..Len(a) : a[i] \in FewNodes /\ a[i] \in ListNodes(a))
         /\ (\A i, j \in 1..Len(a) : a[i] = a[j] => i = j) /\ Null \notin FewNodes
         /\ kCpc # "destroyed" => c + 1 \in 1..Len(a) /\ 1 \in 1..Len(a) /\ Len(a) \in 1..Len(a)
         /\ c = Len(kCached) /\ Len(a) = c + Len(kChain) /\ Len(kChain) \in Nat
         /\ \A i \in 1..Len(kChain) : a[c + i] = kChain[i] /\ c + i \in 1..Len(a)
         /\ \A i \in 1..c : a[i] = kCached[i] /\ i \in 1..Len(a)
<1>1. Len(a) \in Nat /\ \A i \in 1..Len(a) : a[i] \in FewNodes /\ a[i] \in ListNodes(a)
  BY SeqIs DEF ListNodes
<1>2. (\A i, j \in 1..Len(a) : a[i] = a[j] => i = j) /\ Null \notin FewNodes
  BY NodesAssumption DEF CacheCells, Distinct
<1>3. kCpc # "destroyed" => c + 1 \in 1..Len(a) /\ 1 \in 1..Len(a) /\ Len(a) \in 1..Len(a)
  BY <1>1 DEF CacheCells
<1>4. c = Len(kCached) /\ kCached \in Seq(FewNodes) /\ kChain \in Seq(FewNodes) /\ a = kCached \o kChain
  BY DEF CacheCells
<1>5. /\ Len(a) = c + Len(kChain) /\ Len(kChain) \in Nat
      /\ (\A i \in 1..c : a[i] = kCached[i]) /\ \A i \in 1..Len(kChain) : a[c + i] = kChain[i]
  BY <1>4, ConcatIs
<1>6. ASSUME NEW m \in Nat PROVE (\A i \in 1..m : c + i \in 1..(c + m)) /\ \A i \in 1..c : i \in 1..(c + m)
  OBVIOUS
<1>. QED  BY <1>1, <1>2, <1>3, <1>4, <1>5, <1>6

\* A step that leaves the list and the nodes in the hands alone.
CacheQuiet ==
  /\ UNCHANGED <<kHead, kTail, kNext, kValue, kAlloc, kOld, kChain, kCached>>
  /\ \A p \in Producers : /\ kPc'[p] = "exchange" <=> kPc[p] = "exchange"
                          /\ kPc'[p] = "link" <=> kPc[p] = "link"
                          /\ kPc[p] \in {"exchange", "link"} => kNew'[p] = kNew[p]
  /\ kCpc # "destroyed" /\ kCpc' # "destroyed" /\ (CacheDestroying => CacheDestroying')

LEMMA CacheQuietStep ==
  ASSUME NEW a, NEW c, CacheAll(a, c), CacheQuiet
  PROVE  CacheCells(a, c)' /\ CacheHands(a)' /\ CacheLinks(a, c)' /\ Valued(a, kValue, c + 1, Len(a))'
<1>1. CacheCells(a, c) /\ CacheHands(a) /\ CacheLinks(a, c) /\ CacheItems(a, c)
  BY DEF CacheAll
<1>2. CacheCells(a, c)'
  BY <1>1 DEF CacheCells, CacheQuiet
<1>3. {kNew'[p] : p \in {q \in Producers : kPc'[q] = "exchange"}} = {kNew[p] : p \in {q \in Producers : kPc[q] = "exchange"}}
  BY DEF CacheQuiet
<1>4. CacheHands(a)'
  BY <1>1, <1>3 DEF CacheHands, CacheQuiet
<1>5. CacheLinks(a, c)'
  BY <1>1 DEF CacheLinks, CacheQuiet
<1>6. Valued(a, kValue, c + 1, Len(a))'
  BY <1>1 DEF CacheItems, Valued, CacheQuiet
<1>. QED  BY <1>2, <1>4, <1>5, <1>6

LEMMA CacheConsumerSteps ==
  ASSUME CacheTypes, CacheCalls, NEW a \in Seq(FewNodes), NEW c \in Nat, CacheAll(a, c),
         UNCHANGED K!bufferVars, K!TryDequeue \/ K!ReturnFalse \/ K!Keep \/ K!Destroy
  PROVE  CacheTypes' /\ CacheCalls' /\ CacheAll(a, c)'
<1>1. /\ UNCHANGED <<kHead, kTail, kNext, kValue, kAlloc, kPc, kNew, kOld, kChain>>
      /\ UNCHANGED <<kBuffer, kItem, kAfter, kCached, kOver>>
      /\ kCpc' \in {"idle", "empty", "take", "destroy"} /\ ~CacheDestroying
      /\ CacheDestroying' => \A p \in Producers : kPc[p] = "idle"
  BY DEF K!TryDequeue, K!ReturnFalse, K!Keep, K!ReturnTrue, K!Destroy, K!producerVars, K!bufferVars, CacheDestroying
<1>2. CacheTypes'
  BY <1>1 DEF CacheTypes
<1>3. CacheCalls'
  BY <1>1 DEF CacheCalls
<1>4. CacheQuiet
  BY <1>1 DEF CacheQuiet, CacheDestroying
<1>5. CacheHead(a, c)'
  BY <1>1 DEF CacheAll, CacheHead
<1>6. kCpc' = "take" => c + 2 <= Len(a) /\ kPopped' = a[c + 2] /\ kNext'[a[c + 1]] = a[c + 2]
  <2>. SUFFICES ASSUME kCpc' = "take" PROVE c + 2 <= Len(a) /\ kPopped' = a[c + 2] /\ kNext[a[c + 1]] = a[c + 2]
    BY <1>1
  <2>1. kCpc = "idle" /\ kPopped' = kNext[kTail] /\ kNext[kTail] # Null
    BY DEF K!TryDequeue, K!ReturnFalse, K!Keep, K!ReturnTrue, K!Destroy
  <2>2. CacheCells(a, c) /\ CacheLinks(a, c)
    BY DEF CacheAll
  <2>3. kTail = a[c + 1] /\ c < Len(a) /\ kNext[a[Len(a)]] = Null /\ Len(a) \in Nat
    BY <2>1, <2>2, CacheFacts DEF CacheCells, CacheLinks
  <2>4. c + 1 # Len(a)
    BY <2>1, <2>3
  <2>5. c + 1 \in 1..(Len(a) - 1) /\ c + 1 > c /\ (c + 1) + 1 = c + 2 /\ c + 2 <= Len(a)
    BY <2>3, <2>4
  <2>6. kNext[a[c + 1]] = a[(c + 1) + 1] \/ kNext[a[c + 1]] = Null
    BY <2>2, <2>5 DEF CacheLinks
  <2>. QED  BY <2>1, <2>3, <2>5, <2>6
<1>7. CacheCells(a, c)' /\ CacheHands(a)' /\ CacheLinks(a, c)' /\ Valued(a, kValue, c + 1, Len(a))'
  BY <1>4, CacheQuietStep
<1>8. CacheItems(a, c)'
  BY <1>1, <1>6, <1>7 DEF CacheItems
<1>. QED  BY <1>2, <1>3, <1>5, <1>7, <1>8 DEF CacheAll

LEMMA CacheProducerSteps ==
  ASSUME CacheTypes, CacheCalls, NEW a \in Seq(FewNodes), NEW c \in Nat, CacheAll(a, c), NEW p \in Producers,
         K!Check(p) \/ K!ReadNext(p) \/ K!CasFails(p) \/ \E v \in Values : K!EnqueueBuffered(p, v)
  PROVE  CacheTypes' /\ CacheCalls' /\ CacheAll(a, c)'
<1>. DEFINE In == {"idle", "check", "next", "cas"}
<1>1. CacheCells(a, c) /\ CacheHands(a) /\ CacheLinks(a, c) /\ CacheItems(a, c) /\ CacheHead(a, c)
  BY DEF CacheAll
<1>2. PICK s \in In, x \in FewNodes \cup {Null} : kPc' = [kPc EXCEPT ![p] = s] /\ kNew' = [kNew EXCEPT ![p] = x] /\ kPc[p] \in In
  <2>1. kNew = [kNew EXCEPT ![p] = kNew[p]] /\ kNew[p] \in FewNodes \cup {Null} /\ kBuffer \in FewNodes
    BY DEF CacheTypes
  <2>. QED  BY <2>1 DEF K!Check, K!ReadNext, K!CasFails, K!EnqueueBuffered
<1>3. /\ UNCHANGED <<kHead, kTail, kNext, kValue, kAlloc, kOld, kCpc, kPopped, kOut, kChain, kBuffer, kCached>>
  BY DEF K!Check, K!ReadNext, K!CasFails, K!EnqueueBuffered, K!consumerVars, K!bufferVars
<1>4. ~CacheDestroying /\ ~CacheDestroying'
  <2>1. kPc[p] # "idle" \/ ~CacheDestroying
    BY DEF K!Check, K!ReadNext, K!CasFails, K!EnqueueBuffered, CacheDestroying
  <2>2. ~CacheDestroying
    BY <2>1 DEF CacheCalls
  <2>. QED  BY <2>2, <1>3 DEF CacheDestroying
<1>5. \A q \in Producers : q # p => kPc'[q] = kPc[q] /\ kNew'[q] = kNew[q]
  BY <1>2 DEF CacheTypes
<1>6. kPc'[p] = s /\ kNew'[p] = x
  BY <1>2 DEF CacheTypes
<1>7. CacheQuiet
  BY <1>2, <1>3, <1>4, <1>5, <1>6 DEF CacheQuiet, CacheDestroying
<1>8. CacheCells(a, c)' /\ CacheHands(a)' /\ CacheLinks(a, c)' /\ Valued(a, kValue, c + 1, Len(a))'
  BY <1>7, CacheQuietStep
<1>9. CacheItems(a, c)'
  BY <1>1, <1>3, <1>8 DEF CacheItems
<1>10. /\ kItem' \in [Producers -> Values \cup {None}] /\ kItem'[p] \in Values /\ \A q \in Producers : q # p => kItem'[q] = kItem[q]
       /\ kAfter' \in [Producers -> FewNodes \cup {Null}] /\ \A q \in Producers : q # p => kAfter'[q] = kAfter[q]
       /\ \A q \in Producers : q # p /\ q \in kOver => q \in kOver'
  <2>1. CASE K!Check(p)
    BY <2>1 DEF K!Check, K!bufferVars, CacheTypes, CacheCalls
  <2>2. CASE K!ReadNext(p)
    <3>1. kNew[p] \in FewNodes /\ kNext[kNew[p]] \in FewNodes \cup {Null}
      BY <2>2 DEF K!ReadNext, CacheTypes, CacheCalls
    <3>. QED  BY <2>2, <3>1 DEF K!ReadNext, CacheTypes, CacheCalls
  <2>3. CASE K!CasFails(p)
    BY <2>3 DEF K!CasFails, CacheTypes, CacheCalls
  <2>4. CASE \E v \in Values : K!EnqueueBuffered(p, v)
    BY <2>4 DEF K!EnqueueBuffered, CacheTypes
  <2>. QED  BY <2>1, <2>2, <2>3, <2>4
<1>11. CacheTypes'
  BY <1>2, <1>3, <1>10 DEF CacheTypes
<1>12. x \in FewNodes
  <2>1. CASE \E v \in Values : K!EnqueueBuffered(p, v)
    BY <2>1, <1>6 DEF K!EnqueueBuffered, CacheTypes
  <2>2. CASE K!CasFails(p)
    BY <2>2, <1>6 DEF K!CasFails, CacheTypes
  <2>3. CASE K!Check(p) \/ K!ReadNext(p)
    BY <2>3, <1>6 DEF K!Check, K!ReadNext, CacheCalls
  <2>. QED  BY <2>1, <2>2, <2>3
<1>13. CacheCalls'
  BY <1>4, <1>5, <1>6, <1>10, <1>12 DEF CacheCalls
<1>14. CacheHead(a, c)'
  <2>1. kBuffer' = a[1]
    BY <1>1, <1>3, <1>4 DEF CacheHead
  <2>2. ASSUME kPc'[p] \in {"next", "cas"}, p \notin kOver', kNew'[p] = kBuffer'
        PROVE  c >= 1 /\ (kPc'[p] = "cas" => kAfter'[p] = a[2])
    <3>1. CASE K!Check(p)
      <4>1. kNew[p] # kTail /\ kNew[p] = a[1] /\ kPc'[p] = "next"
        BY <2>1, <2>2, <3>1 DEF K!Check, K!IsCached, CacheTypes
      <4>2. kTail = a[c + 1]
        BY <1>1, <1>4 DEF CacheCells, CacheDestroying
      <4>3. c # 0
        BY <4>1, <4>2
      <4>4. c >= 1
        BY <4>3
      <4>. QED  BY <4>1, <4>4
    <3>2. CASE K!ReadNext(p)
      <4>1. kPc[p] = "next" /\ p \notin kOver /\ kNew[p] = kBuffer /\ kAfter'[p] = kNext[kBuffer]
        BY <2>2, <3>2, <1>3 DEF K!ReadNext, CacheTypes
      <4>2. c >= 1 /\ kBuffer = a[1]
        BY <4>1, <1>1, <1>4 DEF CacheHead
      <4>3. c < Len(a) /\ Len(a) \in Nat
        BY <1>1, <1>4, CacheFacts DEF CacheCells, CacheDestroying
      <4>4. 1 \in 1..(Len(a) - 1) /\ ~(1 > c) /\ 1 + 1 = 2
        BY <4>2, <4>3
      <4>5. kNext[a[1]] = a[1 + 1]
        BY <4>4, <1>1, <1>4 DEF CacheLinks
      <4>. QED  BY <4>1, <4>2, <4>4, <4>5
    <3>3. CASE K!CasFails(p)
      BY <2>2, <3>3, <1>6 DEF K!CasFails, CacheTypes
    <3>4. CASE \E v \in Values : K!EnqueueBuffered(p, v)
      BY <2>2, <3>4, <1>6 DEF K!EnqueueBuffered, CacheTypes
    <3>. QED  BY <3>1, <3>2, <3>3, <3>4
  <2>3. \A q \in Producers : q # p /\ kPc'[q] \in {"next", "cas"} /\ q \notin kOver' /\ kNew'[q] = kBuffer' =>
          c >= 1 /\ (kPc'[q] = "cas" => kAfter'[q] = a[2])
    BY <1>1, <1>3, <1>4, <1>5, <1>10 DEF CacheHead
  <2>. QED  BY <2>1, <2>2, <2>3 DEF CacheHead
<1>. QED  BY <1>8, <1>9, <1>11, <1>13, <1>14 DEF CacheAll

LEMMA CacheAllocStep ==
  ASSUME CacheTypes, CacheCalls, NEW a \in Seq(FewNodes), NEW c \in Nat, CacheAll(a, c), NEW p \in Producers, K!AllocNew(p)
  PROVE  CacheTypes' /\ CacheCalls' /\ CacheAll(a, c)'
<1>1. CacheCells(a, c) /\ CacheHands(a) /\ CacheLinks(a, c) /\ CacheItems(a, c) /\ CacheHead(a, c)
  BY DEF CacheAll
<1>2. PICK x \in FewNodes \ kAlloc :
        /\ kAlloc' = kAlloc \cup {x} /\ kNext' = [kNext EXCEPT ![x] = Null]
        /\ kValue' = [kValue EXCEPT ![x] = kItem[p]] /\ kNew' = [kNew EXCEPT ![p] = x]
  BY DEF K!AllocNew
<1>3. /\ kPc[p] = "check" /\ kItem' = [kItem EXCEPT ![p] = None] /\ kPc' = [kPc EXCEPT ![p] = "exchange"]
      /\ UNCHANGED <<kHead, kTail, kOld, kCpc, kPopped, kOut, kChain, kBuffer, kAfter, kCached, kOver>>
  BY DEF K!AllocNew, K!consumerVars
<1>4. kItem[p] \in Values /\ ~CacheDestroying /\ ~CacheDestroying'
  <2>1. kItem[p] \in Values /\ ~CacheDestroying
    BY <1>3 DEF CacheCalls
  <2>. QED  BY <2>1, <1>3 DEF CacheDestroying
<1>5. CacheTypes'
  <2>1. kNext' \in [FewNodes -> FewNodes \cup {Null}] /\ kValue' \in [FewNodes -> Values \cup {None}]
    BY <1>2, <1>4 DEF CacheTypes
  <2>2. kPc' \in [Producers -> {"idle", "check", "next", "cas", "exchange", "link"}] /\ kNew' \in [Producers -> FewNodes \cup {Null}]
    BY <1>2, <1>3 DEF CacheTypes
  <2>3. kItem' \in [Producers -> Values \cup {None}]
    BY <1>3 DEF CacheTypes
  <2>. QED  BY <2>1, <2>2, <2>3, <1>3 DEF CacheTypes
<1>6. \A q \in Producers : q # p => kPc'[q] = kPc[q] /\ kNew'[q] = kNew[q] /\ kItem'[q] = kItem[q]
  BY <1>2, <1>3 DEF CacheTypes
<1>7. kPc'[p] = "exchange" /\ kNew'[p] = x /\ kNext'[x] = Null /\ kValue'[x] \in Values
  BY <1>2, <1>3, <1>4 DEF CacheTypes
<1>8. \A y \in FewNodes : y # x => kNext'[y] = kNext[y] /\ kValue'[y] = kValue[y]
  BY <1>2 DEF CacheTypes
<1>9. x \notin ListNodes(a) /\ \A q \in Producers : kPc[q] = "exchange" => kNew[q] # x
  BY <1>1, <1>2 DEF CacheHands
<1>10. Len(a) \in Nat /\ \A i \in 1..Len(a) : a[i] \in FewNodes /\ a[i] # x
  BY <1>1, <1>9, CacheFacts
<1>11. \A i \in 1..Len(a) : kNext'[a[i]] = kNext[a[i]] /\ kValue'[a[i]] = kValue[a[i]]
  BY <1>8, <1>10
<1>12. CacheCalls'
  BY <1>4, <1>6, <1>7 DEF CacheCalls
<1>13. CacheCells(a, c)'
  BY <1>1, <1>3 DEF CacheCells
<1>14. CacheHands(a)'
  <2>1. \A q \in Producers : kPc'[q] = "exchange" =>
          kNew'[q] \in FewNodes /\ kNew'[q] \notin ListNodes(a) /\ kNext'[kNew'[q]] = Null /\ kValue'[kNew'[q]] \in Values
    BY <1>1, <1>6, <1>7, <1>8, <1>9 DEF CacheHands
  <2>2. \A q, r \in Producers : kPc'[q] = "exchange" /\ kPc'[r] = "exchange" /\ kNew'[q] = kNew'[r] => q = r
    BY <1>1, <1>6, <1>7, <1>9 DEF CacheHands
  <2>3. {kNew'[q] : q \in {r \in Producers : kPc'[r] = "exchange"}} = {kNew[q] : q \in {r \in Producers : kPc[r] = "exchange"}} \cup {x}
    BY <1>3, <1>6, <1>7
  <2>4. kAlloc' = ListNodes(a) \cup {kNew'[q] : q \in {r \in Producers : kPc'[r] = "exchange"}}
    BY <2>3, <1>1, <1>2 DEF CacheHands
  <2>. QED  BY <2>1, <2>2, <2>4 DEF CacheHands
<1>15. CacheLinks(a, c)'
  <2>1. \A q \in Producers : kPc'[q] = "link" <=> kPc[q] = "link"
    BY <1>3, <1>6, <1>7
  <2>2. \A q \in Producers : kPc[q] = "link" => kNew'[q] = kNew[q]
    BY <1>3, <1>6
  <2>3. \A i \in 1..(Len(a) - 1) : i \in 1..Len(a)
    BY <1>10
  <2>4. c < Len(a) => Len(a) \in 1..Len(a)
    BY <1>10
  <2>5. c < Len(a) => kNext'[a[Len(a)]] = Null
    BY <2>4, <1>1, <1>11 DEF CacheLinks
  <2>6. \A i \in 1..(Len(a) - 1) : (CacheDestroying' => i > c) =>
          \/ kNext'[a[i]] = a[i + 1]
          \/ i > c /\ kNext'[a[i]] = Null /\ \E q \in Producers : kPc'[q] = "link" /\ kOld'[q] = a[i]
    BY <2>1, <2>3, <1>1, <1>3, <1>4, <1>11 DEF CacheLinks
  <2>7. \A i \in (c + 1)..(Len(a) - 1) : i \in 1..Len(a)
    BY <1>10
  <2>8. \A q \in Producers : kPc'[q] = "link" =>
          \E i \in (c + 1)..(Len(a) - 1) : kOld'[q] = a[i] /\ kNew'[q] = a[i + 1] /\ kNext'[a[i]] = Null
    BY <2>1, <2>2, <2>7, <1>1, <1>3, <1>11 DEF CacheLinks
  <2>9. \A q, r \in Producers : kPc'[q] = "link" /\ kPc'[r] = "link" /\ kOld'[q] = kOld'[r] => q = r
    BY <2>1, <1>1, <1>3 DEF CacheLinks
  <2>. QED  BY <2>5, <2>6, <2>8, <2>9 DEF CacheLinks
<1>16. CacheItems(a, c)'
  <2>1. \A i \in ((c + 1) + 1)..Len(a) : i \in 1..Len(a)
    BY <1>10
  <2>2. Valued(a, kValue, c + 1, Len(a))'
    BY <2>1, <1>1, <1>11 DEF CacheItems, Valued
  <2>3. c + 2 <= Len(a) => c + 1 \in 1..Len(a)
    BY <1>10
  <2>. QED  BY <2>2, <2>3, <1>1, <1>3, <1>11 DEF CacheItems
<1>17. CacheHead(a, c)'
  BY <1>1, <1>3, <1>4, <1>6, <1>7 DEF CacheHead
<1>. QED  BY <1>5, <1>12, <1>13, <1>14, <1>15, <1>16, <1>17 DEF CacheAll

\* A compare-and-swap that nobody has overtaken takes the first of the cached
\* nodes, and leaves the second at the head of the cache.
LEMMA CacheTakeStep ==
  ASSUME CacheTypes, CacheCalls, NEW a \in Seq(FewNodes), NEW c \in Nat, CacheAll(a, c), NEW p \in Producers,
         K!CasTakes(p), ~kStale'
  PROVE  /\ c >= 1 /\ c - 1 \in Nat /\ Tail(a) \in Seq(FewNodes)
         /\ CacheTypes' /\ CacheCalls' /\ CacheAll(Tail(a), c - 1)'
         /\ Shifted(a, kValue, Tail(a), kValue', c + 1, Len(a)) /\ Len(Tail(a)) = Len(a) - 1
<1>. DEFINE n == Len(a)   b == Tail(a)   x == a[1]
<1>1. CacheCells(a, c) /\ CacheHands(a) /\ CacheLinks(a, c) /\ CacheItems(a, c) /\ CacheHead(a, c)
  BY DEF CacheAll
<1>2. /\ kPc[p] = "cas" /\ kBuffer = kNew[p] /\ kBuffer' = kAfter[p]
      /\ kValue' = [kValue EXCEPT ![kNew[p]] = kItem[p]] /\ kNext' = [kNext EXCEPT ![kNew[p]] = Null]
      /\ kPc' = [kPc EXCEPT ![p] = "exchange"] /\ kItem' = [kItem EXCEPT ![p] = None]
      /\ kAfter' = [kAfter EXCEPT ![p] = Null] /\ kCached' = IF kCached = << >> THEN kCached ELSE Tail(kCached)
      /\ kOver' = (kOver \cup {q \in Producers : kPc[q] \in {"next", "cas"}}) \ {p}
      /\ UNCHANGED <<kHead, kTail, kAlloc, kNew, kOld, kCpc, kPopped, kOut, kChain>>
  BY DEF K!CasTakes, K!consumerVars
<1>3. p \notin kOver
  BY Zenon DEF K!CasTakes
<1>4. kItem[p] \in Values /\ ~CacheDestroying /\ ~CacheDestroying'
  <2>1. kItem[p] \in Values /\ ~CacheDestroying
    BY <1>2 DEF CacheCalls
  <2>. QED  BY <2>1, <1>2 DEF CacheDestroying
<1>5. kNew[p] = a[1] /\ c >= 1 /\ kAfter[p] = a[2]
  BY <1>1, <1>2, <1>3, <1>4 DEF CacheHead
<1>6. /\ n \in Nat /\ c < n /\ c - 1 \in Nat /\ n # 0 /\ (\A i \in 1..n : a[i] \in FewNodes /\ a[i] \in ListNodes(a))
      /\ (\A i, j \in 1..n : a[i] = a[j] => i = j) /\ 1 \in 1..n /\ 2 \in 1..n /\ a[c + 1] = kTail /\ a[n] = kHead
  <2>1. /\ n \in Nat /\ c < n /\ (\A i \in 1..n : a[i] \in FewNodes /\ a[i] \in ListNodes(a))
        /\ (\A i, j \in 1..n : a[i] = a[j] => i = j) /\ a[c + 1] = kTail /\ a[n] = kHead
    BY <1>1, <1>4, CacheFacts DEF CacheCells, CacheDestroying
  <2>2. n \in Nat /\ c < n /\ c >= 1
    BY <2>1, <1>5, Zenon
  <2>. HIDE DEF n
  <2>3. c - 1 \in Nat /\ n # 0 /\ 1 \in 1..n /\ 2 \in 1..n
    BY <2>2
  <2>. QED  BY <2>1, <2>3, Zenon
<1>7. /\ b \in Seq(FewNodes) /\ Len(b) = n - 1 /\ (\A i \in 1..(n - 1) : b[i] = a[i + 1])
      /\ Distinct(b) /\ ListNodes(b) = ListNodes(a) \ {x}
  BY <1>1, <1>6, TailList DEF CacheCells
<1>8. kCached' \in Seq(FewNodes) /\ Len(kCached') = c - 1 /\ b = kCached' \o kChain'
  <2>1. kCached \in Seq(FewNodes) /\ kChain \in Seq(FewNodes) /\ Len(kCached) = c /\ Len(kCached) # 0 /\ a = kCached \o kChain
    BY <1>1, <1>5 DEF CacheCells
  <2>2. kCached' = Tail(kCached)
    BY <2>1, <1>2, SeqIs
  <2>3. Tail(kCached) \o kChain = Tail(kCached \o kChain)
    BY <2>1, ConcatTail
  <2>. QED  BY <2>1, <2>2, <2>3, <1>2, TailList
<1>9. kPc'[p] = "exchange" /\ kNew'[p] = x /\ kNext'[x] = Null /\ kValue'[x] \in Values /\ x \in FewNodes
  BY <1>2, <1>4, <1>5, <1>6 DEF CacheTypes
<1>10. \A y \in FewNodes : y # x => kNext'[y] = kNext[y] /\ kValue'[y] = kValue[y]
  BY <1>2, <1>5 DEF CacheTypes
<1>11. \A q \in Producers : q # p => kPc'[q] = kPc[q] /\ kNew'[q] = kNew[q] /\ kItem'[q] = kItem[q] /\ kAfter'[q] = kAfter[q]
  BY <1>2 DEF CacheTypes
<1>. HIDE DEF n, b
<1>12. \A i \in 1..(n - 1) : /\ i + 1 \in 1..n /\ i + 1 # 1 /\ (i # n - 1 => i + 1 \in 1..(n - 1))
  BY <1>6
<1>13. \A i \in 1..(n - 1) : b[i] = a[i + 1] /\ b[i] \in FewNodes /\ b[i] # x /\ kNext'[b[i]] = kNext[a[i + 1]] /\ kValue'[b[i]] = kValue[a[i + 1]]
  <2>1. \A i \in 1..(n - 1) : b[i] = a[i + 1] /\ b[i] \in FewNodes /\ b[i] # x
    BY <1>6, <1>7, <1>12
  <2>. QED  BY <2>1, <1>10
<1>14. CacheTypes'
  <2>1. kNext' \in [FewNodes -> FewNodes \cup {Null}] /\ kValue' \in [FewNodes -> Values \cup {None}]
    BY <1>2, <1>4, <1>5, <1>6 DEF CacheTypes
  <2>2. kPc' \in [Producers -> {"idle", "check", "next", "cas", "exchange", "link"}] /\ kNew' \in [Producers -> FewNodes \cup {Null}]
    BY <1>2 DEF CacheTypes
  <2>3. kItem' \in [Producers -> Values \cup {None}] /\ kAfter' \in [Producers -> FewNodes \cup {Null}]
    BY <1>2 DEF CacheTypes
  <2>4. kBuffer' \in FewNodes
    BY <1>2, <1>5, <1>6
  <2>. QED  BY <2>1, <2>2, <2>3, <2>4, <1>2 DEF CacheTypes
<1>15. CacheCalls'
  BY <1>4, <1>9, <1>11 DEF CacheCalls
<1>16. CacheCells(b, c - 1)'
  <2>1. c - 1 <= n - 1 /\ c - 1 < n - 1 /\ (c - 1) + 1 \in 1..(n - 1) /\ ((c - 1) + 1) + 1 = c + 1
        /\ n - 1 \in 1..(n - 1) /\ (n - 1) + 1 = n
    BY <1>5, <1>6
  <2>2. b[(c - 1) + 1] = kTail /\ b[n - 1] = kHead
    BY <2>1, <1>6, <1>7
  <2>3. kChain' \in Seq(FewNodes) /\ kCpc' # "destroyed"
    BY <1>1, <1>2, <1>4 DEF CacheCells, CacheDestroying
  <2>. QED  BY <2>1, <2>2, <2>3, <1>2, <1>7, <1>8 DEF CacheCells
<1>17. CacheHands(b)'
  <2>1. \A q \in Producers : kPc[q] = "exchange" => q # p /\ kNew[q] # x /\ kNew[q] \in FewNodes
    BY <1>1, <1>2, <1>6 DEF CacheHands
  <2>2. \A q \in Producers : kPc'[q] = "exchange" =>
          kNew'[q] \in FewNodes /\ kNew'[q] \notin ListNodes(b) /\ kNext'[kNew'[q]] = Null /\ kValue'[kNew'[q]] \in Values
    BY <2>1, <1>1, <1>7, <1>9, <1>10, <1>11 DEF CacheHands
  <2>3. \A q, r \in Producers : kPc'[q] = "exchange" /\ kPc'[r] = "exchange" /\ kNew'[q] = kNew'[r] => q = r
    BY <2>1, <1>1, <1>9, <1>11 DEF CacheHands
  <2>4. {kNew'[q] : q \in {r \in Producers : kPc'[r] = "exchange"}} = {kNew[q] : q \in {r \in Producers : kPc[r] = "exchange"}} \cup {x}
    BY <1>2, <1>9, <1>11
  <2>5. x \in ListNodes(a)
    BY <1>6
  <2>6. kAlloc' = ListNodes(b) \cup {kNew'[q] : q \in {r \in Producers : kPc'[r] = "exchange"}}
    BY <2>4, <2>5, <1>1, <1>2, <1>7 DEF CacheHands
  <2>. QED  BY <2>2, <2>3, <2>6 DEF CacheHands
<1>18. CacheLinks(b, c - 1)'
  <2>1. \A q \in Producers : (kPc'[q] = "link" <=> kPc[q] = "link") /\ kNew'[q] = kNew[q] /\ kOld'[q] = kOld[q]
    BY <1>2, <1>9, <1>11
  <2>2. n - 1 \in 1..(n - 1) /\ (n - 1) + 1 = n
    BY <1>5, <1>6
  <2>3. kNext'[b[n - 1]] = Null
    BY <2>2, <1>1, <1>6, <1>13 DEF CacheLinks, n
  <2>4. ASSUME NEW i \in 1..((n - 1) - 1)
        PROVE  \/ kNext'[b[i]] = b[i + 1]
               \/ i > c - 1 /\ kNext'[b[i]] = Null /\ \E q \in Producers : kPc'[q] = "link" /\ kOld'[q] = b[i]
    <3>1. i \in 1..(n - 1) /\ i + 1 \in 1..(n - 1) /\ (i + 1 > c => i > c - 1)
      BY <1>6
    <3>2. \/ kNext[a[i + 1]] = a[(i + 1) + 1]
          \/ i + 1 > c /\ kNext[a[i + 1]] = Null /\ \E q \in Producers : kPc[q] = "link" /\ kOld[q] = a[i + 1]
      BY <3>1, <1>1, <1>4 DEF CacheLinks, n
    <3>. QED  BY <3>1, <3>2, <2>1, <1>13
  <2>5. ASSUME NEW q \in Producers, kPc'[q] = "link"
        PROVE  \E i \in ((c - 1) + 1)..((n - 1) - 1) : kOld'[q] = b[i] /\ kNew'[q] = b[i + 1] /\ kNext'[b[i]] = Null
    <3>1. PICK i \in (c + 1)..(n - 1) : kOld[q] = a[i] /\ kNew[q] = a[i + 1] /\ kNext[a[i]] = Null
      BY <2>1, <2>5, <1>1 DEF CacheLinks, n
    <3>2. /\ i - 1 \in ((c - 1) + 1)..((n - 1) - 1) /\ i - 1 \in 1..(n - 1) /\ (i - 1) + 1 = i /\ i \in 1..(n - 1)
      BY <1>5, <1>6
    <3>3. kOld'[q] = b[i - 1] /\ kNew'[q] = b[(i - 1) + 1] /\ kNext'[b[i - 1]] = Null
      BY <3>1, <3>2, <2>1, <1>13
    <3>. QED  BY <3>2, <3>3
  <2>6. \A q, r \in Producers : kPc'[q] = "link" /\ kPc'[r] = "link" /\ kOld'[q] = kOld'[r] => q = r
    BY <2>1, <1>1 DEF CacheLinks
  <2>. QED  BY <2>3, <2>4, <2>5, <2>6, <1>7 DEF CacheLinks
<1>19. CacheItems(b, c - 1)'
  <2>1. \A i \in (((c - 1) + 1) + 1)..(n - 1) : i \in 1..(n - 1) /\ i + 1 \in ((c + 1) + 1)..n
    BY <1>5, <1>6
  <2>2. Valued(b, kValue, (c - 1) + 1, Len(b))'
    BY <2>1, <1>1, <1>7, <1>13 DEF CacheItems, Valued, n
  <2>3. c + 2 <= n => /\ (c - 1) + 2 <= n - 1 /\ (c - 1) + 2 \in 1..(n - 1) /\ ((c - 1) + 2) + 1 = c + 2
                      /\ (c - 1) + 1 \in 1..(n - 1) /\ ((c - 1) + 1) + 1 = c + 1
    BY <1>5, <1>6
  <2>4. kCpc' = "take" => (c - 1) + 2 <= Len(b) /\ kPopped' = b[(c - 1) + 2] /\ kNext'[b[(c - 1) + 1]] = b[(c - 1) + 2]
    BY <2>3, <1>1, <1>2, <1>7, <1>13 DEF CacheItems, n
  <2>5. kCpc' = "delete" => kOut' \in Values
    BY <1>1, <1>2 DEF CacheItems
  <2>. QED  BY <2>2, <2>4, <2>5 DEF CacheItems
<1>20. CacheHead(b, c - 1)'
  <2>1. 1 \in 1..(n - 1) /\ 1 + 1 = 2
    BY <1>5, <1>6
  <2>2. kBuffer' = b[1]
    BY <2>1, <1>2, <1>5, <1>7
  <2>3. \A q \in Producers : kPc'[q] \in {"next", "cas"} => q \in kOver'
    BY <1>2, <1>9, <1>11
  <2>. QED  BY <2>2, <2>3 DEF CacheHead
<1>21. Shifted(a, kValue, b, kValue', c + 1, n)
  <2>. SUFFICES ASSUME NEW i \in ((c + 1) + 1)..n PROVE kValue'[b[i - 1]] = kValue[a[i]]
    BY DEF Shifted
  <2>1. i - 1 \in 1..(n - 1) /\ (i - 1) + 1 = i
    BY <1>5, <1>6
  <2>. QED  BY <2>1, <1>13
<1>. QED  BY <1>5, <1>6, <1>7, <1>14, <1>15, <1>16, <1>17, <1>18, <1>19, <1>20, <1>21 DEF CacheAll, n, b

LEMMA CacheExchangeStep ==
  ASSUME CacheTypes, CacheCalls, NEW a \in Seq(FewNodes), NEW c \in Nat, CacheAll(a, c), NEW p \in Producers,
         K!Exchange(p), UNCHANGED K!bufferVars
  PROVE  /\ kNew[p] \in FewNodes /\ CacheTypes' /\ CacheCalls' /\ ~CacheDestroying
         /\ \A x : x = kNew[p] => Append(a, x) \in Seq(FewNodes) /\ CacheAll(Append(a, x), c)' /\ kValue[x] \in Values
<1>1. CacheCells(a, c) /\ CacheHands(a) /\ CacheLinks(a, c) /\ CacheItems(a, c) /\ CacheHead(a, c)
  BY DEF CacheAll
<1>2. /\ kPc[p] = "exchange" /\ kOld' = [kOld EXCEPT ![p] = kHead] /\ kHead' = kNew[p]
      /\ kChain' = Append(kChain, kNew[p]) /\ kPc' = [kPc EXCEPT ![p] = "link"]
      /\ UNCHANGED <<kTail, kNext, kValue, kAlloc, kNew, kCpc, kPopped, kOut, kBuffer, kItem, kAfter, kCached, kOver>>
  BY DEF K!Exchange, K!consumerVars, K!bufferVars
<1>3. PICK x \in FewNodes : x = kNew[p] /\ x \notin ListNodes(a) /\ kNext[x] = Null /\ kValue[x] \in Values
  BY <1>1, <1>2 DEF CacheHands
<1>4. ~CacheDestroying /\ ~CacheDestroying'
  <2>1. ~CacheDestroying
    BY <1>2 DEF CacheCalls
  <2>. QED  BY <2>1, <1>2 DEF CacheDestroying
<1>5. CacheTypes'
  <2>1. kPc' \in [Producers -> {"idle", "check", "next", "cas", "exchange", "link"}] /\ kOld' \in [Producers -> FewNodes \cup {Null}]
    BY <1>2 DEF CacheTypes
  <2>. QED  BY <2>1, <1>2, <1>3 DEF CacheTypes
<1>6. \A q \in Producers : q # p => kPc'[q] = kPc[q] /\ kOld'[q] = kOld[q]
  BY <1>2 DEF CacheTypes
<1>7. kPc'[p] = "link" /\ kOld'[p] = kHead
  BY <1>2 DEF CacheTypes
<1>8. CacheCalls'
  BY <1>2, <1>4, <1>6, <1>7 DEF CacheCalls
<1>. DEFINE n == Len(a)   b == Append(a, x)
<1>9. /\ n \in Nat /\ c < n /\ (\A i \in 1..n : a[i] \in FewNodes /\ a[i] \in ListNodes(a))
      /\ (\A i, j \in 1..n : a[i] = a[j] => i = j) /\ 1 \in 1..n /\ n \in 1..n /\ a[c + 1] = kTail /\ a[n] = kHead
      /\ Null \notin FewNodes
  BY <1>1, <1>4, CacheFacts DEF CacheCells, CacheDestroying
<1>10. /\ b \in Seq(FewNodes) /\ Len(b) = n + 1 /\ (\A i \in 1..n : b[i] = a[i]) /\ b[n + 1] = x
       /\ ListNodes(b) = ListNodes(a) \cup {x} /\ Distinct(b)
  <2>1. Distinct(a)
    BY <1>1 DEF CacheCells
  <2>. QED  BY <2>1, <1>3, AppendList
<1>11. b = kCached' \o kChain' /\ kChain' \in Seq(FewNodes)
  <2>1. kCached \in Seq(FewNodes) /\ kChain \in Seq(FewNodes) /\ a = kCached \o kChain
    BY <1>1 DEF CacheCells
  <2>2. kCached \o Append(kChain, x) = Append(kCached \o kChain, x)
    BY <2>1, ConcatAppend
  <2>. QED  BY <2>1, <2>2, <1>2, <1>3, AppendList
<1>. HIDE DEF n, b
<1>12. /\ c + 1 \in 1..n /\ c <= n + 1 /\ c < n + 1 /\ (n + 1) - 1 = n /\ n > c
       /\ \A i \in 1..n : i = n \/ (i \in 1..(n - 1) /\ i + 1 \in 1..n)
  BY <1>9
<1>13. CacheCells(b, c)'
  <2>1. b[c + 1] = kTail' /\ b[n + 1] = kHead' /\ kCpc' # "destroyed"
    BY <1>2, <1>3, <1>4, <1>9, <1>10, <1>12 DEF CacheDestroying
  <2>2. kCached' \in Seq(FewNodes) /\ c = Len(kCached')
    BY <1>1, <1>2 DEF CacheCells
  <2>. QED  BY <2>1, <2>2, <1>10, <1>11, <1>12 DEF CacheCells
<1>14. CacheHands(b)'
  <2>1. \A q \in Producers : kPc'[q] = "exchange" <=> kPc[q] = "exchange" /\ q # p
    BY <1>6, <1>7
  <2>2. \A q \in Producers : kPc'[q] = "exchange" => kNew[q] # x
    BY <2>1, <1>1, <1>2, <1>3 DEF CacheHands
  <2>3. \A q \in Producers : kPc'[q] = "exchange" =>
          kNew'[q] \in FewNodes /\ kNew'[q] \notin ListNodes(b) /\ kNext'[kNew'[q]] = Null /\ kValue'[kNew'[q]] \in Values
    BY <2>1, <2>2, <1>1, <1>2, <1>10 DEF CacheHands
  <2>4. \A q, r \in Producers : kPc'[q] = "exchange" /\ kPc'[r] = "exchange" /\ kNew'[q] = kNew'[r] => q = r
    BY <2>1, <1>1, <1>2 DEF CacheHands
  <2>5. {kNew[q] : q \in {r \in Producers : kPc[r] = "exchange"}} = {kNew'[q] : q \in {r \in Producers : kPc'[r] = "exchange"}} \cup {x}
    BY <2>1, <1>2, <1>3
  <2>6. kAlloc' = ListNodes(b) \cup {kNew'[q] : q \in {r \in Producers : kPc'[r] = "exchange"}}
    BY <2>5, <1>1, <1>2, <1>10 DEF CacheHands
  <2>. QED  BY <2>3, <2>4, <2>6 DEF CacheHands
<1>15. CacheLinks(b, c)'
  <2>1. \A q \in Producers : kPc'[q] = "link" <=> kPc[q] = "link" \/ q = p
    BY <1>6, <1>7
  <2>2. kNext'[b[n + 1]] = Null /\ kNext[a[n]] = Null
    BY <1>1, <1>2, <1>3, <1>9, <1>10 DEF CacheLinks, n
  <2>3. ASSUME NEW i \in 1..n
        PROVE  \/ kNext'[b[i]] = b[i + 1]
               \/ i > c /\ kNext'[b[i]] = Null /\ \E q \in Producers : kPc'[q] = "link" /\ kOld'[q] = b[i]
    <3>1. CASE i = n
      BY <3>1, <2>2, <1>2, <1>7, <1>9, <1>10, <1>12
    <3>2. CASE i \in 1..(n - 1) /\ i + 1 \in 1..n
      <4>1. \/ kNext[a[i]] = a[i + 1]
            \/ i > c /\ kNext[a[i]] = Null /\ \E q \in Producers : kPc[q] = "link" /\ kOld[q] = a[i]
        BY <3>2, <1>1, <1>4 DEF CacheLinks, n
      <4>. QED  BY <4>1, <3>2, <2>1, <1>2, <1>6, <1>10
    <3>. QED  BY <3>1, <3>2, <1>12
  <2>4. \A q \in Producers : kPc[q] = "link" =>
          \E i \in (c + 1)..(n - 1) : kOld[q] = a[i] /\ kNew[q] = a[i + 1] /\ kNext[a[i]] = Null
    BY <1>1 DEF CacheLinks, n
  <2>5. \A i \in (c + 1)..(n - 1) : i \in 1..n /\ i + 1 \in 1..n /\ i # n /\ i \in (c + 1)..n
    BY <1>9
  <2>6. \A q \in Producers : kPc[q] = "link" => q # p /\ kOld[q] # kHead
    BY <2>4, <2>5, <1>2, <1>9
  <2>7. ASSUME NEW q \in Producers, kPc'[q] = "link"
        PROVE  \E i \in (c + 1)..n : kOld'[q] = b[i] /\ kNew'[q] = b[i + 1] /\ kNext'[b[i]] = Null
    <3>1. CASE q = p
      <4>1. n \in (c + 1)..n
        BY <1>9
      <4>2. kOld'[q] = b[n] /\ kNew'[q] = b[n + 1] /\ kNext'[b[n]] = Null
        BY <3>1, <2>2, <1>2, <1>3, <1>7, <1>9, <1>10
      <4>. QED  BY <4>1, <4>2
    <3>2. CASE q # p
      <4>1. PICK i \in (c + 1)..(n - 1) : kOld[q] = a[i] /\ kNew[q] = a[i + 1] /\ kNext[a[i]] = Null
        BY <3>2, <2>1, <2>4, <2>7
      <4>2. kOld'[q] = b[i] /\ kNew'[q] = b[i + 1] /\ kNext'[b[i]] = Null
        BY <4>1, <3>2, <2>5, <1>2, <1>6, <1>10
      <4>. QED  BY <4>2, <2>5
    <3>. QED  BY <3>1, <3>2
  <2>8. \A q, r \in Producers : kPc'[q] = "link" /\ kPc'[r] = "link" /\ kOld'[q] = kOld'[r] => q = r
    BY <2>1, <2>6, <1>1, <1>6, <1>7 DEF CacheLinks
  <2>. QED  BY <2>2, <2>3, <2>7, <2>8, <1>10, <1>12 DEF CacheLinks
<1>16. CacheItems(b, c)'
  <2>1. \A i \in ((c + 1) + 1)..(n + 1) : i = n + 1 \/ (i \in ((c + 1) + 1)..n /\ i \in 1..n)
    BY <1>9
  <2>2. Valued(b, kValue, c + 1, Len(b))'
    BY <2>1, <1>1, <1>2, <1>3, <1>10 DEF CacheItems, Valued, n
  <2>3. c + 2 <= n => c + 2 <= n + 1 /\ c + 2 \in 1..n
    BY <1>9
  <2>4. kCpc' = "take" => c + 2 <= Len(b) /\ kPopped' = b[c + 2] /\ kNext'[b[c + 1]] = b[c + 2]
    BY <2>3, <1>1, <1>2, <1>10, <1>12 DEF CacheItems, n
  <2>5. kCpc' = "delete" => kOut' \in Values
    BY <1>1, <1>2 DEF CacheItems
  <2>. QED  BY <2>2, <2>4, <2>5 DEF CacheItems
<1>17. CacheHead(b, c)'
  <2>1. c >= 1 => 2 \in 1..n
    BY <1>9
  <2>2. kBuffer' = b[1]
    BY <1>1, <1>2, <1>4, <1>9, <1>10 DEF CacheHead
  <2>. QED  BY <2>1, <2>2, <1>1, <1>2, <1>4, <1>6, <1>7, <1>10 DEF CacheHead
<1>18. b \in Seq(FewNodes) /\ CacheAll(b, c)'
  BY <1>10, <1>13, <1>14, <1>15, <1>16, <1>17 DEF CacheAll
<1>. QED  BY <1>3, <1>4, <1>5, <1>8, <1>18 DEF b

LEMMA CacheLinkStep ==
  ASSUME CacheTypes, CacheCalls, NEW a \in Seq(FewNodes), NEW c \in Nat, CacheAll(a, c), NEW p \in Producers,
         K!Link(p), UNCHANGED K!bufferVars
  PROVE  CacheTypes' /\ CacheCalls' /\ CacheAll(a, c)'
<1>. DEFINE n == Len(a)
<1>1. CacheCells(a, c) /\ CacheHands(a) /\ CacheLinks(a, c) /\ CacheItems(a, c) /\ CacheHead(a, c)
  BY DEF CacheAll
<1>2. /\ kPc[p] = "link" /\ kNext' = [kNext EXCEPT ![kOld[p]] = kNew[p]] /\ kPc' = [kPc EXCEPT ![p] = "idle"]
      /\ kNew' = [kNew EXCEPT ![p] = Null] /\ kOld' = [kOld EXCEPT ![p] = Null]
      /\ UNCHANGED <<kHead, kTail, kValue, kAlloc, kChain, kCpc, kPopped, kOut, kBuffer, kItem, kAfter, kCached, kOver>>
  BY DEF K!Link, K!EnqueueReturns, K!consumerVars, K!bufferVars
<1>3. ~CacheDestroying /\ ~CacheDestroying'
  <2>1. ~CacheDestroying
    BY <1>2 DEF CacheCalls
  <2>. QED  BY <2>1, <1>2 DEF CacheDestroying
<1>4. PICK k \in (c + 1)..(n - 1) : kOld[p] = a[k] /\ kNew[p] = a[k + 1] /\ kNext[a[k]] = Null
  BY <1>1, <1>2 DEF CacheLinks
<1>5. /\ n \in Nat /\ c < n /\ (\A i \in 1..n : a[i] \in FewNodes /\ a[i] \in ListNodes(a))
      /\ (\A i, j \in 1..n : a[i] = a[j] => i = j) /\ 1 \in 1..n /\ n \in 1..n /\ Null \notin FewNodes
  BY <1>1, <1>3, CacheFacts DEF CacheCells, CacheDestroying
<1>. HIDE DEF n
<1>6. k \in 1..n /\ k + 1 \in 1..n /\ k # n /\ k > c
  BY <1>5
<1>7. kNext'[a[k]] = a[k + 1] /\ \A y \in FewNodes : y # a[k] => kNext'[y] = kNext[y]
  BY <1>2, <1>4, <1>5, <1>6 DEF CacheTypes
<1>8. \A i \in 1..n : i # k => kNext'[a[i]] = kNext[a[i]]
  BY <1>5, <1>6, <1>7
<1>9. \A q \in Producers : q # p => kPc'[q] = kPc[q] /\ kNew'[q] = kNew[q] /\ kOld'[q] = kOld[q]
  BY <1>2 DEF CacheTypes
<1>10. kPc'[p] = "idle"
  BY <1>2 DEF CacheTypes
<1>11. CacheTypes'
  <2>1. kNext' \in [FewNodes -> FewNodes \cup {Null}]
    BY <1>2, <1>4, <1>5, <1>6 DEF CacheTypes
  <2>2. kPc' \in [Producers -> {"idle", "check", "next", "cas", "exchange", "link"}] /\ kNew' \in [Producers -> FewNodes \cup {Null}]
    BY <1>2 DEF CacheTypes
  <2>3. kOld' \in [Producers -> FewNodes \cup {Null}]
    BY <1>2 DEF CacheTypes
  <2>. QED  BY <2>1, <2>2, <2>3, <1>2 DEF CacheTypes
<1>12. CacheCalls'
  BY <1>2, <1>3, <1>9, <1>10 DEF CacheCalls
<1>13. CacheCells(a, c)'
  BY <1>1, <1>2 DEF CacheCells
<1>14. CacheHands(a)'
  <2>1. \A q \in Producers : (kPc'[q] = "exchange" <=> kPc[q] = "exchange") /\ (kPc[q] = "exchange" => kNew'[q] = kNew[q])
    BY <1>2, <1>9, <1>10
  <2>2. {kNew'[q] : q \in {r \in Producers : kPc'[r] = "exchange"}} = {kNew[q] : q \in {r \in Producers : kPc[r] = "exchange"}}
    BY <2>1
  <2>3. \A q \in Producers : kPc[q] = "exchange" => kNext'[kNew[q]] = Null
    BY <1>1, <1>5, <1>6, <1>7 DEF CacheHands
  <2>4. \A q \in Producers : kPc'[q] = "exchange" =>
          kNew'[q] \in FewNodes /\ kNew'[q] \notin ListNodes(a) /\ kNext'[kNew'[q]] = Null /\ kValue'[kNew'[q]] \in Values
    BY <2>1, <2>3, <1>1, <1>2 DEF CacheHands
  <2>5. \A q, r \in Producers : kPc'[q] = "exchange" /\ kPc'[r] = "exchange" /\ kNew'[q] = kNew'[r] => q = r
    BY <2>1, <1>1 DEF CacheHands
  <2>. QED  BY <2>2, <2>4, <2>5, <1>1, <1>2 DEF CacheHands
<1>15. CacheLinks(a, c)'
  <2>1. \A q \in Producers : kPc'[q] = "link" <=> kPc[q] = "link" /\ q # p
    BY <1>9, <1>10
  <2>2. \A q \in Producers : kPc[q] = "link" /\ q # p => kOld[q] # a[k]
    BY <1>1, <1>2, <1>4 DEF CacheLinks
  <2>3. kNext'[a[n]] = Null
    BY <1>1, <1>5, <1>6, <1>8 DEF CacheLinks, n
  <2>4. ASSUME NEW i \in 1..(n - 1)
        PROVE  \/ kNext'[a[i]] = a[i + 1]
               \/ i > c /\ kNext'[a[i]] = Null /\ \E q \in Producers : kPc'[q] = "link" /\ kOld'[q] = a[i]
    <3>1. CASE i = k
      BY <3>1, <1>7
    <3>2. CASE i # k
      <4>1. i \in 1..n
        BY <1>5
      <4>2. \/ kNext[a[i]] = a[i + 1]
            \/ i > c /\ kNext[a[i]] = Null /\ \E q \in Producers : kPc[q] = "link" /\ kOld[q] = a[i]
        BY <1>1, <1>3 DEF CacheLinks, n
      <4>3. a[i] # a[k]
        BY <4>1, <3>2, <1>5, <1>6
      <4>. QED  BY <4>1, <4>2, <4>3, <3>2, <2>1, <1>4, <1>8, <1>9
    <3>. QED  BY <3>1, <3>2
  <2>5. ASSUME NEW q \in Producers, kPc'[q] = "link"
        PROVE  \E i \in (c + 1)..(n - 1) : kOld'[q] = a[i] /\ kNew'[q] = a[i + 1] /\ kNext'[a[i]] = Null
    <3>1. PICK i \in (c + 1)..(n - 1) : kOld[q] = a[i] /\ kNew[q] = a[i + 1] /\ kNext[a[i]] = Null
      BY <2>1, <2>5, <1>1 DEF CacheLinks, n
    <3>2. i \in 1..n
      BY <1>5
    <3>3. i # k
      BY <3>1, <2>1, <2>2, <2>5
    <3>. QED  BY <3>1, <3>2, <3>3, <2>1, <2>5, <1>8, <1>9
  <2>6. \A q, r \in Producers : kPc'[q] = "link" /\ kPc'[r] = "link" /\ kOld'[q] = kOld'[r] => q = r
    BY <2>1, <1>1, <1>9 DEF CacheLinks
  <2>. QED  BY <2>3, <2>4, <2>5, <2>6 DEF CacheLinks, n
<1>16. CacheItems(a, c)'
  <2>1. kCpc = "take" => kNext'[a[c + 1]] = a[c + 2]
    <3>. SUFFICES ASSUME kCpc = "take" PROVE kNext'[a[c + 1]] = a[c + 2]
      OBVIOUS
    <3>1. c + 2 <= n /\ kNext[a[c + 1]] = a[c + 2]
      BY <1>1 DEF CacheItems, n
    <3>2. c + 1 \in 1..n /\ c + 2 \in 1..n
      BY <3>1, <1>5
    <3>3. c + 1 # k
      BY <3>1, <3>2, <1>4, <1>5
    <3>. QED  BY <3>1, <3>2, <3>3, <1>8
  <2>. QED  BY <2>1, <1>1, <1>2 DEF CacheItems, Valued
<1>17. CacheHead(a, c)'
  BY <1>1, <1>2, <1>3, <1>9, <1>10 DEF CacheHead
<1>. QED  BY <1>11, <1>12, <1>13, <1>14, <1>15, <1>16, <1>17 DEF CacheAll

\* The consumer passes a node, which is cached then.
LEMMA CacheDequeueStep ==
  ASSUME CacheTypes, CacheCalls, NEW a \in Seq(FewNodes), NEW c \in Nat, CacheAll(a, c), K!TakeKept
  PROVE  /\ CacheTypes' /\ CacheCalls' /\ CacheAll(a, c + 1)' /\ ~CacheDestroying /\ c + 2 <= Len(a)
         /\ kOut' = kValue[a[c + 2]] /\ Same(a, kValue, a, kValue', (c + 1) + 1, Len(a))
<1>. DEFINE n == Len(a)
<1>1. CacheCells(a, c) /\ CacheHands(a) /\ CacheLinks(a, c) /\ CacheItems(a, c) /\ CacheHead(a, c)
  BY DEF CacheAll
<1>2. /\ kCpc = "take" /\ kOut' = kValue[kPopped] /\ kTail' = kPopped /\ kValue' = [kValue EXCEPT ![kPopped] = None]
      /\ kChain' = Tail(kChain) /\ kCpc' = "delete" /\ kCached' = Append(kCached, kTail)
      /\ UNCHANGED <<kHead, kNext, kAlloc, kPc, kNew, kOld, kBuffer, kItem, kAfter, kOver>>
  BY DEF K!TakeKept, K!Take, K!producerVars
<1>3. ~CacheDestroying /\ ~CacheDestroying'
  BY <1>2 DEF CacheDestroying
<1>4. /\ n \in Nat /\ c < n /\ (\A i \in 1..n : a[i] \in FewNodes /\ a[i] \in ListNodes(a))
      /\ (\A i, j \in 1..n : a[i] = a[j] => i = j) /\ a[c + 1] = kTail /\ a[n] = kHead
      /\ n = c + Len(kChain) /\ Len(kChain) \in Nat /\ (\A i \in 1..Len(kChain) : a[c + i] = kChain[i])
  <2>1. c < n /\ a[c + 1] = kTail /\ a[n] = kHead
    BY <1>1, <1>2 DEF CacheCells
  <2>. QED  BY <2>1, <1>1, CacheFacts
<1>5. c + 2 <= n /\ kPopped = a[c + 2] /\ kNext[a[c + 1]] = a[c + 2]
  BY <1>1, <1>2 DEF CacheItems
<1>6. kCached' \in Seq(FewNodes) /\ kChain' \in Seq(FewNodes) /\ Len(kCached') = c + 1 /\ a = kCached' \o kChain'
  <2>1. kCached \in Seq(FewNodes) /\ kChain \in Seq(FewNodes) /\ Len(kCached) = c /\ a = kCached \o kChain
    BY <1>1 DEF CacheCells
  <2>2. Len(kChain) # 0 /\ 1 \in 1..Len(kChain)
    BY <1>4
  <2>3. kTail = kChain[1] /\ kTail \in FewNodes
    <3>1. kChain[1] \in FewNodes
      BY <2>1, <2>2, SeqIs
    <3>. QED  BY <3>1, <2>2, <1>4
  <2>4. Append(kCached, kChain[1]) \o Tail(kChain) = kCached \o kChain
    BY <2>1, <2>2, ConcatMove
  <2>5. Tail(kChain) \in Seq(FewNodes)
    BY <2>1, <2>2, TailList
  <2>6. Append(kCached, kTail) \in Seq(FewNodes) /\ Len(Append(kCached, kTail)) = Len(kCached) + 1
    BY <2>1, <2>3, AppendList
  <2>. QED  BY <2>1, <2>3, <2>4, <2>5, <2>6, <1>2
<1>. HIDE DEF n
<1>7. c + 2 \in 1..n /\ c + 1 \in 1..n /\ (c + 1) + 1 = c + 2 /\ c + 1 <= n /\ c + 1 < n /\ c + 1 \in 1..(n - 1)
  BY <1>4, <1>5
<1>8. \A y \in FewNodes : y # a[c + 2] => kValue'[y] = kValue[y]
  BY <1>2, <1>5 DEF CacheTypes
<1>9. \A i \in 1..n : i # c + 2 => kValue'[a[i]] = kValue[a[i]]
  BY <1>4, <1>7, <1>8
<1>10. \A i \in (((c + 1) + 1) + 1)..n : i \in ((c + 1) + 1)..n /\ i \in 1..n /\ i # c + 2
  BY <1>4
<1>11. Same(a, kValue, a, kValue', (c + 1) + 1, n)
  BY <1>9, <1>10 DEF Same
<1>12. CacheTypes'
  <2>1. kValue' \in [FewNodes -> Values \cup {None}]
    BY <1>2 DEF CacheTypes
  <2>. QED  BY <2>1, <1>2 DEF CacheTypes
<1>13. CacheCalls'
  BY <1>2, <1>3 DEF CacheCalls
<1>14. CacheCells(a, c + 1)'
  <2>1. a[(c + 1) + 1] = kTail' /\ a[n] = kHead' /\ kCpc' # "destroyed"
    BY <1>2, <1>4, <1>5, <1>7
  <2>2. Distinct(a)
    BY <1>1 DEF CacheCells
  <2>. QED  BY <2>1, <2>2, <1>6, <1>7 DEF CacheCells, n
<1>15. CacheHands(a)'
  <2>1. \A p \in Producers : kPc[p] = "exchange" => kValue'[kNew[p]] \in Values
    BY <1>1, <1>4, <1>7, <1>8 DEF CacheHands
  <2>. QED  BY <2>1, <1>1, <1>2 DEF CacheHands
<1>16. CacheLinks(a, c + 1)'
  <2>1. kNext[a[n]] = Null
    BY <1>1, <1>4 DEF CacheLinks, n
  <2>2. ASSUME NEW i \in 1..(n - 1)
        PROVE  \/ kNext[a[i]] = a[i + 1]
               \/ i > c + 1 /\ kNext[a[i]] = Null /\ \E q \in Producers : kPc[q] = "link" /\ kOld[q] = a[i]
    <3>1. \/ kNext[a[i]] = a[i + 1]
          \/ i > c /\ kNext[a[i]] = Null /\ \E q \in Producers : kPc[q] = "link" /\ kOld[q] = a[i]
      BY <1>1, <1>3 DEF CacheLinks, n
    <3>2. CASE i = c + 1
      BY <3>2, <1>5, <1>7
    <3>3. CASE i # c + 1
      <4>1. i > c => i > c + 1
        BY <3>3
      <4>. QED  BY <3>1, <4>1
    <3>. QED  BY <3>2, <3>3
  <2>3. ASSUME NEW q \in Producers, kPc[q] = "link"
        PROVE  \E i \in ((c + 1) + 1)..(n - 1) : kOld[q] = a[i] /\ kNew[q] = a[i + 1] /\ kNext[a[i]] = Null
    <3>1. PICK i \in (c + 1)..(n - 1) : kOld[q] = a[i] /\ kNew[q] = a[i + 1] /\ kNext[a[i]] = Null
      BY <2>3, <1>1 DEF CacheLinks, n
    <3>2. a[c + 2] # Null
      BY <1>4, <1>7, NodesAssumption
    <3>3. i # c + 1
      BY <3>1, <3>2, <1>5
    <3>4. i \in ((c + 1) + 1)..(n - 1)
      BY <3>3, <1>4
    <3>. QED  BY <3>1, <3>4
  <2>4. \A q, r \in Producers : kPc[q] = "link" /\ kPc[r] = "link" /\ kOld[q] = kOld[r] => q = r
    BY <1>1 DEF CacheLinks
  <2>. QED  BY <2>1, <2>2, <2>3, <2>4, <1>2 DEF CacheLinks, n
<1>17. CacheItems(a, c + 1)'
  <2>1. \A i \in (((c + 1) + 1) + 1)..n : kValue'[a[i]] \in Values
    BY <1>1, <1>9, <1>10 DEF CacheItems, Valued, n
  <2>2. c + 2 \in ((c + 1) + 1)..n
    BY <1>4, <1>5
  <2>3. kOut' \in Values
    BY <2>2, <1>1, <1>2, <1>5 DEF CacheItems, Valued, n
  <2>. QED  BY <2>1, <2>3, <1>2 DEF CacheItems, Valued, n
<1>18. CacheHead(a, c + 1)'
  <2>1. c >= 1 => c + 1 >= 1
    OBVIOUS
  <2>. QED  BY <2>1, <1>1, <1>2, <1>3 DEF CacheHead
<1>. QED  BY <1>2, <1>3, <1>5, <1>11, <1>12, <1>13, <1>14, <1>15, <1>16, <1>17, <1>18 DEF CacheAll, n

\* The destructor deletes the first node after the cached ones.
LEMMA CacheDestroyStep ==
  ASSUME CacheTypes, CacheCalls, NEW a \in Seq(FewNodes), NEW c \in Nat, CacheAll(a, c),
         K!DestroyNode, UNCHANGED K!bufferVars
  PROVE  CacheTypes' /\ CacheCalls' /\ \E b \in Seq(FewNodes) : CacheAll(b, c)'
<1>. DEFINE n == Len(a)
<1>1. CacheCells(a, c) /\ CacheHands(a) /\ CacheLinks(a, c) /\ CacheItems(a, c) /\ CacheHead(a, c)
  BY DEF CacheAll
<1>2. /\ kCpc = "destroy" /\ kTail' = kNext[kTail] /\ kAlloc' = kAlloc \ {kTail} /\ kChain' = Tail(kChain)
      /\ kCpc' = IF kTail' = Null THEN "destroyed" ELSE "destroy"
      /\ UNCHANGED <<kHead, kNext, kValue, kPc, kNew, kOld, kPopped, kOut, kBuffer, kItem, kAfter, kCached, kOver>>
  BY DEF K!DestroyNode, K!producerVars, K!bufferVars
<1>3. CacheDestroying /\ CacheDestroying' /\ kCpc # "destroyed"
  BY <1>2 DEF CacheDestroying
<1>4. \A p \in Producers : kPc[p] = "idle"
  BY <1>3 DEF CacheCalls
<1>5. /\ n \in Nat /\ c < n /\ (\A i \in 1..n : a[i] \in FewNodes /\ a[i] \in ListNodes(a))
      /\ (\A i, j \in 1..n : a[i] = a[j] => i = j) /\ a[c + 1] = kTail /\ a[n] = kHead
      /\ n = c + Len(kChain) /\ Len(kChain) \in Nat /\ (\A i \in 1..Len(kChain) : a[c + i] = kChain[i])
      /\ (\A i \in 1..c : a[i] = kCached[i]) /\ Null \notin FewNodes
  <2>1. c < n /\ a[c + 1] = kTail /\ a[n] = kHead
    BY <1>1, <1>3 DEF CacheCells
  <2>. QED  BY <2>1, <1>1, CacheFacts
<1>6. kCached \in Seq(FewNodes) /\ kChain \in Seq(FewNodes) /\ Len(kCached) = c /\ Len(kChain) # 0
  <2>1. kCached \in Seq(FewNodes) /\ kChain \in Seq(FewNodes) /\ Len(kCached) = c
    BY <1>1 DEF CacheCells
  <2>2. Len(kChain) # 0
    BY <1>5
  <2>. QED  BY <2>1, <2>2
<1>7. /\ kChain' \in Seq(FewNodes) /\ Len(kChain') = Len(kChain) - 1
      /\ \A i \in 1..(Len(kChain) - 1) : kChain'[i] = kChain[i + 1]
  BY <1>2, <1>6, TailList
<1>8. PICK b \in Seq(FewNodes) : b = kCached' \o kChain'
  <2>1. kCached' \in Seq(FewNodes) /\ kChain' \in Seq(FewNodes)
    BY <1>2, <1>6, <1>7
  <2>. QED  BY <2>1, ConcatIs
<1>9. /\ Len(b) = c + Len(kChain') /\ (\A i \in 1..c : b[i] = kCached[i])
      /\ \A i \in 1..Len(kChain') : b[c + i] = kChain'[i]
  <2>1. kCached' \in Seq(FewNodes) /\ kChain' \in Seq(FewNodes) /\ kCached' = kCached /\ Len(kCached') = c
    BY <1>2, <1>6, <1>7
  <2>2. /\ Len(b) = Len(kCached') + Len(kChain') /\ (\A i \in 1..Len(kCached') : b[i] = kCached'[i])
        /\ \A i \in 1..Len(kChain') : b[Len(kCached') + i] = kChain'[i]
    BY <2>1, <1>8, ConcatIs
  <2>. QED  BY <2>1, <2>2
<1>. HIDE DEF n
<1>10. Len(b) = n - 1 /\ n \in 1..n /\ c + 1 \in 1..n /\ c + 1 \in (c + 1)..n /\ c <= n - 1
  BY <1>5, <1>7, <1>9
<1>11. \A i \in 1..(n - 1) : b[i] = IF i <= c THEN a[i] ELSE a[i + 1]
  <2>. SUFFICES ASSUME NEW i \in 1..(n - 1) PROVE b[i] = IF i <= c THEN a[i] ELSE a[i + 1]
    OBVIOUS
  <2>1. CASE i <= c
    <3>1. i \in 1..c
      BY <2>1
    <3>. QED  BY <2>1, <3>1, <1>5, <1>9
  <2>2. CASE ~(i <= c)
    <3>. DEFINE j == i - c
    <3>1. j \in 1..(Len(kChain) - 1) /\ c + j = i /\ j + 1 \in 1..Len(kChain) /\ c + (j + 1) = i + 1
      BY <2>2, <1>5
    <3>. HIDE DEF j
    <3>2. b[i] = kChain'[j] /\ kChain'[j] = kChain[j + 1]
      BY <3>1, <1>7, <1>9
    <3>3. kChain[j + 1] = a[i + 1]
      BY <3>1, <1>5
    <3>. QED  BY <2>2, <3>2, <3>3
  <2>. QED  BY <2>1, <2>2
<1>12. \A i \in 1..(n - 1) : i \in 1..n /\ i + 1 \in 1..n
  BY <1>5
<1>13. ASSUME NEW i \in 1..(n - 1) PROVE \E j \in 1..n : b[i] = a[j] /\ j # c + 1 /\ j = IF i <= c THEN i ELSE i + 1
  <2>1. CASE i <= c
    <3>1. i # c + 1
      BY <2>1
    <3>. QED  BY <2>1, <3>1, <1>11, <1>12
  <2>2. CASE ~(i <= c)
    <3>1. i + 1 # c + 1
      BY <2>2
    <3>. QED  BY <2>2, <3>1, <1>11, <1>12
  <2>. QED  BY <2>1, <2>2
<1>14. Distinct(b)
  <2>. SUFFICES ASSUME NEW i \in 1..(n - 1), NEW j \in 1..(n - 1), b[i] = b[j] PROVE i = j
    BY <1>10 DEF Distinct
  <2>1. PICK k \in 1..n : b[i] = a[k] /\ k = IF i <= c THEN i ELSE i + 1
    BY <1>13
  <2>2. PICK m \in 1..n : b[j] = a[m] /\ m = IF j <= c THEN j ELSE j + 1
    BY <1>13
  <2>3. k = m
    BY <2>1, <2>2, <1>5
  <2>. QED  BY <2>1, <2>2, <2>3
<1>15. ListNodes(b) = ListNodes(a) \ {kTail}
  <2>1. ASSUME NEW y \in ListNodes(b) PROVE y \in ListNodes(a) \ {kTail}
    <3>1. PICK i \in 1..(n - 1) : y = b[i]
      BY <1>10 DEF ListNodes
    <3>2. PICK j \in 1..n : b[i] = a[j] /\ j # c + 1
      BY <1>13
    <3>. QED  BY <3>1, <3>2, <1>5, <1>10
  <2>2. ASSUME NEW y \in ListNodes(a), y # kTail PROVE y \in ListNodes(b)
    <3>1. PICK j \in 1..n : y = a[j]
      BY DEF ListNodes, n
    <3>2. j # c + 1
      BY <3>1, <2>2, <1>5
    <3>3. PICK i \in 1..(n - 1) : b[i] = a[j]
      <4>1. CASE j <= c
        <5>1. j \in 1..(n - 1)
          BY <4>1, <1>5
        <5>. QED  BY <5>1, <4>1, <1>11
      <4>2. CASE ~(j <= c)
        <5>1. j - 1 \in 1..(n - 1) /\ ~(j - 1 <= c) /\ (j - 1) + 1 = j
          BY <4>2, <3>2, <1>5
        <5>. QED  BY <5>1, <1>11
      <4>. QED  BY <4>1, <4>2
    <3>. QED  BY <3>1, <3>3, <1>10 DEF ListNodes
  <2>. QED  BY <2>1, <2>2
\* m_tail's next is the next node, or there is none.
<1>16. IF c + 1 = n THEN kTail' = Null ELSE kTail' = a[(c + 1) + 1] /\ kTail' # Null
  <2>1. CASE c + 1 = n
    BY <2>1, <1>1, <1>2, <1>5 DEF CacheLinks, n
  <2>2. CASE c + 1 # n
    <3>1. c + 1 \in 1..(n - 1) /\ c + 1 > c
      BY <2>2, <1>5
    <3>2. kNext[a[c + 1]] = a[(c + 1) + 1]
      BY <3>1, <1>1, <1>4 DEF CacheLinks, n
    <3>. QED  BY <3>1, <3>2, <2>2, <1>2, <1>5, <1>12
  <2>. QED  BY <2>1, <2>2
<1>17. CacheTypes' /\ CacheCalls'
  <2>1. kCpc' \in {"idle", "empty", "take", "delete", "destroy", "destroyed"}
    BY <1>2
  <2>. QED  BY <2>1, <1>2, <1>4 DEF CacheTypes, CacheCalls
<1>18. CacheCells(b, c)'
  <2>1. kCached' \in Seq(FewNodes) /\ c = Len(kCached')
    BY <1>2, <1>6
  <2>2. IF kCpc' = "destroyed" THEN c = n - 1 ELSE c < n - 1 /\ b[c + 1] = kTail' /\ b[n - 1] = kHead'
    <3>1. CASE c + 1 = n
      <4>1. c = n - 1
        BY <3>1, <1>5
      <4>. QED  BY <3>1, <4>1, <1>2, <1>16
    <3>2. CASE c + 1 # n
      <4>1. c < n - 1 /\ c + 1 \in 1..(n - 1) /\ ~(c + 1 <= c) /\ n - 1 \in 1..(n - 1) /\ ~(n - 1 <= c) /\ (n - 1) + 1 = n
        BY <3>2, <1>5
      <4>2. b[c + 1] = a[(c + 1) + 1] /\ b[n - 1] = a[n]
        BY <4>1, <1>11
      <4>3. kCpc' # "destroyed"
        BY <3>2, <1>2, <1>16
      <4>. QED  BY <3>2, <4>1, <4>2, <4>3, <1>2, <1>5, <1>16
    <3>. QED  BY <3>1, <3>2
  <2>. QED  BY <2>1, <2>2, <1>7, <1>8, <1>10, <1>14 DEF CacheCells
<1>19. CacheHands(b)'
  <2>1. {kNew[q] : q \in {r \in Producers : kPc[r] = "exchange"}} = {}
    BY <1>4
  <2>. QED  BY <2>1, <1>1, <1>2, <1>4, <1>15 DEF CacheHands
<1>20. CacheLinks(b, c)'
  <2>1. c < n - 1 => kNext[b[n - 1]] = Null
    <3>. SUFFICES ASSUME c < n - 1 PROVE kNext[b[n - 1]] = Null
      OBVIOUS
    <3>1. n - 1 \in 1..(n - 1) /\ ~(n - 1 <= c) /\ (n - 1) + 1 = n
      BY <1>5
    <3>2. b[n - 1] = a[n]
      BY <3>1, <1>11
    <3>. QED  BY <3>2, <1>1, <1>5 DEF CacheLinks, n
  <2>2. ASSUME NEW i \in 1..((n - 1) - 1), i > c PROVE kNext[b[i]] = b[i + 1]
    <3>1. /\ i \in 1..(n - 1) /\ ~(i <= c) /\ i + 1 \in 1..(n - 1) /\ ~(i + 1 <= c) /\ i + 1 > c
      BY <2>2, <1>5
    <3>2. b[i] = a[i + 1] /\ b[i + 1] = a[(i + 1) + 1]
      BY <3>1, <1>11
    <3>3. kNext[a[i + 1]] = a[(i + 1) + 1]
      BY <3>1, <1>1, <1>4 DEF CacheLinks, n
    <3>. QED  BY <3>2, <3>3
  <2>. QED  BY <2>1, <2>2, <1>2, <1>3, <1>4, <1>10 DEF CacheLinks
<1>21. CacheItems(b, c)'
  <2>. SUFFICES ASSUME NEW i \in ((c + 1) + 1)..(n - 1) PROVE kValue[b[i]] \in Values
    BY <1>2, <1>10 DEF CacheItems, Valued
  <2>1. i \in 1..(n - 1) /\ ~(i <= c) /\ i + 1 \in ((c + 1) + 1)..n
    BY <1>5
  <2>2. b[i] = a[i + 1]
    BY <2>1, <1>11
  <2>. QED  BY <2>1, <2>2, <1>1 DEF CacheItems, Valued, n
<1>22. CacheHead(b, c)'
  BY <1>3 DEF CacheHead
<1>. QED  BY <1>8, <1>17, <1>18, <1>19, <1>20, <1>21, <1>22 DEF CacheAll

LEMMA CacheStep == CacheInv /\ [K!BufNext]_kVars => CacheInv'
<1>. SUFFICES ASSUME CacheInv, [K!BufNext]_kVars, ~kStale' PROVE CacheKept'
  BY DEF CacheInv
<1>1. CASE UNCHANGED kVars
  <2>1. ~kStale
    BY <1>1, Zenon DEF kVars
  <2>2. CacheKept
    BY <2>1 DEF CacheInv
  <2>3. PICK a \in Seq(FewNodes), c \in Nat : CacheAll(a, c)
    BY <2>2 DEF CacheKept
  <2>4. CacheCells(a, c)' /\ CacheHands(a)'
    BY <1>1, <2>3 DEF kVars, CacheAll, CacheCells, CacheHands
  <2>5. CacheLinks(a, c)' /\ CacheItems(a, c)' /\ CacheHead(a, c)'
    BY <1>1, <2>3 DEF kVars, CacheAll, CacheLinks, CacheItems, CacheHead, CacheDestroying
  <2>6. CacheTypes' /\ CacheCalls'
    BY <1>1, <2>2 DEF kVars, CacheKept, CacheTypes, CacheCalls, CacheDestroying
  <2>. QED  BY <2>4, <2>5, <2>6 DEF CacheKept, CacheAll
<1>2. CASE K!BufNext
  <2>1. CacheKept
    BY <1>2 DEF K!BufNext, CacheInv
  <2>2. PICK a \in Seq(FewNodes), c \in Nat : CacheAll(a, c)
    BY <2>1 DEF CacheKept
  <2>3. CacheTypes /\ CacheCalls
    BY <2>1 DEF CacheKept
  <2>4. ASSUME NEW p \in Producers,
               K!Check(p) \/ K!ReadNext(p) \/ K!CasFails(p) \/ \E v \in Values : K!EnqueueBuffered(p, v)
        PROVE  CacheKept'
    BY <2>2, <2>3, <2>4, CacheProducerSteps DEF CacheKept
  <2>5. ASSUME NEW p \in Producers, K!AllocNew(p) PROVE CacheKept'
    BY <2>2, <2>3, <2>5, CacheAllocStep DEF CacheKept
  <2>6. ASSUME NEW p \in Producers, K!CasTakes(p) PROVE CacheKept'
    <3>1. c - 1 \in Nat /\ Tail(a) \in Seq(FewNodes) /\ CacheTypes' /\ CacheCalls' /\ CacheAll(Tail(a), c - 1)'
      BY <2>2, <2>3, <2>6, CacheTakeStep
    <3>. QED  BY <3>1 DEF CacheKept
  <2>7. ASSUME NEW p \in Producers, K!ProducerStep(p), UNCHANGED K!bufferVars PROVE CacheKept'
    <3>1. CASE K!Link(p)
      BY <2>2, <2>3, <2>7, <3>1, CacheLinkStep DEF CacheKept
    <3>2. CASE K!Exchange(p)
      <4>1. PICK x \in FewNodes : x = kNew[p]
        BY <2>2, <2>3, <2>7, <3>2, CacheExchangeStep
      <4>2. CacheTypes' /\ CacheCalls' /\ Append(a, x) \in Seq(FewNodes) /\ CacheAll(Append(a, x), c)'
        BY <2>2, <2>3, <2>7, <3>2, <4>1, CacheExchangeStep
      <4>. QED  BY <4>2 DEF CacheKept
    <3>. QED  BY <2>7, <3>1, <3>2 DEF K!ProducerStep
  <2>8. CASE K!TakeKept
    <3>1. CacheTypes' /\ CacheCalls' /\ CacheAll(a, c + 1)' /\ c + 1 \in Nat
      BY <2>2, <2>3, <2>8, CacheDequeueStep
    <3>. QED  BY <3>1 DEF CacheKept
  <2>9. CASE K!Keep
    <3>1. UNCHANGED K!bufferVars
      BY <2>9 DEF K!Keep
    <3>. QED  BY <2>2, <2>3, <2>9, <3>1, CacheConsumerSteps DEF CacheKept
  <2>10. CASE (K!TryDequeue \/ K!ReturnFalse \/ K!Destroy) /\ UNCHANGED K!bufferVars
    BY <2>2, <2>3, <2>10, CacheConsumerSteps DEF CacheKept
  <2>11. CASE K!DestroyNode /\ UNCHANGED K!bufferVars
    BY <2>2, <2>3, <2>11, CacheDestroyStep DEF CacheKept
  <2>. QED  BY <1>2, <2>4, <2>5, <2>6, <2>7, <2>8, <2>9, <2>10, <2>11 DEF K!BufNext
<1>. QED  BY <1>1, <1>2

LEMMA CacheBehaviour == MCSpec => K!BufInit /\ [][K!BufNext]_kVars
<1>1. MCInit => K!BufInit
  BY DEF MCInit
<1>2. [MCNext]_mcVars => [K!BufNext]_kVars
  BY DEF MCNext, mcVars
<1>. QED  BY <1>1, <1>2, PTL DEF MCSpec

LEMMA CacheOwns == CacheInv => K!OwnedUntilStale
<1>. SUFFICES ASSUME CacheKept PROVE K!CacheOwned
  BY DEF CacheInv, K!OwnedUntilStale
<1>1. PICK a \in Seq(FewNodes), c \in Nat : CacheAll(a, c)
  BY DEF CacheKept
<1>2. CacheTypes /\ CacheCalls /\ CacheCells(a, c) /\ CacheHands(a) /\ CacheLinks(a, c) /\ CacheItems(a, c) /\ CacheHead(a, c)
  BY <1>1 DEF CacheKept, CacheAll
<1>. DEFINE n == Len(a)   m == Len(kChain)
<1>3. /\ n \in Nat /\ (\A i \in 1..n : a[i] \in FewNodes /\ a[i] \in ListNodes(a))
      /\ (\A i, j \in 1..n : a[i] = a[j] => i = j) /\ Null \notin FewNodes
      /\ c = Len(kCached) /\ n = c + m /\ m \in Nat
      /\ (\A i \in 1..m : a[c + i] = kChain[i] /\ c + i \in 1..n) /\ (\A i \in 1..c : a[i] = kCached[i] /\ i \in 1..n)
  BY <1>2, CacheFacts
<1>4. kChain \in Seq(FewNodes) /\ a = kCached \o kChain
  BY <1>2 DEF CacheCells
<1>5. kChain # << >> <=> m # 0
  BY <1>4, SeqIs
<1>6. IF kCpc = "destroyed" THEN c = n ELSE c < n /\ a[c + 1] = kTail /\ a[n] = kHead
  BY <1>2 DEF CacheCells
<1>. HIDE DEF n, m
<1>7. kCpc # "destroyed" => kChain # << >> /\ kChain[1] = kTail /\ kChain[m] = kHead
  <2>. SUFFICES ASSUME kCpc # "destroyed" PROVE kChain # << >> /\ kChain[1] = kTail /\ kChain[m] = kHead
    OBVIOUS
  <2>1. m # 0 /\ 1 \in 1..m /\ m \in 1..m
    BY <1>3, <1>6
  <2>. QED  BY <2>1, <1>3, <1>5, <1>6
<1>8. \A i \in 1..m : \A j \in 1..m : kChain[i] = kChain[j] => i = j
  <2>. SUFFICES ASSUME NEW i \in 1..m, NEW j \in 1..m, kChain[i] = kChain[j] PROVE i = j
    OBVIOUS
  <2>1. c + i \in 1..n /\ c + j \in 1..n /\ a[c + i] = a[c + j]
    BY <1>3
  <2>2. \A x, y \in 1..n : a[x] = a[y] => x = y
    BY <1>3
  <2>3. c + i = c + j
    BY <2>1, <2>2
  <2>. QED  BY <2>3, <1>3
<1>9. kChain # << >> => kNext[kChain[m]] = Null
  <2>. SUFFICES ASSUME kChain # << >> PROVE kNext[kChain[m]] = Null
    OBVIOUS
  <2>1. m \in 1..m /\ c < n
    BY <1>3, <1>5
  <2>. QED  BY <2>1, <1>2, <1>3 DEF CacheLinks, n
<1>10. ASSUME NEW i \in 1..(m - 1)
       PROVE  \/ kNext[kChain[i]] = kChain[i + 1] /\ \A p \in Producers : K!Linking(p) => kOld[p] # kChain[i]
              \/ kNext[kChain[i]] = Null /\ \E p \in Producers :
                   K!Linking(p) /\ kOld[p] = kChain[i] /\ kNew[p] = kChain[i + 1]
  <2>. DEFINE k == c + i
  <2>1. i \in 1..m /\ i + 1 \in 1..m /\ c + (i + 1) = k + 1 /\ k \in 1..(n - 1) /\ k > c /\ k \in 1..n /\ k + 1 \in 1..n
    BY <1>3
  <2>2. kChain[i] = a[k] /\ kChain[i + 1] = a[k + 1]
    BY <2>1, <1>3
  <2>. HIDE DEF k
  <2>3. \A p \in Producers : kPc[p] = "link" /\ kOld[p] = a[k] => kNew[p] = a[k + 1] /\ kNext[a[k]] = Null
    <3>. SUFFICES ASSUME NEW p \in Producers, kPc[p] = "link", kOld[p] = a[k]
                  PROVE  kNew[p] = a[k + 1] /\ kNext[a[k]] = Null
      OBVIOUS
    <3>1. PICK j \in (c + 1)..(n - 1) : kOld[p] = a[j] /\ kNew[p] = a[j + 1] /\ kNext[a[j]] = Null
      BY <1>2 DEF CacheLinks, n
    <3>2. j \in 1..n
      BY <1>3
    <3>3. j = k
      BY <3>1, <3>2, <2>1, <1>3
    <3>. QED  BY <3>1, <3>3
  <2>4. \/ kNext[a[k]] = a[k + 1]
        \/ kNext[a[k]] = Null /\ \E p \in Producers : kPc[p] = "link" /\ kOld[p] = a[k]
    BY <2>1, <1>2 DEF CacheLinks, n
  <2>5. a[k + 1] # Null
    BY <2>1, <1>3
  <2>. QED  BY <2>2, <2>3, <2>4, <2>5 DEF K!Linking
<1>11. K!ChainLinked
  BY <1>7, <1>8, <1>9, <1>10 DEF K!ChainLinked, m
<1>. DEFINE hands == {p \in Producers : kPc[p] = "exchange"}
<1>12. K!ToSet(a) = ListNodes(a)
  <2>1. DOMAIN a = 1..Len(a)
    OBVIOUS
  <2>. QED  BY <2>1 DEF K!ToSet, ListNodes
<1>13. ~CacheDestroying => kBuffer = a[1] /\ \A i \in 1..c : kNext[kCached[i]] = a[i + 1]
  <2>. SUFFICES ASSUME ~CacheDestroying PROVE kBuffer = a[1] /\ \A i \in 1..c : kNext[kCached[i]] = a[i + 1]
    OBVIOUS
  <2>1. c < n
    BY <1>6 DEF CacheDestroying
  <2>2. \A i \in 1..c : i \in 1..(n - 1) /\ ~(i > c)
    BY <2>1, <1>3
  <2>3. \A i \in 1..c : kNext[a[i]] = a[i + 1]
    BY <2>2, <1>2 DEF CacheLinks, n
  <2>. QED  BY <2>3, <1>2, <1>3 DEF CacheHead
<1>14. \A p, q \in hands : kNew[p] \notin ListNodes(a) /\ (kNew[p] = kNew[q] => p = q)
  BY <1>2 DEF CacheHands
<1>15. kAlloc = ListNodes(a) \cup {kNew[p] : p \in hands}
  BY <1>2 DEF CacheHands
<1>. HIDE DEF hands
<1>16. /\ kCpc \notin {"destroy", "destroyed"} =>
            kBuffer = a[1] /\ \A i \in 1..Len(kCached) : kNext[kCached[i]] = a[i + 1]
       /\ \A i, j \in 1..Len(a) : a[i] = a[j] => i = j
       /\ \A p, q \in hands : kNew[p] \notin K!ToSet(a) /\ (kNew[p] = kNew[q] => p = q)
       /\ kAlloc = K!ToSet(a) \cup {kNew[p] : p \in hands}
  BY <1>3, <1>12, <1>13, <1>14, <1>15 DEF CacheDestroying, n
<1>. QED  BY <1>4, <1>11, <1>16, Zenon DEF K!CacheOwned, hands

\* What the buffered mpsc_queue holds and what its consumer has taken.
CacheQueued == [i \in 1..(Len(kChain) - 1) |-> kValue[kChain[i + 1]]]
CacheTaken  == [t \in {"consumer"} |-> IF kCpc = "delete" THEN kOut ELSE None]

\* They are the items after the node at m_tail.
CacheContent == ~kStale /\ ~CacheDestroying => \A a \in Seq(FewNodes), c \in Nat :
  CacheAll(a, c) => CacheQueued = Items(a, kValue, c + 1, Len(a))

LEMMA CacheItemsAre == CacheInv => CacheContent
<1>. SUFFICES ASSUME CacheKept, NEW a \in Seq(FewNodes), NEW c \in Nat, CacheAll(a, c)
              PROVE  CacheQueued = Items(a, kValue, c + 1, Len(a))
  BY DEF CacheInv, CacheContent
<1>1. Len(a) = c + Len(kChain) /\ Len(kChain) \in Nat /\ \A i \in 1..Len(kChain) : a[c + i] = kChain[i]
  BY CacheFacts DEF CacheKept, CacheAll
<1>2. Len(a) - (c + 1) = Len(kChain) - 1
  BY <1>1
<1>3. \A i \in 1..(Len(kChain) - 1) : i + 1 \in 1..Len(kChain) /\ (c + 1) + i = c + (i + 1)
  BY <1>1
<1>4. \A i \in 1..(Len(kChain) - 1) : a[(c + 1) + i] = kChain[i + 1]
  BY <1>1, <1>3
<1>. QED  BY <1>2, <1>4 DEF CacheQueued, Items

LEMMA CacheValued ==
  ASSUME CacheTypes, NEW a \in Seq(FewNodes), NEW c \in Nat, CacheAll(a, c), ~CacheDestroying
  PROVE  c + 1 \in Nat /\ Len(a) \in Nat /\ c + 1 <= Len(a) /\ Valued(a, kValue, c + 1, Len(a))
<1>1. Len(a) \in Nat /\ c + 1 \in 1..Len(a)
  BY CacheFacts DEF CacheAll, CacheDestroying
<1>. QED  BY <1>1 DEF CacheAll, CacheItems

LEMMA CacheAllocates ==
  ASSUME CacheKept, NEW p \in Producers, K!AllocNew(p)
  PROVE  CacheQueued' = CacheQueued
<1>1. PICK a \in Seq(FewNodes), c \in Nat : CacheAll(a, c)
  BY DEF CacheKept
<1>2. CacheTypes /\ CacheCells(a, c) /\ CacheHands(a)
  BY <1>1 DEF CacheKept, CacheAll
<1>3. PICK x \in FewNodes \ kAlloc : kValue' = [kValue EXCEPT ![x] = kItem[p]]
  BY DEF K!AllocNew
<1>4. kChain' = kChain
  BY DEF K!AllocNew
<1>5. /\ Len(kChain) \in Nat /\ (\A i \in 1..Len(a) : a[i] \in FewNodes /\ a[i] \in ListNodes(a))
      /\ \A i \in 1..Len(kChain) : a[c + i] = kChain[i] /\ c + i \in 1..Len(a)
  BY <1>2, CacheFacts
<1>6. \A y \in ListNodes(a) : y # x
  BY <1>2, <1>3 DEF CacheHands
<1>7. \A i \in 1..Len(kChain) : kValue'[kChain[i]] = kValue[kChain[i]]
  <2>. SUFFICES ASSUME NEW i \in 1..Len(kChain) PROVE kValue'[kChain[i]] = kValue[kChain[i]]
    OBVIOUS
  <2>1. kChain[i] \in FewNodes /\ kChain[i] # x
    BY <1>5, <1>6
  <2>. QED  BY <2>1, <1>2, <1>3 DEF CacheTypes
<1>8. \A i \in 1..(Len(kChain) - 1) : i + 1 \in 1..Len(kChain)
  BY <1>5
<1>. QED  BY <1>4, <1>7, <1>8 DEF CacheQueued

LEMMA CacheReuses ==
  ASSUME CacheKept, NEW p \in Producers, K!CasTakes(p), ~kStale, ~kStale', CacheContent, CacheContent'
  PROVE  CacheQueued' = CacheQueued
<1>1. PICK a \in Seq(FewNodes), c \in Nat : CacheAll(a, c)
  BY DEF CacheKept
<1>2. CacheTypes /\ CacheCalls
  BY DEF CacheKept
<1>3. ~CacheDestroying /\ ~CacheDestroying'
  <2>1. kPc[p] # "idle" /\ kCpc' = kCpc
    BY DEF K!CasTakes, K!consumerVars
  <2>2. ~CacheDestroying
    BY <2>1, <1>2 DEF CacheCalls
  <2>. QED  BY <2>1, <2>2 DEF CacheDestroying
<1>4. /\ c >= 1 /\ c - 1 \in Nat /\ Tail(a) \in Seq(FewNodes) /\ CacheAll(Tail(a), c - 1)'
      /\ Shifted(a, kValue, Tail(a), kValue', c + 1, Len(a)) /\ Len(Tail(a)) = Len(a) - 1
  BY <1>1, <1>2, CacheTakeStep
<1>5. CacheQueued = Items(a, kValue, c + 1, Len(a))
  BY <1>1, <1>3 DEF CacheContent
<1>6. \A b \in Seq(FewNodes), d \in Nat : CacheAll(b, d)' => CacheQueued' = Items(b, kValue', d + 1, Len(b))
  BY <1>3 DEF CacheContent
<1>7. CacheQueued' = Items(Tail(a), kValue', (c - 1) + 1, Len(a) - 1)
  BY <1>4, <1>6
<1>8. c + 1 \in Nat /\ Len(a) \in Nat /\ c + 1 > 0 /\ (c - 1) + 1 = (c + 1) - 1
  BY <1>1, <1>2, <1>3, CacheValued
<1>9. Items(Tail(a), kValue', (c + 1) - 1, Len(a) - 1) = Items(a, kValue, c + 1, Len(a))
  BY <1>4, <1>8, ItemsShift
<1>. QED  BY <1>5, <1>7, <1>8, <1>9

LEMMA CacheEnqueues ==
  ASSUME CacheKept, NEW p \in Producers, K!Exchange(p), UNCHANGED K!bufferVars, ~kStale, ~kStale', CacheContent, CacheContent'
  PROVE  \E v \in Values : CacheQueued' = Append(CacheQueued, v) /\ Len(CacheQueued) < Cardinality(FewNodes)
<1>1. PICK a \in Seq(FewNodes), c \in Nat : CacheAll(a, c)
  BY DEF CacheKept
<1>2. CacheTypes /\ CacheCalls
  BY DEF CacheKept
<1>3. PICK x \in FewNodes : x = kNew[p]
  BY <1>1, <1>2, CacheExchangeStep
<1>. DEFINE n == Len(a)   b == Append(a, x)
<1>4. b \in Seq(FewNodes) /\ CacheAll(b, c)' /\ kValue[x] \in Values /\ ~CacheDestroying
  BY <1>1, <1>2, <1>3, CacheExchangeStep
<1>5. kValue' = kValue /\ ~CacheDestroying'
  BY <1>4 DEF K!Exchange, K!consumerVars, CacheDestroying
<1>6. Len(b) = n + 1 /\ (\A i \in 1..n : b[i] = a[i]) /\ b[n + 1] = x
  BY <1>3, AppendList
<1>7. c + 1 \in Nat /\ n \in Nat /\ c + 1 <= n /\ Valued(a, kValue, c + 1, n)
  BY <1>1, <1>2, <1>4, CacheValued
<1>8. CacheQueued = Items(a, kValue, c + 1, n)
  BY <1>1, <1>4 DEF CacheContent
<1>9. CacheQueued' = Items(b, kValue, c + 1, n + 1)
  <2>. HIDE DEF b
  <2>1. CacheQueued' = Items(b, kValue', c + 1, Len(b))
    BY <1>4, <1>5 DEF CacheContent
  <2>. QED  BY <2>1, <1>5, <1>6
<1>10. Distinct(a)
  BY <1>1 DEF CacheAll, CacheCells
<1>11. n <= Cardinality(FewNodes) /\ Cardinality(FewNodes) \in Nat
  <2>1. IsFiniteSet(FewNodes)
    BY NodesAssumption, FS_Subset
  <2>. QED  BY <2>1, <1>10, ListCardinality, FS_CardinalityType
<1>. HIDE DEF n, b
<1>12. Same(a, kValue, b, kValue, c + 1, n)
  <2>1. \A i \in ((c + 1) + 1)..n : i \in 1..n
    BY <1>7
  <2>. QED  BY <2>1, <1>6 DEF Same
<1>13. kValue[b[n + 1]] = kValue[x]
  BY <1>6
<1>14. /\ Items(b, kValue, c + 1, n + 1) = Append(Items(a, kValue, c + 1, n), kValue[x])
       /\ Len(Items(a, kValue, c + 1, n)) = n - (c + 1)
  BY <1>4, <1>7, <1>12, <1>13, ItemsAppend
<1>15. Len(CacheQueued) < Cardinality(FewNodes)
  BY <1>7, <1>8, <1>11, <1>14
<1>. QED  BY <1>4, <1>8, <1>9, <1>14, <1>15

LEMMA CacheDequeues ==
  ASSUME CacheKept, K!TakeKept, ~kStale, ~kStale', CacheContent, CacheContent'
  PROVE  CacheQueued # << >> /\ Head(CacheQueued) = kOut' /\ CacheQueued' = Tail(CacheQueued)
<1>1. PICK a \in Seq(FewNodes), c \in Nat : CacheAll(a, c)
  BY DEF CacheKept
<1>2. CacheTypes /\ CacheCalls
  BY DEF CacheKept
<1>. DEFINE n == Len(a)
<1>3. /\ CacheAll(a, c + 1)' /\ ~CacheDestroying /\ c + 2 <= n /\ kOut' = kValue[a[c + 2]]
      /\ Same(a, kValue, a, kValue', (c + 1) + 1, n)
  BY <1>1, <1>2, CacheDequeueStep
<1>4. ~CacheDestroying'
  BY DEF K!TakeKept, K!Take, CacheDestroying
<1>5. c + 1 \in Nat /\ n \in Nat /\ Valued(a, kValue, c + 1, n)
  BY <1>1, <1>2, <1>3, CacheValued
<1>6. CacheQueued = Items(a, kValue, c + 1, n)
  BY <1>1, <1>3 DEF CacheContent
<1>7. CacheQueued' = Items(a, kValue', (c + 1) + 1, n)
  BY <1>3, <1>4, <1>5 DEF CacheContent
<1>. HIDE DEF n
<1>8. c + 1 < n /\ (c + 1) + 1 = c + 2
  BY <1>3, <1>5
<1>9. /\ Items(a, kValue', (c + 1) + 1, n) = Tail(Items(a, kValue, c + 1, n)) /\ Items(a, kValue, c + 1, n) # << >>
      /\ Head(Items(a, kValue, c + 1, n)) = kValue[a[(c + 1) + 1]]
  BY <1>3, <1>5, <1>8, ItemsTail
<1>. QED  BY <1>3, <1>6, <1>7, <1>8, <1>9

LEMMA CacheFifoStep ==
  CacheInv /\ CacheContent /\ CacheContent' /\ [K!BufNext]_kVars
    => [K!F!Next \/ kStale' \/ kCpc' \in {"destroy", "destroyed"}]_(K!F!vars)
<1>. SUFFICES ASSUME CacheInv, CacheContent, CacheContent', [K!BufNext]_kVars, ~kStale', ~CacheDestroying'
              PROVE  K!F!Next \/ (CacheQueued' = CacheQueued /\ CacheTaken' = CacheTaken)
  BY DEF K!F!vars, CacheQueued, CacheTaken, CacheDestroying
<1>1. CASE UNCHANGED kVars
  BY <1>1 DEF kVars, CacheQueued, CacheTaken
<1>2. CASE K!BufNext
  <2>1. ~kStale /\ CacheKept
    BY <1>2 DEF K!BufNext, CacheInv
  <2>2. ASSUME NEW p \in Producers,
               K!Check(p) \/ K!ReadNext(p) \/ K!CasFails(p) \/ K!Link(p) \/ \E v \in Values : K!EnqueueBuffered(p, v)
        PROVE  CacheQueued' = CacheQueued /\ CacheTaken' = CacheTaken
    BY <2>2 DEF K!Check, K!ReadNext, K!CasFails, K!EnqueueBuffered, K!Link, K!EnqueueReturns, K!consumerVars,
                CacheQueued, CacheTaken
  <2>3. ASSUME NEW p \in Producers, K!AllocNew(p) \/ K!CasTakes(p)
        PROVE  CacheQueued' = CacheQueued /\ CacheTaken' = CacheTaken
    <3>1. CacheTaken' = CacheTaken
      BY <2>3 DEF K!AllocNew, K!CasTakes, K!consumerVars, CacheTaken
    <3>. QED  BY <2>1, <2>3, <3>1, CacheAllocates, CacheReuses
  <2>4. ASSUME NEW p \in Producers, K!Exchange(p), UNCHANGED K!bufferVars PROVE K!F!Next
    <3>1. CacheTaken' = CacheTaken
      BY <2>4 DEF K!Exchange, K!consumerVars, CacheTaken
    <3>2. PICK v \in Values : CacheQueued' = Append(CacheQueued, v) /\ Len(CacheQueued) < K!Cardinality(FewNodes)
      BY <2>1, <2>4, CacheEnqueues DEF K!Cardinality, Cardinality
    <3>3. K!F!Enqueue(v)
      BY <3>1, <3>2 DEF K!F!Enqueue, CacheQueued, CacheTaken
    <3>. QED  BY <3>3 DEF K!F!Next
  <2>5. ASSUME NEW p \in Producers, K!ProducerStep(p), UNCHANGED K!bufferVars
        PROVE  K!F!Next \/ (CacheQueued' = CacheQueued /\ CacheTaken' = CacheTaken)
    BY <2>2, <2>4, <2>5 DEF K!ProducerStep
  <2>6. CASE K!TakeKept
    <3>1. CacheQueued # << >> /\ Head(CacheQueued) = kOut' /\ CacheQueued' = Tail(CacheQueued)
      BY <2>1, <2>6, CacheDequeues
    <3>2. CacheTaken["consumer"] = None /\ CacheTaken' = [CacheTaken EXCEPT !["consumer"] = kOut']
      BY <2>6 DEF K!TakeKept, K!Take, CacheTaken
    <3>3. K!F!Dequeue("consumer")
      BY <3>1, <3>2 DEF K!F!Dequeue, CacheQueued, CacheTaken
    <3>. QED  BY <3>3 DEF K!F!Next
  <2>7. CASE K!Keep
    <3>1. CacheQueued' = CacheQueued
      BY <2>7 DEF K!Keep, K!ReturnTrue, CacheQueued
    <3>2. kOut # None
      BY <2>1, <2>7, RingAssumption DEF CacheKept, CacheAll, CacheItems, K!Keep
    <3>3. CacheTaken["consumer"] # None /\ CacheTaken' = [CacheTaken EXCEPT !["consumer"] = None]
      BY <2>7, <3>2 DEF K!Keep, K!ReturnTrue, CacheTaken
    <3>4. K!F!Return("consumer")
      BY <3>1, <3>3 DEF K!F!Return, CacheQueued, CacheTaken
    <3>. QED  BY <3>4 DEF K!F!Next
  <2>8. CASE K!TryDequeue \/ K!ReturnFalse
    BY <2>8 DEF K!TryDequeue, K!ReturnFalse, CacheQueued, CacheTaken
  <2>9. CASE K!Destroy \/ K!DestroyNode
    BY <2>9 DEF K!Destroy, K!DestroyNode, CacheDestroying
  <2>. QED  BY <1>2, <2>2, <2>3, <2>5, <2>6, <2>7, <2>8, <2>9 DEF K!BufNext
<1>. QED  BY <1>1, <1>2

LEMMA CacheFifoInit == K!BufInit => K!F!Init
<1>. SUFFICES ASSUME K!BufInit PROVE K!F!Init
  OBVIOUS
<1>1. PICK x \in FewNodes : kChain = <<x>> /\ kCpc = "idle"
  BY DEF K!BufInit, K!Init
<1>2. Len(kChain) - 1 = 0
  BY <1>1
<1>3. 1..0 = {}
  OBVIOUS
<1>4. 1..(Len(kChain) - 1) = {}
  BY <1>2, <1>3
<1>5. CacheQueued = << >>
  <2>1. CacheQueued \in [1..0 -> Values]
    BY <1>2, <1>3 DEF CacheQueued
  <2>. QED  BY <2>1, FunctionIsSeq
<1>. QED  BY <1>1, <1>5 DEF K!F!Init, CacheQueued

\* mpsc_queue with its cache: the queue is a FIFO until a compare-and-swap is
\* fooled or the destructor runs.
LEMMA CacheIsFifo == MCSpec => K!FifoUntilStale
BY CacheBehaviour, CacheInit, CacheStep, CacheItemsAre, CacheFifoInit, CacheFifoStep, PTL DEF K!FifoUntilStale

-----------------------------------------------------------------------------
(* The lists *)

\* In every behaviour of the lists each allocated node has one owner and no
\* node is lost: spsc_queue reuses only nodes its consumer has passed,
\* sutter_queue deletes only those before m_divider, and the buffered
\* mpsc_queue uses no node twice before a compare-and-swap is fooled, for
\* every number of nodes and producers and whatever is enqueued.
THEOREM ListsAreOwned == MCSpec => []ListsOwned
<1>1. MCSpec => [](RecycleInv /\ SutterInv /\ CacheInv)
  BY RecycleBehaviour, RecycleInit, RecycleStep, SutterBehaviour, SutterInit, SutterStep,
     CacheBehaviour, CacheInit, CacheStep, PTL
<1>2. RecycleInv /\ SutterInv /\ CacheInv => ListsOwned
  BY RecycleOwns, SutterOwns, CacheOwns DEF ListsOwned
<1>. QED  BY <1>1, <1>2, PTL

\* The lists implement Fifo: what enqueue stores is dequeued once and in the
\* order of the enqueues (for mpsc_queue of the exchanges), until the destructor
\* and, with the cache, until a compare-and-swap is fooled.
THEOREM ListsImplementFifo == MCSpec => ListsAreFifo
BY RecycleIsFifo, SutterIsFifo, CacheIsFifo DEF ListsAreFifo

=============================================================================
