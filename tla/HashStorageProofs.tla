------------------------- MODULE HashStorageProofs --------------------------
(***************************************************************************)
(* Proofs about hash_storage for every set of threads, keys and values,    *)
(* every hash, every number of buckets and every resize factor.            *)
(***************************************************************************)
EXTENDS HashStorage, FiniteSetTheorems, TLAPS

Elements == [list : Nat, key : Keys, value : Values]

\* StorageInv with what it takes to be inductive: the elements can be counted,
\* and a thread that is in no call has no answer to give.
IInv == /\ StorageInv
        /\ IsFiniteSet(AllElements)
        /\ \A t \in Threads : pc[t] = "idle" => ret[t] = None

-----------------------------------------------------------------------------
(* The operators of the model *)

\* A key belongs to a bucket, and to one of the lists of any vector.
LEMMA HashFits ==
  ASSUME NEW k \in Keys
  PROVE  /\ Bucket(k) \in Buckets
         /\ \A n \in Nat \ {0} : Hash[k] % n \in Nat
<1>1. Hash[k] \in Nat /\ BucketsCount \in Nat \ {0}
  BY HashAssumption
<1>2. \A m \in Nat, n \in Nat \ {0} : m % n \in 0..(n - 1)
  OBVIOUS
<1>. QED  BY <1>1, <1>2 DEF Bucket, Buckets

\* A rehashed element differs from the element in its list only.
LEMMA RehashedElement ==
  ASSUME NEW e \in Elements, NEW m \in Nat
  PROVE  LET f == [e EXCEPT !.list = m] IN
         /\ f \in Elements /\ f.list = m /\ f.key = e.key /\ f.value = e.value
BY DEF Elements

\* Two elements with the same list, key and value are the same.
LEMMA ElementsEqual ==
  ASSUME NEW e \in Elements, NEW f \in Elements,
         e.list = f.list, e.key = f.key, e.value = f.value
  PROVE  e = f
BY DEF Elements

\* find_locked finds one element or none, and every element of the key.
LEMMA FoundIsKey ==
  ASSUME TypeOK, Placed, NEW k \in Keys
  PROVE  /\ FindLocked(k) = {e \in elements[Bucket(k)] : e.key = k}
         /\ \A e, f \in FindLocked(k) : e = f
         /\ FindLocked(k) \subseteq elements[Bucket(k)]
<1>1. Bucket(k) \in Buckets
  BY HashFits
<1>2. elements[Bucket(k)] \subseteq Elements
  BY <1>1 DEF TypeOK, Elements
<1>. QED  BY <1>1, <1>2 DEF Placed, FindLocked

\* What the map holds for a key.
LEMMA FoundValue ==
  ASSUME TypeOK, Placed, NEW k \in Keys
  PROVE  /\ FindLocked(k) = {} => ValueOf(k) = None
         /\ \A e \in FindLocked(k) : ValueOf(k) = e.value
         /\ FindLocked(k) # {} => ValueOf(k) \in Values
<1>1. Bucket(k) \in Buckets /\ FindLocked(k) \subseteq elements[Bucket(k)] /\ \A e, f \in FindLocked(k) : e = f
  BY FoundIsKey, HashFits
<1>2. \A e \in FindLocked(k) : e.value \in Values
  BY <1>1 DEF TypeOK
<1>3. FindLocked(k) # {} => (CHOOSE e \in FindLocked(k) : TRUE) \in FindLocked(k)
  OBVIOUS
<1>. QED  BY <1>1, <1>2, <1>3 DEF ValueOf

\* An element is in the bucket of its key only.
LEMMA ElementsOf ==
  ASSUME TypeOK, Placed
  PROVE  /\ AllElements \subseteq Elements
         /\ \A e \in AllElements : e \in elements[Bucket(e.key)]
         /\ \A b \in Buckets : elements[b] = {e \in AllElements : Bucket(e.key) = b}
<1>1. \A b \in Buckets : elements[b] \subseteq Elements
  BY DEF TypeOK, Elements
<1>. QED  BY <1>1 DEF AllElements, Placed

\* The element that emplace makes.
LEMMA ElementFits ==
  ASSUME TypeOK, NEW k \in Keys, NEW v \in Values
  PROVE  /\ Element(k, v) \in Elements
         /\ Element(k, v).list = Hash[k] % lists[Bucket(k)]
         /\ Element(k, v).key = k /\ Element(k, v).value = v
<1>1. Hash[k] % lists[Bucket(k)] \in Nat
  BY HashFits DEF TypeOK
<1>. QED  BY <1>1 DEF Element, Elements

\* A resize makes a vector that is not empty.
LEMMA ProductPositive ==
  ASSUME NEW m \in Nat \ {0}, NEW n \in Nat \ {0}
  PROVE  m * n \in Nat \ {0}
OBVIOUS

-----------------------------------------------------------------------------
(* The invariant *)

LEMMA InitInv == Init => IInv
<1>. SUFFICES ASSUME Init PROVE IInv
  OBVIOUS
<1>1. TypeOK
  BY HashAssumption DEF Init, TypeOK, Buckets
<1>2. Placed /\ OneResizer /\ CopyExact
  BY DEF Init, Placed, OneResizer, CopyExact, Resizes
<1>3. AllElements = {}
  BY DEF Init, AllElements
<1>4. IsFiniteSet(AllElements) /\ m_size = Cardinality(AllElements)
  BY <1>3, FS_EmptySet DEF Init
<1>5. \A t \in Threads : pc[t] = "idle" => ret[t] = None
  BY DEF Init
<1>. QED  BY <1>1, <1>2, <1>4, <1>5 DEF IInv, StorageInv

\* The resizers are as they were while no thread enters or leaves a resize.
LEMMA SameResizers ==
  ASSUME IInv, NEW t \in Threads, NEW s \in {"idle", "return", "resize"},
         ~Resizes(t), pc' = [pc EXCEPT ![t] = s],
         at' \in [Threads -> Buckets], \A u \in Threads \ {t} : at'[u] = at[u],
         UNCHANGED <<lists, capacity, resizing>>
  PROVE  OneResizer'
<1>1. \A u \in Threads : /\ Resizes(u)' <=> Resizes(u)
                         /\ pc'[u] = "capacity" <=> pc[u] = "capacity"
  BY DEF IInv, StorageInv, TypeOK, Resizes
<1>2. \A u \in Threads : Resizes(u) \/ pc[u] = "capacity" => at'[u] = at[u]
  BY DEF Resizes
<1>. QED  BY <1>1, <1>2 DEF IInv, StorageInv, OneResizer

\* A change of a bucket that sets changed_while_resize keeps every copy honest.
LEMMA ChangeNoticed ==
  ASSUME IInv, NEW t \in Threads, NEW s \in {"idle", "return", "resize"}, NEW k \in Keys,
         pc[t] = "idle", pc' = [pc EXCEPT ![t] = s], NEW X,
         elements' = [elements EXCEPT ![Bucket(k)] = X],
         changed_while_resize' = [changed_while_resize EXCEPT ![Bucket(k)] = TRUE],
         at' \in [Threads -> Buckets], \A u \in Threads \ {t} : at'[u] = at[u],
         UNCHANGED <<lists, capacity, resizing, new_bucket, bucket_capacity>>
  PROVE  OneResizer' /\ CopyExact'
<1>1. OneResizer'
  <2>1. ~Resizes(t)
    BY DEF Resizes
  <2>. QED  BY <2>1, SameResizers
<1>2. CopyExact'
  <2>. SUFFICES ASSUME NEW u \in Threads
                PROVE  /\ pc'[u] \in {"copy", "swap"} => bucket_capacity'[u] = capacity'[at'[u]] * ResizeFactor
                       /\ pc'[u] \in {"capacity", "release"} => bucket_capacity'[u] = lists'[at'[u]]
                       /\ pc'[u] = "swap" /\ ~changed_while_resize'[at'[u]] =>
                            new_bucket'[u] = Rehash(elements[at[u]], bucket_capacity[u])'
    BY DEF CopyExact
  <2>1. CASE u = t
    BY <2>1 DEF IInv, StorageInv, TypeOK
  <2>2. CASE u # t
    <3>1. pc'[u] = pc[u] /\ at'[u] = at[u] /\ at[u] \in Buckets
      BY <2>2 DEF IInv, StorageInv, TypeOK
    <3>2. ~changed_while_resize'[at[u]] => elements'[at[u]] = elements[at[u]] /\ ~changed_while_resize[at[u]]
      BY <3>1, HashFits DEF IInv, StorageInv, TypeOK
    <3>3. elements'[at[u]] = elements[at[u]] =>
            Rehash(elements[at[u]], bucket_capacity[u])' = Rehash(elements[at[u]], bucket_capacity[u])
      BY <3>1 DEF Rehash
    <3>. QED  BY <3>1, <3>2, <3>3 DEF IInv, StorageInv, CopyExact
  <2>. QED  BY <2>1, <2>2
<1>. QED  BY <1>1, <1>2

LEMMA RenewStep ==
  ASSUME IInv, NEW t \in Threads, NEW k \in Keys, NEW v \in Values, Renew(t, k, v)
  PROVE  IInv'
<1>. DEFINE b == Bucket(k)
            new == Element(k, v)
<1>. USE DEF IInv, StorageInv
<1>1. /\ b \in Buckets /\ pc[t] = "idle"
      /\ elements' = [elements EXCEPT ![b] = (@ \ FindLocked(k)) \cup {new}]
      /\ changed_while_resize' = [changed_while_resize EXCEPT ![b] = TRUE]
      /\ ret' = [ret EXCEPT ![t] = FALSE] /\ pc' = [pc EXCEPT ![t] = "return"]
      /\ UNCHANGED <<lists, capacity, resizing, new_bucket, bucket_capacity, size, m_size, at, found>>
  BY HashFits DEF Renew, Answer, GoTo
<1>2. PICK old \in FindLocked(k) : TRUE
  BY DEF Renew
<1>3. /\ FindLocked(k) = {old} /\ old \in elements[b] /\ old.key = k
      /\ \A e \in elements[b] : e.key = k => e = old
  BY <1>2, FoundIsKey
<1>4. /\ new \in Elements /\ new.key = k /\ new.list = Hash[k] % lists[b]
  BY ElementFits
<1>5. elements'[b] = (elements[b] \ {old}) \cup {new} /\ \A c \in Buckets \ {b} : elements'[c] = elements[c]
  BY <1>1, <1>3 DEF TypeOK
<1>6. TypeOK'
  BY <1>1, <1>4 DEF TypeOK, Elements
<1>7. Placed'
  <2>1. ASSUME NEW c \in Buckets, NEW e \in elements'[c]
        PROVE  /\ Bucket(e.key) = c /\ e.list = Hash[e.key] % lists'[c]
               /\ \A f \in elements'[c] : f.key = e.key => f = e
    BY <1>1, <1>3, <1>4, <1>5, <2>1 DEF Placed
  <2>. QED  BY <2>1 DEF Placed, Bucket
<1>8. OneResizer' /\ CopyExact'
  BY <1>1, ChangeNoticed DEF TypeOK
<1>9. IsFiniteSet(AllElements)' /\ (m_size = Cardinality(AllElements))'
  <2>1. old \in AllElements /\ new \notin AllElements \ {old}
    BY <1>3, <1>4, ElementsOf, <1>1 DEF AllElements
  <2>2. AllElements' = (AllElements \ {old}) \cup {new}
    BY <1>1, <1>3, <1>5, ElementsOf DEF AllElements
  <2>3. /\ IsFiniteSet(AllElements \ {old})
        /\ Cardinality(AllElements \ {old}) = Cardinality(AllElements) - 1
    BY <2>1, FS_RemoveElement
  <2>4. /\ IsFiniteSet((AllElements \ {old}) \cup {new})
        /\ Cardinality((AllElements \ {old}) \cup {new}) = Cardinality(AllElements \ {old}) + 1
    BY <2>1, <2>3, FS_AddElement
  <2>5. Cardinality(AllElements) \in Nat
    BY FS_CardinalityType
  <2>. QED  BY <1>1, <2>2, <2>3, <2>4, <2>5
<1>10. \A u \in Threads : pc'[u] = "idle" => ret'[u] = None
  BY <1>1 DEF TypeOK
<1>. QED  BY <1>6, <1>7, <1>8, <1>9, <1>10

LEMMA InsertStep ==
  ASSUME IInv, NEW t \in Threads, NEW k \in Keys, NEW v \in Values, Insert(t, k, v)
  PROVE  IInv'
<1>. DEFINE b == Bucket(k)
            new == Element(k, v)
<1>. USE DEF IInv, StorageInv
<1>1. /\ b \in Buckets /\ pc[t] = "idle" /\ FindLocked(k) = {}
      /\ elements' = [elements EXCEPT ![b] = @ \cup {new}]
      /\ size' = [size EXCEPT ![b] = @ + 1] /\ m_size' = m_size + 1
      /\ changed_while_resize' = [changed_while_resize EXCEPT ![b] = TRUE]
      /\ ret' = [ret EXCEPT ![t] = TRUE]
      /\ UNCHANGED <<lists, capacity, resizing, new_bucket, bucket_capacity, found>>
  BY HashFits DEF Insert, Answer
<1>2. /\ pc' = [pc EXCEPT ![t] = "resize"] \/ pc' = [pc EXCEPT ![t] = "return"]
      /\ at' = [at EXCEPT ![t] = b] \/ at' = at
  BY DEF Insert, GoTo
<1>3. \A e \in elements[b] : e.key # k
  BY <1>1, FoundIsKey
<1>4. /\ new \in Elements /\ new.key = k /\ new.list = Hash[k] % lists[b]
  BY ElementFits
<1>5. elements'[b] = elements[b] \cup {new} /\ \A c \in Buckets \ {b} : elements'[c] = elements[c]
  BY <1>1 DEF TypeOK
<1>6. at' \in [Threads -> Buckets] /\ \A u \in Threads \ {t} : at'[u] = at[u]
  BY <1>1, <1>2 DEF TypeOK
<1>7. TypeOK'
  <2>1. elements' \in [Buckets -> SUBSET Elements]
    BY <1>1, <1>4 DEF TypeOK, Elements
  <2>2. size' \in [Buckets -> Nat] /\ m_size' \in Nat
    BY <1>1 DEF TypeOK
  <2>3. pc' \in [Threads -> {"idle", "return", "resize", "copy", "swap", "capacity", "release"}]
    BY <1>2 DEF TypeOK
  <2>. QED  BY <1>1, <1>6, <2>1, <2>2, <2>3 DEF TypeOK, Elements
<1>8. Placed'
  <2>1. ASSUME NEW c \in Buckets, NEW e \in elements'[c]
        PROVE  /\ Bucket(e.key) = c /\ e.list = Hash[e.key] % lists'[c]
               /\ \A f \in elements'[c] : f.key = e.key => f = e
    BY <1>1, <1>3, <1>4, <1>5, <2>1 DEF Placed
  <2>. QED  BY <2>1 DEF Placed, Bucket
<1>9. OneResizer' /\ CopyExact'
  BY <1>1, <1>2, <1>6, ChangeNoticed
<1>10. IsFiniteSet(AllElements)' /\ (m_size = Cardinality(AllElements))'
  <2>1. new \notin AllElements
    BY <1>1, <1>3, <1>4, ElementsOf
  <2>2. AllElements' = AllElements \cup {new}
    BY <1>1, <1>5 DEF AllElements
  <2>3. /\ IsFiniteSet(AllElements \cup {new})
        /\ Cardinality(AllElements \cup {new}) = Cardinality(AllElements) + 1
    BY <2>1, FS_AddElement
  <2>. QED  BY <1>1, <2>2, <2>3
<1>11. \A u \in Threads : pc'[u] = "idle" => ret'[u] = None
  BY <1>1, <1>2 DEF TypeOK
<1>. QED  BY <1>7, <1>8, <1>9, <1>10, <1>11

LEMMA RemoveStep ==
  ASSUME IInv, NEW t \in Threads, NEW k \in Keys, Remove(t, k)
  PROVE  IInv'
<1>. DEFINE b == Bucket(k)
<1>. USE DEF IInv, StorageInv
<1>1. /\ b \in Buckets /\ pc[t] = "idle"
      /\ elements' = [elements EXCEPT ![b] = @ \ FindLocked(k)]
      /\ changed_while_resize' = [changed_while_resize EXCEPT ![b] = TRUE]
      /\ m_size' = IF FindLocked(k) = {} THEN m_size ELSE m_size - 1
      /\ found' = IF FindLocked(k) = {} THEN found ELSE Deleted(b, {k})
      /\ UNCHANGED <<lists, size, capacity, resizing, pc, at, new_bucket, bucket_capacity, ret>>
  BY HashFits DEF Remove
<1>2. elements'[b] = elements[b] \ FindLocked(k) /\ \A c \in Buckets \ {b} : elements'[c] = elements[c]
  BY <1>1 DEF TypeOK
<1>3. IsFiniteSet(AllElements)' /\ (m_size = Cardinality(AllElements))' /\ m_size' \in Nat
  <2>1. CASE FindLocked(k) = {}
    <3>1. elements' = elements /\ m_size' = m_size
      BY <1>1, <2>1 DEF TypeOK
    <3>. QED  BY <3>1 DEF AllElements, TypeOK
  <2>2. CASE FindLocked(k) # {}
    <3>1. PICK old \in FindLocked(k) : TRUE
      BY <2>2
    <3>2. FindLocked(k) = {old} /\ old \in elements[b] /\ old.key = k
      BY <3>1, FoundIsKey
    <3>3. old \in AllElements /\ \A c \in Buckets \ {b} : old \notin elements[c]
      BY <1>1, <3>2 DEF AllElements, Placed
    <3>4. AllElements' = AllElements \ {old}
      BY <1>1, <1>2, <3>2, <3>3 DEF AllElements
    <3>5. /\ IsFiniteSet(AllElements \ {old})
          /\ Cardinality(AllElements \ {old}) = Cardinality(AllElements) - 1
      BY <3>3, FS_RemoveElement
    <3>6. Cardinality(AllElements \ {old}) \in Nat
      BY <3>5, FS_CardinalityType
    <3>. QED  BY <1>1, <2>2, <3>4, <3>5, <3>6
  <2>. QED  BY <2>1, <2>2
<1>4. found' \in [Threads -> Keys \cup {None, Dangling}]
  BY <1>1 DEF TypeOK, Deleted
<1>5. TypeOK'
  BY <1>1, <1>3, <1>4 DEF TypeOK
<1>6. Placed'
  <2>1. ASSUME NEW c \in Buckets, NEW e \in elements'[c]
        PROVE  /\ Bucket(e.key) = c /\ e.list = Hash[e.key] % lists'[c]
               /\ \A f \in elements'[c] : f.key = e.key => f = e
    BY <1>1, <1>2, <2>1 DEF Placed
  <2>. QED  BY <2>1 DEF Placed, Bucket
<1>7. OneResizer' /\ CopyExact'
  <2>1. pc' = [pc EXCEPT ![t] = "idle"]
    BY <1>1 DEF TypeOK
  <2>. QED  BY <1>1, <2>1, ChangeNoticed DEF TypeOK
<1>. QED  BY <1>1, <1>3, <1>5, <1>6, <1>7

\* What no step without an effect on the elements disturbs.
LEMMA SameElements ==
  ASSUME IInv, UNCHANGED <<elements, lists, m_size>>
  PROVE  Placed' /\ IsFiniteSet(AllElements)' /\ (m_size = Cardinality(AllElements))'
<1>1. Placed'
  BY DEF IInv, StorageInv, Placed, Bucket
<1>2. AllElements' = AllElements
  BY DEF AllElements
<1>. QED  BY <1>1, <1>2 DEF IInv, StorageInv

LEMMA SameCopies ==
  ASSUME IInv, NEW t \in Threads, NEW s \in {"idle", "return"}, ~Resizes(t), pc' = [pc EXCEPT ![t] = s],
         \A u \in Threads \ {t} : at'[u] = at[u],
         UNCHANGED <<elements, lists, capacity, changed_while_resize, new_bucket, bucket_capacity>>
  PROVE  CopyExact'
<1>1. \A u \in Threads : Rehash(elements[at[u]], bucket_capacity[u])' = Rehash(elements[at'[u]], bucket_capacity[u])
  BY DEF Rehash
<1>2. \A u \in Threads : Resizes(u)' => pc'[u] = pc[u] /\ at'[u] = at[u] /\ Resizes(u)
  BY DEF IInv, StorageInv, TypeOK, Resizes
<1>3. ASSUME NEW u \in Threads
      PROVE  /\ pc'[u] \in {"copy", "swap"} => bucket_capacity'[u] = capacity'[at'[u]] * ResizeFactor
             /\ pc'[u] \in {"capacity", "release"} => bucket_capacity'[u] = lists'[at'[u]]
             /\ pc'[u] = "swap" /\ ~changed_while_resize'[at'[u]] =>
                  new_bucket'[u] = Rehash(elements[at[u]], bucket_capacity[u])'
  BY <1>1, <1>2 DEF IInv, StorageInv, CopyExact, Resizes
<1>. QED  BY <1>3 DEF CopyExact

LEMMA LookupStep ==
  ASSUME IInv, NEW t \in Threads, NEW k \in Keys, Obtain(t, k) \/ Find(t, k)
  PROVE  IInv'
<1>. USE DEF IInv, StorageInv
<1>1. /\ pc[t] = "idle" /\ pc' = [pc EXCEPT ![t] = "return"]
      /\ UNCHANGED <<lists, capacity, resizing, new_bucket, bucket_capacity,
                     elements, size, changed_while_resize, m_size, at>>
      /\ found' \in [Threads -> Keys \cup {None, Dangling}]
  BY DEF Obtain, Find, Answer, GoTo, TypeOK
<1>2. ret' = [ret EXCEPT ![t] = ret'[t]] /\ ret'[t] \in Values \cup BOOLEAN \cup {None}
  <2>1. CASE Obtain(t, k)
    <3>1. ret' = [ret EXCEPT ![t] = ValueOf(k)]
      BY <2>1 DEF Obtain, Answer, ValueOf
    <3>2. ValueOf(k) \in Values \cup {None}
      BY FoundValue
    <3>. QED  BY <3>1, <3>2 DEF TypeOK
  <2>2. CASE Find(t, k)
    BY <2>2 DEF Find, Answer, TypeOK
  <2>. QED  BY <2>1, <2>2
<1>3. TypeOK'
  BY <1>1, <1>2 DEF TypeOK
<1>4. ~Resizes(t)
  BY <1>1 DEF Resizes
<1>5. OneResizer'
  BY <1>1, <1>4, SameResizers DEF TypeOK
<1>6. CopyExact'
  BY <1>1, <1>4, SameCopies
<1>7. \A u \in Threads : pc'[u] = "idle" => ret'[u] = None
  BY <1>1, <1>2 DEF TypeOK
<1>. QED  BY <1>1, <1>3, <1>5, <1>6, <1>7, SameElements

LEMMA ReturnStep ==
  ASSUME IInv, NEW t \in Threads, Return(t)
  PROVE  IInv'
<1>. USE DEF IInv, StorageInv
<1>1. /\ pc[t] = "return" /\ pc' = [pc EXCEPT ![t] = "idle"]
      /\ ret' = [ret EXCEPT ![t] = None] /\ found' = [found EXCEPT ![t] = None]
      /\ at' = [at EXCEPT ![t] = 0]
      /\ UNCHANGED <<elements, lists, size, capacity, resizing, changed_while_resize, m_size,
                     new_bucket, bucket_capacity>>
  BY DEF Return, GoTo, bucketVars
<1>2. 0 \in Buckets
  BY HashAssumption DEF Buckets
<1>3. TypeOK'
  BY <1>1, <1>2 DEF TypeOK
<1>4. ~Resizes(t)
  BY <1>1 DEF Resizes
<1>5. at' \in [Threads -> Buckets] /\ \A u \in Threads \ {t} : at'[u] = at[u]
  BY <1>1, <1>2 DEF TypeOK
<1>6. OneResizer'
  BY <1>1, <1>4, <1>5, SameResizers
<1>7. CopyExact'
  BY <1>1, <1>4, <1>5, SameCopies
<1>8. \A u \in Threads : pc'[u] = "idle" => ret'[u] = None
  BY <1>1 DEF TypeOK
<1>. QED  BY <1>1, <1>3, <1>6, <1>7, <1>8, SameElements

\* The parts of CopyExact that are about one thread.
CopyOf(u) ==
  /\ pc[u] \in {"copy", "swap"} => bucket_capacity[u] = capacity[at[u]] * ResizeFactor
  /\ pc[u] \in {"capacity", "release"} => bucket_capacity[u] = lists[at[u]]
  /\ pc[u] = "swap" /\ ~changed_while_resize[at[u]] =>
       new_bucket[u] = Rehash(elements[at[u]], bucket_capacity[u])

LEMMA CopiesExact == CopyExact <=> \A u \in Threads : CopyOf(u)
BY DEF CopyExact, CopyOf

\* A step of one thread that keeps what another thread's copy depends on.
LEMMA SameCopy ==
  ASSUME CopyExact, NEW u \in Threads, at'[u] = at[u],
         pc'[u] = pc[u], bucket_capacity'[u] = bucket_capacity[u], new_bucket'[u] = new_bucket[u],
         Resizes(u) => /\ capacity'[at[u]] = capacity[at[u]] /\ lists'[at[u]] = lists[at[u]]
                       /\ elements'[at[u]] = elements[at[u]]
                       /\ changed_while_resize'[at[u]] = changed_while_resize[at[u]]
  PROVE  CopyOf(u)'
<1>1. elements'[at[u]] = elements[at[u]] =>
        Rehash(elements[at[u]], bucket_capacity[u])' = Rehash(elements[at[u]], bucket_capacity[u])
  BY DEF Rehash
<1>. QED  BY <1>1 DEF CopyExact, CopyOf, Resizes

\* A resizer that goes on to another step of its resize.
LEMMA ResizerGoesOn ==
  ASSUME IInv, NEW t \in Threads, Resizes(t), NEW s \in {"copy", "swap", "capacity", "release"},
         pc' = [pc EXCEPT ![t] = s], UNCHANGED <<at, resizing>>,
         \A b \in Buckets \ {at[t]} : lists'[b] = lists[b] /\ capacity'[b] = capacity[b],
         lists'[at[t]] # capacity'[at[t]] => s = "capacity"
  PROVE  OneResizer'
<1>1. \A u \in Threads : Resizes(u)' <=> Resizes(u)
  BY DEF IInv, StorageInv, TypeOK, Resizes
<1>2. \A u \in Threads : pc'[u] = "capacity" <=> IF u = t THEN s = "capacity" ELSE pc[u] = "capacity"
  BY DEF IInv, StorageInv, TypeOK
<1>3. ASSUME NEW b \in Buckets
      PROVE  lists'[b] # capacity'[b] => \E u \in Threads : pc'[u] = "capacity" /\ at'[u] = b
  <2>1. CASE b = at[t]
    BY <1>2, <2>1
  <2>2. CASE b # at[t]
    <3>. SUFFICES ASSUME lists[b] # capacity[b]
                  PROVE  \E u \in Threads : pc'[u] = "capacity" /\ at'[u] = b
      BY <2>2
    <3>1. PICK u \in Threads : pc[u] = "capacity" /\ at[u] = b
      BY DEF IInv, StorageInv, OneResizer
    <3>. QED  BY <1>2, <2>2, <3>1
  <2>. QED  BY <2>1, <2>2
<1>. QED  BY <1>1, <1>3 DEF IInv, StorageInv, OneResizer

LEMMA ResizeBeginStep ==
  ASSUME IInv, NEW t \in Threads, ResizeBegin(t)
  PROVE  IInv'
<1>. DEFINE b == at[t]
<1>. USE DEF IInv, StorageInv
<1>1. /\ pc[t] = "resize" /\ ~Resizes(t) /\ b \in Buckets
      /\ UNCHANGED <<elements, lists, size, capacity, changed_while_resize, m_size, at,
                     new_bucket, ret, found>>
  BY DEF ResizeBegin, Resizes, TypeOK
<1>2. CASE resizing[b]
  <2>1. pc' = [pc EXCEPT ![t] = "return"] /\ UNCHANGED <<resizing, bucket_capacity>>
    BY <1>2 DEF ResizeBegin, GoTo
  <2>2. TypeOK'
    BY <1>1, <2>1 DEF TypeOK
  <2>3. OneResizer' /\ CopyExact'
    BY <1>1, <2>1, SameResizers, SameCopies DEF TypeOK
  <2>4. \A u \in Threads : pc'[u] = "idle" => ret'[u] = None
    BY <1>1, <2>1 DEF TypeOK
  <2>. QED  BY <1>1, <2>2, <2>3, <2>4, SameElements
<1>3. CASE ~resizing[b]
  <2>1. /\ resizing' = [resizing EXCEPT ![b] = TRUE]
        /\ bucket_capacity' = [bucket_capacity EXCEPT ![t] = capacity[b] * ResizeFactor]
        /\ pc' = [pc EXCEPT ![t] = "copy"]
    BY <1>3 DEF ResizeBegin, GoTo
  <2>2. capacity[b] * ResizeFactor \in Nat
    BY <1>1, HashAssumption, ProductPositive DEF TypeOK
  <2>3. TypeOK'
    BY <1>1, <2>1, <2>2 DEF TypeOK
  <2>4. OneResizer'
    <3>1. \A u \in Threads : Resizes(u)' <=> u = t \/ Resizes(u)
      BY <2>1 DEF Resizes, TypeOK
    <3>2. \A u \in Threads : Resizes(u) => at[u] # b
      BY <1>1, <1>3 DEF OneResizer
    <3>3. \A u \in Threads : pc'[u] = "capacity" <=> pc[u] = "capacity"
      BY <1>1, <2>1 DEF TypeOK
    <3>4. \A c \in Buckets : resizing'[c] <=> c = b \/ resizing[c]
      BY <1>1, <2>1 DEF TypeOK
    <3>. QED  BY <1>1, <3>1, <3>2, <3>3, <3>4 DEF OneResizer
  <2>5. CopyExact'
    <3>1. CopyOf(t)'
      BY <1>1, <2>1 DEF CopyOf, TypeOK
    <3>2. \A u \in Threads \ {t} : CopyOf(u)'
      BY <1>1, <2>1, SameCopy DEF TypeOK
    <3>3. (\A u \in Threads : CopyOf(u))'
      BY <3>1, <3>2
    <3>. QED  BY <3>3, CopiesExact, PTL
  <2>6. \A u \in Threads : pc'[u] = "idle" => ret'[u] = None
    BY <1>1, <2>1 DEF TypeOK
  <2>. QED  BY <1>1, <2>3, <2>4, <2>5, <2>6, SameElements
<1>. QED  BY <1>2, <1>3

\* What Rehash makes of elements that are in their places.
LEMMA Rehashed ==
  ASSUME NEW es \in SUBSET Elements, NEW n \in Nat \ {0}
  PROVE  /\ Rehash(es, n) \in SUBSET Elements
         /\ \A f \in Rehash(es, n) : /\ f.list = Hash[f.key] % n
                                     /\ \E e \in es : f.key = e.key /\ f.value = e.value
         /\ \A e \in es : \E f \in Rehash(es, n) : f.key = e.key /\ f.value = e.value
<1>. DEFINE R(e) == [e EXCEPT !.list = Hash[e.key] % n]
<1>1. ASSUME NEW e \in es
      PROVE  /\ R(e) \in Elements /\ R(e).list = Hash[e.key] % n
             /\ R(e).key = e.key /\ R(e).value = e.value
  <2>1. Hash[e.key] % n \in Nat
    BY HashFits DEF Elements
  <2>. QED  BY <2>1, RehashedElement
<1>2. Rehash(es, n) = {R(e) : e \in es}
  BY DEF Rehash
<1>. HIDE DEF R
<1>. QED  BY <1>1, <1>2

LEMMA PrepareStep ==
  ASSUME IInv, NEW t \in Threads, Prepare(t)
  PROVE  IInv'
<1>. DEFINE b == at[t]
<1>. USE DEF IInv, StorageInv
<1>1. /\ pc[t] = "copy" /\ Resizes(t) /\ b \in Buckets
      /\ new_bucket' = [new_bucket EXCEPT ![t] = Rehash(elements[b], bucket_capacity[t])]
      /\ changed_while_resize' = [changed_while_resize EXCEPT ![b] = FALSE]
      /\ pc' = [pc EXCEPT ![t] = "swap"]
      /\ UNCHANGED <<elements, lists, size, capacity, resizing, m_size, at, bucket_capacity, ret, found>>
  BY DEF Prepare, GoTo, Resizes, TypeOK
<1>2. bucket_capacity[t] = capacity[b] * ResizeFactor /\ bucket_capacity[t] \in Nat \ {0}
  BY <1>1, HashAssumption, ProductPositive DEF CopyExact, TypeOK
<1>3. Rehash(elements[b], bucket_capacity[t]) \in SUBSET Elements
  BY <1>1, <1>2, Rehashed DEF TypeOK, Elements
<1>4. TypeOK'
  BY <1>1, <1>3 DEF TypeOK, Elements
<1>5. OneResizer'
  <2>1. lists[b] = capacity[b]
    BY <1>1 DEF OneResizer, Resizes
  <2>. QED  BY <1>1, <2>1, ResizerGoesOn
<1>6. CopyExact'
  <2>1. CopyOf(t)'
    BY <1>1, <1>2 DEF CopyOf, Rehash, TypeOK
  <2>2. ASSUME NEW u \in Threads \ {t}
        PROVE  CopyOf(u)'
    <3>1. Resizes(u) => at[u] # b
      BY <1>1 DEF OneResizer
    <3>. QED  BY <1>1, <3>1, SameCopy DEF TypeOK
  <2>3. (\A u \in Threads : CopyOf(u))'
    BY <2>1, <2>2
  <2>. QED  BY <2>3, CopiesExact, PTL
<1>7. \A u \in Threads : pc'[u] = "idle" => ret'[u] = None
  BY <1>1 DEF TypeOK
<1>. QED  BY <1>1, <1>4, <1>5, <1>6, <1>7, SameElements

LEMMA StoreCapacityStep ==
  ASSUME IInv, NEW t \in Threads, StoreCapacity(t)
  PROVE  IInv'
<1>. DEFINE b == at[t]
<1>. USE DEF IInv, StorageInv
<1>1. /\ pc[t] = "capacity" /\ Resizes(t) /\ b \in Buckets
      /\ capacity' = [capacity EXCEPT ![b] = bucket_capacity[t]]
      /\ pc' = [pc EXCEPT ![t] = "release"]
      /\ UNCHANGED <<elements, lists, size, resizing, changed_while_resize, m_size, at,
                     new_bucket, bucket_capacity, ret, found>>
  BY DEF StoreCapacity, GoTo, Resizes, TypeOK
<1>2. bucket_capacity[t] = lists[b]
  BY <1>1 DEF CopyExact
<1>3. TypeOK'
  BY <1>1, <1>2 DEF TypeOK
<1>4. OneResizer'
  <2>1. capacity'[b] = lists'[b] /\ \A c \in Buckets \ {b} : capacity'[c] = capacity[c] /\ lists'[c] = lists[c]
    BY <1>1, <1>2 DEF TypeOK
  <2>. QED  BY <1>1, <2>1, ResizerGoesOn
<1>5. CopyExact'
  <2>1. CopyOf(t)'
    BY <1>1, <1>2 DEF CopyOf, TypeOK
  <2>2. ASSUME NEW u \in Threads \ {t}
        PROVE  CopyOf(u)'
    <3>1. Resizes(u) => at[u] # b
      BY <1>1 DEF OneResizer
    <3>. QED  BY <1>1, <3>1, SameCopy DEF TypeOK
  <2>3. (\A u \in Threads : CopyOf(u))'
    BY <2>1, <2>2
  <2>. QED  BY <2>3, CopiesExact, PTL
<1>6. \A u \in Threads : pc'[u] = "idle" => ret'[u] = None
  BY <1>1 DEF TypeOK
<1>. QED  BY <1>1, <1>3, <1>4, <1>5, <1>6, SameElements

LEMMA ResizeEndStep ==
  ASSUME IInv, NEW t \in Threads, ResizeEnd(t)
  PROVE  IInv'
<1>. DEFINE b == at[t]
<1>. USE DEF IInv, StorageInv
<1>1. /\ pc[t] = "release" /\ Resizes(t) /\ b \in Buckets
      /\ resizing' = [resizing EXCEPT ![b] = FALSE]
      /\ bucket_capacity' = [bucket_capacity EXCEPT ![t] = 0]
      /\ pc' = [pc EXCEPT ![t] = "return"]
      /\ UNCHANGED <<elements, lists, size, capacity, changed_while_resize, m_size, at,
                     new_bucket, ret, found>>
  BY DEF ResizeEnd, GoTo, Resizes, TypeOK
<1>2. TypeOK'
  BY <1>1 DEF TypeOK
<1>3. OneResizer'
  <2>1. \A u \in Threads : Resizes(u)' <=> u # t /\ Resizes(u)
    BY <1>1 DEF Resizes, TypeOK
  <2>2. \A u \in Threads : Resizes(u) /\ at[u] = b => u = t
    BY <1>1 DEF OneResizer
  <2>3. \A u \in Threads : pc'[u] = "capacity" <=> pc[u] = "capacity"
    BY <1>1 DEF TypeOK
  <2>4. \A c \in Buckets : resizing'[c] <=> c # b /\ resizing[c]
    BY <1>1 DEF TypeOK
  <2>. QED  BY <1>1, <2>1, <2>2, <2>3, <2>4 DEF OneResizer
<1>4. CopyExact'
  <2>1. CopyOf(t)'
    BY <1>1 DEF CopyOf, TypeOK
  <2>2. \A u \in Threads \ {t} : CopyOf(u)'
    BY <1>1, SameCopy DEF TypeOK
  <2>3. (\A u \in Threads : CopyOf(u))'
    BY <2>1, <2>2
  <2>. QED  BY <2>3, CopiesExact, PTL
<1>5. \A u \in Threads : pc'[u] = "idle" => ret'[u] = None
  BY <1>1 DEF TypeOK
<1>. QED  BY <1>1, <1>2, <1>3, <1>4, <1>5, SameElements

\* A vector that is swapped in has as many elements as the one it replaces.
LEMMA SwapCounts ==
  ASSUME TypeOK, Placed, IsFiniteSet(AllElements), NEW b \in Buckets, NEW n \in Nat \ {0},
         elements' = [elements EXCEPT ![b] = Rehash(elements[b], n)]
  PROVE  IsFiniteSet(AllElements') /\ Cardinality(AllElements') = Cardinality(AllElements)
<1>. DEFINE R(e) == [e EXCEPT !.list = Hash[e.key] % n]
            F(e) == IF Bucket(e.key) = b THEN R(e) ELSE e
            f == [e \in AllElements |-> F(e)]
<1>1. /\ elements'[b] = {R(e) : e \in elements[b]}
      /\ \A c \in Buckets \ {b} : elements'[c] = elements[c]
  BY DEF TypeOK, Rehash
<1>2. /\ AllElements \subseteq Elements
      /\ \A c \in Buckets : elements[c] = {e \in AllElements : Bucket(e.key) = c}
      /\ \A e \in AllElements : Bucket(e.key) \in Buckets
  BY ElementsOf, HashFits DEF Elements
<1>3. \A e, g \in AllElements : e.key = g.key => e = g
  BY <1>2 DEF Placed
<1>4. \A e \in AllElements : R(e).key = e.key
  <2>1. \A e \in AllElements : Hash[e.key] % n \in Nat
    BY <1>2, HashFits DEF Elements
  <2>. QED  BY <1>2, <2>1, RehashedElement
<1>5. AllElements' = UNION {elements'[c] : c \in Buckets}
  BY DEF AllElements
<1>. HIDE DEF R
<1>6. \A e \in AllElements : F(e) \in AllElements' /\ F(e).key = e.key
  BY <1>1, <1>2, <1>4, <1>5
<1>7. \A x \in AllElements' : \E e \in AllElements : x = F(e)
  <2>. SUFFICES ASSUME NEW c \in Buckets, NEW x \in elements'[c]
                PROVE  \E e \in AllElements : x = F(e)
    BY <1>5
  <2>1. CASE c = b
    BY <1>1, <1>2, <2>1
  <2>2. CASE c # b
    BY <1>1, <1>2, <2>2
  <2>. QED  BY <2>1, <2>2
<1>. HIDE DEF F
<1>8. f \in Bijection(AllElements, AllElements')
  <2>1. f \in [AllElements -> AllElements']
    BY <1>6
  <2>2. \A e, g \in AllElements : f[e] = f[g] => e = g
    BY <1>3, <1>6
  <2>3. \A x \in AllElements' : \E e \in AllElements : f[e] = x
    BY <1>7
  <2>. QED  BY <2>1, <2>2, <2>3 DEF Bijection, Injection, IsInjective, Surjection
<1>9. ExistsBijection(AllElements, AllElements')
  BY <1>8 DEF ExistsBijection
<1>. QED  BY <1>9, FS_Bijection

LEMMA SwapStep ==
  ASSUME IInv, NEW t \in Threads, Swap(t)
  PROVE  IInv'
<1>. DEFINE b == at[t]
            n == bucket_capacity[t]
<1>. USE DEF IInv, StorageInv
<1>1. /\ pc[t] = "swap" /\ Resizes(t) /\ b \in Buckets
      /\ new_bucket' = [new_bucket EXCEPT ![t] = {}]
      /\ UNCHANGED <<size, capacity, resizing, changed_while_resize, m_size, at, bucket_capacity, ret>>
  BY DEF Swap, Resizes, TypeOK
<1>2. n = capacity[b] * ResizeFactor /\ n \in Nat \ {0}
  BY <1>1, HashAssumption, ProductPositive DEF CopyExact, TypeOK
<1>3. \A u \in Threads \ {t} : Resizes(u) => at[u] # b
  BY <1>1 DEF OneResizer
<1>4. CASE changed_while_resize[b]
  <2>1. pc' = [pc EXCEPT ![t] = "copy"] /\ UNCHANGED <<elements, lists, found>>
    BY <1>4 DEF Swap, GoTo
  <2>2. TypeOK'
    BY <1>1, <2>1 DEF TypeOK
  <2>3. OneResizer'
    <3>1. lists[b] = capacity[b]
      BY <1>1, <1>3 DEF OneResizer, Resizes
    <3>. QED  BY <1>1, <2>1, <3>1, ResizerGoesOn
  <2>4. CopyExact'
    <3>1. CopyOf(t)'
      BY <1>1, <1>2, <2>1 DEF CopyOf, TypeOK
    <3>2. \A u \in Threads \ {t} : CopyOf(u)'
      BY <1>1, <2>1, SameCopy DEF TypeOK
    <3>3. (\A u \in Threads : CopyOf(u))'
      BY <3>1, <3>2
    <3>. QED  BY <3>3, CopiesExact, PTL
  <2>5. \A u \in Threads : pc'[u] = "idle" => ret'[u] = None
    BY <1>1, <2>1 DEF TypeOK
  <2>. QED  BY <1>1, <2>1, <2>2, <2>3, <2>4, <2>5, SameElements
<1>5. CASE ~changed_while_resize[b]
  <2>1. /\ elements' = [elements EXCEPT ![b] = new_bucket[t]]
        /\ lists' = [lists EXCEPT ![b] = n] /\ found' = Deleted(b, Keys)
        /\ pc' = [pc EXCEPT ![t] = "capacity"]
    BY <1>5 DEF Swap, GoTo
  <2>2. elements' = [elements EXCEPT ![b] = Rehash(elements[b], n)]
    BY <1>1, <1>5, <2>1 DEF CopyExact
  <2>3. /\ elements[b] \in SUBSET Elements /\ Rehash(elements[b], n) \in SUBSET Elements
        /\ \A f \in Rehash(elements[b], n) : /\ f.list = Hash[f.key] % n
                                             /\ \E e \in elements[b] : f.key = e.key /\ f.value = e.value
    <3>1. elements[b] \in SUBSET Elements
      BY <1>1 DEF TypeOK, Elements
    <3>. QED  BY <1>2, <3>1, Rehashed
  <2>4. /\ elements'[b] = Rehash(elements[b], n) /\ lists'[b] = n
        /\ \A c \in Buckets \ {b} : elements'[c] = elements[c] /\ lists'[c] = lists[c]
    BY <1>1, <2>1, <2>2 DEF TypeOK
  <2>5. TypeOK'
    <3>1. elements' \in [Buckets -> SUBSET Elements]
      BY <1>1, <2>2, <2>3 DEF TypeOK, Elements
    <3>2. found' \in [Threads -> Keys \cup {None, Dangling}]
      BY <2>1 DEF TypeOK, Deleted
    <3>3. lists' \in [Buckets -> Nat \ {0}] /\ pc' \in [Threads -> {"idle", "return", "resize", "copy", "swap", "capacity", "release"}]
      BY <1>1, <1>2, <2>1 DEF TypeOK
    <3>. QED  BY <1>1, <3>1, <3>2, <3>3 DEF TypeOK, Elements
  <2>6. Placed'
    <3>1. ASSUME NEW c \in Buckets, NEW e \in elements'[c]
          PROVE  /\ Bucket(e.key) = c /\ e.list = Hash[e.key] % lists'[c]
                 /\ \A f \in elements'[c] : f.key = e.key => f = e
      <4>1. CASE c # b
        BY <2>4, <3>1, <4>1 DEF Placed
      <4>2. CASE c = b
        <5>1. PICK g \in elements[b] : e.key = g.key /\ e.value = g.value
          BY <2>3, <2>4, <3>1, <4>2
        <5>2. Bucket(e.key) = b /\ e.list = Hash[e.key] % n
          BY <1>1, <2>3, <2>4, <3>1, <4>2, <5>1 DEF Placed
        <5>3. ASSUME NEW f \in elements'[b], f.key = e.key PROVE f = e
          <6>1. PICK h \in elements[b] : f.key = h.key /\ f.value = h.value
            BY <2>3, <2>4
          <6>2. g = h
            <7>1. h.key = g.key
              BY <5>1, <5>3, <6>1
            <7>. HIDE DEF b, n
            <7>. QED  BY <1>1, <7>1 DEF Placed
          <6>3. f.list = e.list /\ f \in Elements /\ e \in Elements
            BY <2>3, <2>4, <3>1, <4>2, <5>3
          <6>. QED  BY <5>1, <5>3, <6>1, <6>2, <6>3, ElementsEqual
        <5>. QED  BY <2>4, <4>2, <5>2, <5>3
      <4>. QED  BY <4>1, <4>2
    <3>. QED  BY <3>1 DEF Placed, Bucket
  <2>7. OneResizer'
    BY <1>1, <2>1, <2>4, ResizerGoesOn
  <2>8. CopyExact'
    <3>1. CopyOf(t)'
      BY <1>1, <2>1, <2>4 DEF CopyOf, TypeOK
    <3>2. ASSUME NEW u \in Threads \ {t}
          PROVE  CopyOf(u)'
      <4>1. at[u] \in Buckets
        BY DEF TypeOK
      <4>. QED  BY <1>1, <1>3, <2>1, <2>4, <4>1, SameCopy DEF TypeOK
    <3>3. (\A u \in Threads : CopyOf(u))'
      BY <3>1, <3>2
    <3>. QED  BY <3>3, CopiesExact, PTL
  <2>9. IsFiniteSet(AllElements)' /\ (m_size = Cardinality(AllElements))'
    BY <1>1, <1>2, <2>2, SwapCounts
  <2>10. \A u \in Threads : pc'[u] = "idle" => ret'[u] = None
    BY <1>1, <2>1 DEF TypeOK
  <2>. QED  BY <2>5, <2>6, <2>7, <2>8, <2>9, <2>10
<1>. QED  BY <1>4, <1>5

LEMMA NextInv == IInv /\ [Next]_vars => IInv'
<1>. SUFFICES ASSUME IInv, [Next]_vars PROVE IInv'
  OBVIOUS
<1>1. ASSUME NEW t \in Threads, Call(t) PROVE IInv'
  BY <1>1, RenewStep, InsertStep, RemoveStep, LookupStep DEF Call, Emplace
<1>2. ASSUME NEW t \in Threads, CallStep(t) PROVE IInv'
  BY <1>2, ResizeBeginStep, PrepareStep, SwapStep, StoreCapacityStep, ResizeEndStep, ReturnStep DEF CallStep, UnlockedStep
<1>3. CASE UNCHANGED vars
  <2>1. TypeOK' /\ OneResizer'
    BY <1>3 DEF vars, IInv, StorageInv, TypeOK, OneResizer, Resizes
  <2>2. CopyExact'
    BY <1>3 DEF vars, IInv, StorageInv, CopyExact, Rehash
  <2>. QED  BY <1>3, <2>1, <2>2, SameElements DEF vars, IInv, StorageInv
<1>. QED  BY <1>1, <1>2, <1>3 DEF Next

\* At all times every element of hash_storage is in the list its key hashes
\* to, no key is there twice, one thread at a time resizes a bucket, the copy
\* it swaps in is what it swaps out, and size() counts the elements.
THEOREM StorageCorrect == Spec => []StorageInv
<1>1. Init => IInv
  BY InitInv
<1>2. IInv /\ [Next]_vars => IInv'
  BY NextInv
<1>3. IInv => StorageInv
  BY DEF IInv
<1>. QED  BY <1>1, <1>2, <1>3, PTL DEF Spec

-----------------------------------------------------------------------------
(* The storage is a map *)

Map == [k \in Keys |-> ValueOf(k)]

\* The table has an element with this key and this value.
Holds(k, v) == \E e \in elements[Bucket(k)] : e.key = k /\ e.value = v

\* The map is what the table holds.
MapExact == \A k \in Keys :
  /\ \A v \in Values : Holds(k, v) => ValueOf(k) = v
  /\ (\A v \in Values : ~Holds(k, v)) => ValueOf(k) = None
  /\ ValueOf(k) = None <=> FindLocked(k) = {}

LEMMA MapIsExact == IInv => MapExact
<1>. SUFFICES ASSUME IInv, NEW k \in Keys
              PROVE  /\ \A v \in Values : Holds(k, v) => ValueOf(k) = v
                     /\ (\A v \in Values : ~Holds(k, v)) => ValueOf(k) = None
                     /\ ValueOf(k) = None <=> FindLocked(k) = {}
  BY DEF MapExact
<1>1. TypeOK /\ Placed
  BY DEF IInv, StorageInv
<1>2. FindLocked(k) = {e \in elements[Bucket(k)] : e.key = k}
  BY <1>1, FoundIsKey
<1>3. \A e \in elements[Bucket(k)] : e.value \in Values
  BY <1>1, HashFits DEF TypeOK
<1>4. /\ FindLocked(k) = {} => ValueOf(k) = None
      /\ \A e \in FindLocked(k) : ValueOf(k) = e.value
      /\ FindLocked(k) # {} => ValueOf(k) # None
  BY <1>1, FoundValue, HashAssumption
<1>. QED  BY <1>2, <1>3, <1>4 DEF Holds

\* Tables that hold the same are the same map, and a table that differs at
\* one key is a map that differs at that key.
LEMMA SameMap ==
  ASSUME MapExact, MapExact', \A k \in Keys, v \in Values : Holds(k, v)' <=> Holds(k, v)
  PROVE  Map' = Map
<1>1. ASSUME NEW k \in Keys PROVE ValueOf(k)' = ValueOf(k)
  <2>1. CASE \E v \in Values : Holds(k, v)
    <3>1. PICK v \in Values : Holds(k, v)
      BY <2>1
    <3>. QED  BY <3>1 DEF MapExact
  <2>2. CASE \A v \in Values : ~Holds(k, v)
    BY <2>2 DEF MapExact
  <2>. QED  BY <2>1, <2>2
<1>. QED  BY <1>1 DEF Map

LEMMA MapExceptAt ==
  ASSUME MapExact, MapExact', NEW k \in Keys, NEW w \in Values \cup {None},
         \A i \in Keys \ {k}, v \in Values : Holds(i, v)' <=> Holds(i, v),
         \A v \in Values : Holds(k, v)' <=> v = w, None \notin Values
  PROVE  Map' = [Map EXCEPT ![k] = w]
<1>1. ASSUME NEW i \in Keys \ {k} PROVE ValueOf(i)' = ValueOf(i)
  <2>1. CASE \E v \in Values : Holds(i, v)
    <3>1. PICK v \in Values : Holds(i, v)
      BY <2>1
    <3>. QED  BY <3>1 DEF MapExact
  <2>2. CASE \A v \in Values : ~Holds(i, v)
    BY <2>2 DEF MapExact
  <2>. QED  BY <2>1, <2>2
<1>2. ValueOf(k)' = w
  BY DEF MapExact
<1>. QED  BY <1>1, <1>2 DEF Map

LEMMA RenewIsPut ==
  ASSUME IInv, MapExact, MapExact', NEW t \in Threads, NEW k \in Keys, NEW v \in Values, Renew(t, k, v)
  PROVE  M!Put(t, k, v)
<1>1. /\ Bucket(k) \in Buckets /\ pc[t] = "idle" /\ FindLocked(k) # {} /\ ret[t] = None
      /\ elements' = [elements EXCEPT ![Bucket(k)] = (@ \ FindLocked(k)) \cup {Element(k, v)}]
      /\ ret' = [ret EXCEPT ![t] = FALSE]
  BY HashFits DEF Renew, Answer, IInv
<1>2. TypeOK /\ Placed
  BY DEF IInv, StorageInv
<1>3. Element(k, v).key = k /\ Element(k, v).value = v /\ FindLocked(k) = {e \in elements[Bucket(k)] : e.key = k}
  BY <1>2, ElementFits, FoundIsKey
<1>4. /\ elements'[Bucket(k)] = (elements[Bucket(k)] \ FindLocked(k)) \cup {Element(k, v)}
      /\ \A b \in Buckets \ {Bucket(k)} : elements'[b] = elements[b]
  BY <1>1, <1>2 DEF TypeOK
<1>5. \A i \in Keys \ {k}, w \in Values : Holds(i, w)' <=> Holds(i, w)
  BY <1>3, <1>4, HashFits DEF Holds, Bucket
<1>6. \A w \in Values : Holds(k, w)' <=> w = v
  BY <1>3, <1>4 DEF Holds, Bucket
<1>7. Map' = [Map EXCEPT ![k] = v]
  BY <1>5, <1>6, MapExceptAt, HashAssumption
<1>8. (Map[k] = None) = FALSE
  BY <1>1 DEF MapExact, Map
<1>. QED  BY <1>1, <1>7, <1>8 DEF Map, M!Put, M!Answer

LEMMA InsertIsPut ==
  ASSUME IInv, MapExact, MapExact', NEW t \in Threads, NEW k \in Keys, NEW v \in Values, Insert(t, k, v)
  PROVE  M!Put(t, k, v)
<1>1. /\ Bucket(k) \in Buckets /\ pc[t] = "idle" /\ FindLocked(k) = {} /\ ret[t] = None
      /\ elements' = [elements EXCEPT ![Bucket(k)] = @ \cup {Element(k, v)}]
      /\ ret' = [ret EXCEPT ![t] = TRUE]
  BY HashFits DEF Insert, Answer, IInv
<1>2. TypeOK /\ Placed
  BY DEF IInv, StorageInv
<1>3. Element(k, v).key = k /\ Element(k, v).value = v /\ FindLocked(k) = {e \in elements[Bucket(k)] : e.key = k}
  BY <1>2, ElementFits, FoundIsKey
<1>4. /\ elements'[Bucket(k)] = elements[Bucket(k)] \cup {Element(k, v)}
      /\ \A b \in Buckets \ {Bucket(k)} : elements'[b] = elements[b]
  BY <1>1, <1>2 DEF TypeOK
<1>5. \A i \in Keys \ {k}, w \in Values : Holds(i, w)' <=> Holds(i, w)
  BY <1>3, <1>4, HashFits DEF Holds, Bucket
<1>6. \A w \in Values : Holds(k, w)' <=> w = v
  BY <1>1, <1>3, <1>4 DEF Holds, Bucket
<1>7. Map' = [Map EXCEPT ![k] = v]
  BY <1>5, <1>6, MapExceptAt, HashAssumption
<1>8. (Map[k] = None) = TRUE
  BY <1>1 DEF MapExact, Map
<1>. QED  BY <1>1, <1>7, <1>8 DEF Map, M!Put, M!Answer

LEMMA RemoveIsErase ==
  ASSUME IInv, MapExact, MapExact', NEW t \in Threads, NEW k \in Keys, Remove(t, k)
  PROVE  M!Erase(k)
<1>1. /\ Bucket(k) \in Buckets /\ UNCHANGED ret
      /\ elements' = [elements EXCEPT ![Bucket(k)] = @ \ FindLocked(k)]
  BY HashFits DEF Remove
<1>2. TypeOK /\ Placed
  BY DEF IInv, StorageInv
<1>3. FindLocked(k) = {e \in elements[Bucket(k)] : e.key = k}
  BY <1>2, FoundIsKey
<1>4. /\ elements'[Bucket(k)] = elements[Bucket(k)] \ FindLocked(k)
      /\ \A b \in Buckets \ {Bucket(k)} : elements'[b] = elements[b]
  BY <1>1, <1>2 DEF TypeOK
<1>5. \A i \in Keys \ {k}, w \in Values : Holds(i, w)' <=> Holds(i, w)
  BY <1>3, <1>4, HashFits DEF Holds, Bucket
<1>6. \A w \in Values : Holds(k, w)' <=> w = None
  BY <1>3, <1>4, HashAssumption DEF Holds, Bucket
<1>7. Map' = [Map EXCEPT ![k] = None]
  BY <1>5, <1>6, MapExceptAt, HashAssumption
<1>. QED  BY <1>1, <1>7 DEF Map, M!Erase

LEMMA LookupIsLookup ==
  ASSUME IInv, MapExact, MapExact', NEW t \in Threads, NEW k \in Keys, Obtain(t, k) \/ Find(t, k)
  PROVE  M!Get(t, k) \/ M!Contains(t, k)
<1>1. UNCHANGED <<elements, lists>> /\ ret[t] = None
  BY DEF Obtain, Find, Answer, IInv
<1>2. Map' = Map
  BY <1>1, SameMap DEF Holds, Bucket
<1>3. Map[k] = ValueOf(k)
  BY DEF Map
<1>4. CASE Obtain(t, k)
  <2>1. ret' = [ret EXCEPT ![t] = ValueOf(k)]
    BY <1>4 DEF Obtain, Answer, ValueOf
  <2>. QED  BY <1>1, <1>2, <1>3, <2>1 DEF Map, M!Get, M!Answer
<1>5. CASE Find(t, k)
  <2>1. ret' = [ret EXCEPT ![t] = (FindLocked(k) # {})]
    BY <1>5 DEF Find, Answer
  <2>2. (FindLocked(k) # {}) = (Map[k] # None)
    BY <1>3 DEF MapExact
  <2>. QED  BY <1>1, <1>2, <2>1, <2>2 DEF Map, M!Contains, M!Answer
<1>. QED  BY <1>4, <1>5

\* The vector that Swap puts in holds what the old one holds.
LEMMA SwapHoldsTheSame ==
  ASSUME IInv, MapExact, MapExact', NEW t \in Threads, Swap(t)
  PROVE  Map' = Map
<1>. DEFINE b == at[t]
            n == bucket_capacity[t]
<1>1. pc[t] = "swap" /\ b \in Buckets /\ TypeOK
  BY DEF Swap, IInv, StorageInv, TypeOK
<1>2. CASE changed_while_resize[b]
  <2>1. elements' = elements
    BY <1>2 DEF Swap
  <2>. QED  BY <2>1, SameMap DEF Holds, Bucket
<1>3. CASE ~changed_while_resize[b]
  <2>1. elements' = [elements EXCEPT ![b] = new_bucket[t]] /\ new_bucket[t] = Rehash(elements[b], n)
    BY <1>1, <1>3 DEF Swap, IInv, StorageInv, CopyExact
  <2>2. /\ elements'[b] = Rehash(elements[b], n)
        /\ \A c \in Buckets \ {b} : elements'[c] = elements[c]
    BY <1>1, <2>1 DEF TypeOK
  <2>3. elements[b] \in SUBSET Elements /\ n \in Nat \ {0}
    BY <1>1, HashAssumption, ProductPositive DEF IInv, StorageInv, CopyExact, TypeOK, Elements
  <2>4. /\ \A f \in Rehash(elements[b], n) : \E e \in elements[b] : f.key = e.key /\ f.value = e.value
        /\ \A e \in elements[b] : \E f \in Rehash(elements[b], n) : f.key = e.key /\ f.value = e.value
    BY <2>3, Rehashed
  <2>5. \A i \in Keys, w \in Values : Holds(i, w)' <=> Holds(i, w)
    BY <2>2, <2>4, HashFits DEF Holds, Bucket
  <2>. QED  BY <2>5, SameMap
<1>. QED  BY <1>2, <1>3

LEMMA MapStep == IInv /\ MapExact /\ MapExact' /\ [Next]_vars => [M!Next]_M!vars
<1>. SUFFICES ASSUME IInv, MapExact, MapExact', [Next]_vars
              PROVE  M!Next \/ UNCHANGED M!vars
  OBVIOUS
<1>1. ASSUME NEW t \in Threads, Call(t) PROVE M!Next
  <2>1. PICK k \in Keys : Obtain(t, k) \/ Find(t, k) \/ Remove(t, k) \/ \E v \in Values : Emplace(t, k, v)
    BY <1>1 DEF Call
  <2>2. CASE Obtain(t, k) \/ Find(t, k)
    BY <2>2, LookupIsLookup DEF M!Next
  <2>3. CASE Remove(t, k)
    BY <2>3, RemoveIsErase DEF M!Next
  <2>4. ASSUME NEW v \in Values, Emplace(t, k, v) PROVE M!Next
    BY <2>4, RenewIsPut, InsertIsPut DEF Emplace, M!Next
  <2>. QED  BY <2>1, <2>2, <2>3, <2>4
<1>2. ASSUME NEW t \in Threads, CallStep(t) PROVE M!Next \/ UNCHANGED M!vars
  <2>1. CASE Return(t)
    <3>1. elements' = elements /\ ret' = [ret EXCEPT ![t] = None]
      BY <2>1 DEF Return, bucketVars
    <3>2. Map' = Map
      BY <3>1, SameMap DEF Holds, Bucket
    <3>. QED  BY <3>1, <3>2 DEF Map, M!Next, M!Return
  <2>2. CASE Swap(t)
    <3>1. Map' = Map /\ ret' = ret
      BY <2>2, SwapHoldsTheSame DEF Swap
    <3>. QED  BY <3>1 DEF Map, M!vars
  <2>3. CASE ResizeBegin(t) \/ Prepare(t) \/ StoreCapacity(t) \/ ResizeEnd(t)
    <3>1. UNCHANGED <<elements, ret>>
      BY <2>3 DEF ResizeBegin, Prepare, StoreCapacity, ResizeEnd
    <3>2. Map' = Map
      BY <3>1, SameMap DEF Holds, Bucket
    <3>. QED  BY <3>1, <3>2 DEF Map, M!vars
  <2>. QED  BY <1>2, <2>1, <2>2, <2>3 DEF CallStep, UnlockedStep
<1>3. CASE UNCHANGED vars
  <2>1. UNCHANGED <<elements, ret>>
    BY <1>3 DEF vars
  <2>2. Map' = Map
    BY <2>1, SameMap DEF Holds, Bucket
  <2>. QED  BY <2>1, <2>2 DEF Map, M!vars
<1>. QED  BY <1>1, <1>2, <1>3 DEF Next

LEMMA MapInit == Init => M!Init
<1>. SUFFICES ASSUME Init PROVE M!Init
  OBVIOUS
<1>1. \A k \in Keys : FindLocked(k) = {}
  BY HashFits DEF Init, FindLocked
<1>2. \A k \in Keys : ValueOf(k) = None
  BY <1>1 DEF ValueOf
<1>. QED  BY <1>2 DEF Init, M!Init

\* Every call of hash_storage takes effect at one moment and answers for it,
\* and no step of a resize is seen by any caller.
THEOREM StorageIsMap == Spec => ImplementsMap
<1>1. Init => IInv
  BY InitInv
<1>2. IInv /\ [Next]_vars => IInv'
  BY NextInv
<1>3. IInv => MapExact
  BY MapIsExact
<1>4. Init => M!Init
  BY MapInit
<1>5. IInv /\ MapExact /\ MapExact' /\ [Next]_vars => [M!Next]_M!vars
  BY MapStep
<1>. QED  BY <1>1, <1>2, <1>3, <1>4, <1>5, PTL DEF Spec, ImplementsMap, M!Spec
=============================================================================
