---------------------------- MODULE HashStorage -----------------------------
(***************************************************************************)
(* hash_storage, the table under hash_set and hash_map.  A key's hash      *)
(* picks one of BucketsCount buckets; a bucket is a vector of collision    *)
(* lists under its own read-write lock.  emplace, when a bucket gets too   *)
(* full, doubles its lists: it copies them under the shared lock and       *)
(* swaps the copy in under the exclusive one, and starts again if somebody *)
(* changed the bucket in between.  What a lock protects happens in one     *)
(* step, as RwSpinlock shows it may.  A collision list holds a key once,   *)
(* so the order in it tells nothing, and a bucket is the set of its        *)
(* elements, each with the list it is in.                                  *)
(***************************************************************************)
EXTENDS Naturals, FiniteSets

CONSTANTS Threads, Keys, Values, None,
          Hash,                        \* m_hasher
          BucketsCount, ResizeFactor,  \* 8 and 2
          Dangling,                    \* a pointer to a deleted element
          MaxSize                      \* bound on the elements ever put into a bucket

ASSUME HashAssumption ==
  /\ Hash \in [Keys -> Nat] /\ BucketsCount \in Nat \ {0} /\ ResizeFactor \in Nat \ {0}
  /\ MaxSize \in Nat /\ None \notin Values /\ None \notin BOOLEAN
  /\ None \notin Keys /\ Dangling \notin Keys /\ None # Dangling

Buckets == 0..(BucketsCount - 1)

VARIABLES elements,               \* of each bucket, as [list, key, value]
          lists,                  \* of each bucket: how many lists its vector has
          size, capacity, resizing, changed_while_resize,  \* of each bucket
          m_size,
          pc, at,                 \* of each thread: its step, and the bucket it resizes
          new_bucket,             \* of each thread: the copy it prepares
          bucket_capacity,        \* of each thread: how many lists the copy has
          ret,                    \* what the call will return
          found                   \* the element a pointer from find is to, by its key
bucketVars == <<elements, lists, size, capacity, resizing, changed_while_resize, m_size>>
callVars   == <<pc, at, new_bucket, bucket_capacity, ret, found>>
vars == <<elements, lists, size, capacity, resizing, changed_while_resize, m_size,
          pc, at, new_bucket, bucket_capacity, ret, found>>

Init == /\ elements = [b \in Buckets |-> {}] /\ lists = [b \in Buckets |-> 1]
        /\ size = [b \in Buckets |-> 1] /\ capacity = [b \in Buckets |-> 1]
        /\ resizing = [b \in Buckets |-> FALSE]
        /\ changed_while_resize = [b \in Buckets |-> TRUE]
        /\ m_size = 0
        /\ pc = [t \in Threads |-> "idle"] /\ at = [t \in Threads |-> 0]
        /\ new_bucket = [t \in Threads |-> {}] /\ bucket_capacity = [t \in Threads |-> 0]
        /\ ret = [t \in Threads |-> None] /\ found = [t \in Threads |-> None]

-----------------------------------------------------------------------------
Bucket(k) == Hash[k] % BucketsCount

\* find_locked: the elements with key k in the list where k belongs.
FindLocked(k) == {e \in elements[Bucket(k)] : e.list = Hash[k] % lists[Bucket(k)] /\ e.key = k}

\* What happens to the pointers that find gave out when elements of bucket b
\* with these keys are deleted.
Deleted(b, keys) == [t \in Threads |->
  IF found[t] \in keys /\ Bucket(found[t]) = b THEN Dangling ELSE found[t]]

GoTo(t, step) == pc' = [pc EXCEPT ![t] = step]
Element(k, v) == [list |-> Hash[k] % lists[Bucket(k)], key |-> k, value |-> v]

\* The call begins when it has the lock and begins to return when it unlocks.
Answer(t, a) == /\ ret' = [ret EXCEPT ![t] = a]
                /\ UNCHANGED <<lists, capacity, resizing, new_bucket, bucket_capacity>>

-----------------------------------------------------------------------------
(* emplace *)

\* The value is renewed and the bucket has changed.
Renew_Unnoticed(t, k, v) ==
  /\ pc[t] = "idle" /\ FindLocked(k) # {}
  /\ elements' = [elements EXCEPT ![Bucket(k)] = (@ \ FindLocked(k)) \cup {Element(k, v)}]
  /\ Answer(t, FALSE) /\ GoTo(t, "return")
  /\ UNCHANGED <<size, m_size, changed_while_resize, at, found>>
Renew(t, k, v) ==
  /\ pc[t] = "idle" /\ FindLocked(k) # {}
  /\ elements' = [elements EXCEPT ![Bucket(k)] = (@ \ FindLocked(k)) \cup {Element(k, v)}]
  /\ changed_while_resize' = [changed_while_resize EXCEPT ![Bucket(k)] = TRUE]
  /\ Answer(t, FALSE) /\ GoTo(t, "return")
  /\ UNCHANGED <<size, m_size, at, found>>

Insert(t, k, v) ==
  LET b == Bucket(k) IN
  /\ pc[t] = "idle" /\ FindLocked(k) = {} /\ size[b] < MaxSize
  /\ elements' = [elements EXCEPT ![b] = @ \cup {Element(k, v)}]
  /\ size' = [size EXCEPT ![b] = @ + 1] /\ m_size' = m_size + 1
  /\ changed_while_resize' = [changed_while_resize EXCEPT ![b] = TRUE]
  /\ Answer(t, TRUE)
  /\ IF size'[b] * ResizeFactor > capacity[b]
       THEN GoTo(t, "resize") /\ at' = [at EXCEPT ![t] = b]
       ELSE GoTo(t, "return") /\ UNCHANGED at
  /\ UNCHANGED found

Emplace(t, k, v) == Renew(t, k, v) \/ Insert(t, k, v)

-----------------------------------------------------------------------------
(* obtain, find and remove *)

Obtain(t, k) == /\ pc[t] = "idle"
                /\ Answer(t, IF FindLocked(k) = {} THEN None
                             ELSE (CHOOSE e \in FindLocked(k) : TRUE).value)
                /\ GoTo(t, "return")
                /\ UNCHANGED <<elements, size, changed_while_resize, m_size, at, found>>

\* The pointer is used after the lock is released.
Find(t, k) == /\ pc[t] = "idle"
              /\ Answer(t, FindLocked(k) # {})
              /\ found' = [found EXCEPT ![t] = IF FindLocked(k) = {} THEN None ELSE k]
              /\ GoTo(t, "return")
              /\ UNCHANGED <<elements, size, changed_while_resize, m_size, at>>

\* size is not lowered.
Remove(t, k) == /\ pc[t] = "idle"
                /\ elements' = [elements EXCEPT ![Bucket(k)] = @ \ FindLocked(k)]
                /\ changed_while_resize' = [changed_while_resize EXCEPT ![Bucket(k)] = TRUE]
                /\ m_size' = IF FindLocked(k) = {} THEN m_size ELSE m_size - 1
                /\ found' = IF FindLocked(k) = {} THEN found ELSE Deleted(Bucket(k), {k})
                /\ UNCHANGED <<lists, size, capacity, resizing, pc, at, new_bucket,
                               bucket_capacity, ret>>

-----------------------------------------------------------------------------
(* resize *)

\* One thread resizes a bucket; another that wants to leaves it to that one.
ResizeBegin(t) ==
  /\ pc[t] = "resize"
  /\ IF resizing[at[t]]
       THEN GoTo(t, "return") /\ UNCHANGED <<resizing, bucket_capacity>>
       ELSE /\ resizing' = [resizing EXCEPT ![at[t]] = TRUE]
            /\ bucket_capacity' = [bucket_capacity EXCEPT ![t] = capacity[at[t]] * ResizeFactor]
            /\ GoTo(t, "copy")
  /\ UNCHANGED <<elements, lists, size, capacity, changed_while_resize, m_size, at,
                 new_bucket, ret, found>>

Rehash_Kept(es, n) == es
Rehash(es, n) == {[e EXCEPT !.list = Hash[e.key] % n] : e \in es}

\* Under the shared lock.
Prepare_NoReset(t) ==
  /\ pc[t] = "copy"
  /\ new_bucket' = [new_bucket EXCEPT ![t] = Rehash(elements[at[t]], bucket_capacity[t])]
  /\ GoTo(t, "swap")
  /\ UNCHANGED <<elements, lists, size, capacity, resizing, changed_while_resize, m_size, at,
                 bucket_capacity, ret, found>>
Prepare(t) ==
  /\ pc[t] = "copy"
  /\ new_bucket' = [new_bucket EXCEPT ![t] = Rehash(elements[at[t]], bucket_capacity[t])]
  /\ changed_while_resize' = [changed_while_resize EXCEPT ![at[t]] = FALSE]
  /\ GoTo(t, "swap")
  /\ UNCHANGED <<elements, lists, size, capacity, resizing, m_size, at, bucket_capacity, ret, found>>

\* Under the exclusive lock: the old lists, and what is in them, are deleted.
Swap(t) ==
  /\ pc[t] = "swap"
  /\ new_bucket' = [new_bucket EXCEPT ![t] = {}]
  /\ IF changed_while_resize[at[t]]
       THEN GoTo(t, "copy") /\ UNCHANGED <<elements, lists, found>>
       ELSE /\ elements' = [elements EXCEPT ![at[t]] = new_bucket[t]]
            /\ lists' = [lists EXCEPT ![at[t]] = bucket_capacity[t]]
            /\ found' = Deleted(at[t], Keys)
            /\ GoTo(t, "capacity")
  /\ UNCHANGED <<size, capacity, resizing, changed_while_resize, m_size, at, bucket_capacity, ret>>

\* Without a lock.
StoreCapacity(t) ==
  /\ pc[t] = "capacity"
  /\ capacity' = [capacity EXCEPT ![at[t]] = bucket_capacity[t]]
  /\ GoTo(t, "release")
  /\ UNCHANGED <<elements, lists, size, resizing, changed_while_resize, m_size, at,
                 new_bucket, bucket_capacity, ret, found>>

ResizeEnd(t) ==
  /\ pc[t] = "release"
  /\ resizing' = [resizing EXCEPT ![at[t]] = FALSE]
  /\ bucket_capacity' = [bucket_capacity EXCEPT ![t] = 0]
  /\ GoTo(t, "return")
  /\ UNCHANGED <<elements, lists, size, capacity, changed_while_resize, m_size, at,
                 new_bucket, ret, found>>

Return(t) == /\ pc[t] = "return" /\ GoTo(t, "idle")
             /\ ret' = [ret EXCEPT ![t] = None] /\ found' = [found EXCEPT ![t] = None]
             /\ at' = [at EXCEPT ![t] = 0]
             /\ UNCHANGED <<bucketVars, new_bucket, bucket_capacity>>

-----------------------------------------------------------------------------
UnlockedStep(t) == ResizeBegin(t) \/ StoreCapacity(t) \/ ResizeEnd(t) \/ Return(t)
CallStep(t) == UnlockedStep(t) \/ Prepare(t) \/ Swap(t)
Call(t) == \E k \in Keys : Obtain(t, k) \/ Find(t, k) \/ Remove(t, k) \/ \E v \in Values : Emplace(t, k, v)

Next == \E t \in Threads : Call(t) \/ CallStep(t)
Spec == Init /\ [][Next]_vars

\* A thread inside a call is scheduled again.  That it gets the lock of the
\* bucket, for the copy or for the swap, is nothing rw_spinlock promises.
Fairness == \A t \in Threads : WF_vars(UnlockedStep(t))

-----------------------------------------------------------------------------
TypeOK ==
  /\ elements \in [Buckets -> SUBSET [list : Nat, key : Keys, value : Values]]
  /\ lists \in [Buckets -> Nat \ {0}] /\ size \in [Buckets -> Nat] /\ capacity \in [Buckets -> Nat \ {0}]
  /\ resizing \in [Buckets -> BOOLEAN] /\ changed_while_resize \in [Buckets -> BOOLEAN]
  /\ m_size \in Nat
  /\ pc \in [Threads -> {"idle", "return", "resize", "copy", "swap", "capacity", "release"}]
  /\ at \in [Threads -> Buckets]
  /\ new_bucket \in [Threads -> SUBSET [list : Nat, key : Keys, value : Values]]
  /\ bucket_capacity \in [Threads -> Nat]
  /\ ret \in [Threads -> Values \cup BOOLEAN \cup {None}]
  /\ found \in [Threads -> Keys \cup {None, Dangling}]

Resizes(t) == pc[t] \in {"copy", "swap", "capacity", "release"}

\* Every element is where a call will look for it, and a key is there once.
Placed == \A b \in Buckets : \A e \in elements[b] :
  /\ Bucket(e.key) = b /\ e.list = Hash[e.key] % lists[b]
  /\ \A f \in elements[b] : f.key = e.key => f = e

\* A bucket has one resizer while its flag is up, which alone may have a
\* vector that is ahead of capacity.
OneResizer == \A b \in Buckets :
  /\ resizing[b] <=> \E t \in Threads : Resizes(t) /\ at[t] = b
  /\ \A t, u \in Threads : Resizes(t) /\ Resizes(u) /\ at[t] = b /\ at[u] = b => t = u
  /\ lists[b] # capacity[b] => \E t \in Threads : pc[t] = "capacity" /\ at[t] = b

\* The copy is what the bucket holds unless the bucket says it has changed.
CopyExact == \A t \in Threads :
  /\ pc[t] \in {"copy", "swap"} => bucket_capacity[t] = capacity[at[t]] * ResizeFactor
  /\ pc[t] \in {"capacity", "release"} => bucket_capacity[t] = lists[at[t]]
  /\ pc[t] = "swap" /\ ~changed_while_resize[at[t]] =>
       new_bucket[t] = Rehash(elements[at[t]], bucket_capacity[t])

AllElements == UNION {elements[b] : b \in Buckets}

\* Every element is in its place and once, what a resize swaps in is what it
\* swaps out, one thread at a time resizes a bucket, and size() is the number
\* of elements.
StorageInv == TypeOK /\ Placed /\ OneResizer /\ CopyExact /\ m_size = Cardinality(AllElements)

ValueOf(k) == IF FindLocked(k) = {} THEN None ELSE (CHOOSE e \in FindLocked(k) : TRUE).value
M == INSTANCE KeyMap WITH map <- [k \in Keys |-> ValueOf(k)], answer <- ret

\* The storage is a map: every call takes effect at one moment and answers
\* for it, and a resize changes nothing that a caller can see.
ImplementsMap == M!Spec

Changes(b) == \E t \in Threads, k \in Keys :
  Bucket(k) = b /\ (Remove(t, k) \/ \E v \in Values : Emplace(t, k, v))

WaitsForever(t, b) == <>[](pc[t] = "copy" /\ at[t] = b) \/ <>[](pc[t] = "swap" /\ at[t] = b)

\* A resize of a bucket ends, unless its thread waits for ever for the lock, or
\* calls that change the bucket overtake it again and again.
ResizeEnds == \A b \in Buckets : \/ []<>~resizing[b] \/ []<><<Changes(b)>>_vars
                                 \/ \E t \in Threads : WaitsForever(t, b)

\* A pointer that find returned is good for as long as its element is not
\* removed.
FoundStays == [][\A t \in Threads, k \in Keys :
  found[t] = k /\ found'[t] = Dangling => FindLocked(k)' = {}]_vars
=============================================================================
