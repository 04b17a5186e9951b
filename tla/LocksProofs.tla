---------------------------- MODULE LocksProofs -----------------------------
(***************************************************************************)
(* Proofs about spinlock, recursive_spinlock, recursive_rw_spinlock with   *)
(* object_safe_wrapper, and contention_free_rw_lock, for any number of     *)
(* threads, of nested locks and of slots.                                  *)
(***************************************************************************)
EXTENDS MCLocks, FiniteSetTheorems, TLAPS, Sequences

-----------------------------------------------------------------------------
(* spinlock *)

LEMMA FlagStep == S!FlagMeansHeld /\ [S!Next]_sVars => S!FlagMeansHeld'
<1>. SUFFICES ASSUME S!FlagMeansHeld, [S!Next]_sVars PROVE S!FlagMeansHeld'
  OBVIOUS
<1>. USE DEF S!FlagMeansHeld, S!TypeOK
<1>1. ASSUME NEW t \in Clients, S!Lock(t) PROVE S!FlagMeansHeld'
  BY <1>1 DEF S!Lock, S!GoTo
<1>2. ASSUME NEW t \in Clients, S!LockExchange(t) PROVE S!FlagMeansHeld'
  BY <1>2 DEF S!LockExchange, S!Exchange, S!GoTo
<1>3. ASSUME NEW t \in Clients, S!Spin(t) PROVE S!FlagMeansHeld'
  BY <1>3 DEF S!Spin, S!GoTo
<1>4. ASSUME NEW t \in Clients, S!TryLock(t) PROVE S!FlagMeansHeld'
  BY <1>4 DEF S!TryLock, S!GoTo
<1>5. ASSUME NEW t \in Clients, S!TryLockExchange(t) PROVE S!FlagMeansHeld'
  BY <1>5 DEF S!TryLockExchange, S!Exchange, S!GoTo
<1>6. ASSUME NEW t \in Clients, S!Unlock(t) PROVE S!FlagMeansHeld'
  BY <1>6 DEF S!Unlock, S!GoTo
<1>7. ASSUME UNCHANGED sVars PROVE S!FlagMeansHeld'
  BY <1>7 DEF sVars
<1>. QED  BY <1>1, <1>2, <1>3, <1>4, <1>5, <1>6, <1>7 DEF S!Next, S!Step

\* However the exchanges of lock and of try_lock and unlock interleave, the flag
\* is set exactly while one thread has the lock.
THEOREM SpinlockHeld == S!Spec => []S!FlagMeansHeld
<1>1. S!Init => S!FlagMeansHeld
  BY DEF S!Init, S!FlagMeansHeld, S!TypeOK
<1>2. S!FlagMeansHeld /\ [S!Next]_sVars => S!FlagMeansHeld'
  BY FlagStep
<1>. QED  BY <1>1, <1>2, PTL DEF S!Spec, S!vars, sVars

-----------------------------------------------------------------------------
(* recursive_spinlock *)

\* A call that was let in has room for one more level.
RoomLeft == \A t \in Threads :
  rpc[t] \in {"recurse", "cas", "first", "spin", "try_cas", "try_first"} => depth[t] < MaxDepth

OwnerInv == R!OwnerCounts /\ RoomLeft

\* Outside Linux a thread's identifier is its own.
LEMMA Identifiers ==
  ASSUME ~OnLinux
  PROVE  \A t \in Threads : R!get_thread_id(t) = t /\ t # R!Free /\ t \in Nat
  BY ThreadsAssumption DEF R!get_thread_id, R!Free

LEMMA OwnerStep == ~OnLinux /\ OwnerInv /\ [R!Next]_rVars => OwnerInv'
<1>. SUFFICES ASSUME ~OnLinux, OwnerInv, [R!Next]_rVars PROVE OwnerInv'
  OBVIOUS
<1>. USE DEF OwnerInv, R!OwnerCounts, R!TypeOK, R!Owns, RoomLeft, R!GoTo, R!Locked, R!Steps
<1>0. /\ MaxDepth \in Nat
      /\ \A t \in Threads : R!get_thread_id(t) = t /\ t # R!Free /\ t \in Nat
  BY Identifiers, ThreadsAssumption
<1>1. ASSUME NEW t \in Threads, R!Lock(t) PROVE OwnerInv'
  BY <1>0, <1>1 DEF R!Lock
<1>2. ASSUME NEW t \in Threads, R!Recurse(t) PROVE OwnerInv'
  BY <1>0, <1>2 DEF R!Recurse
<1>3. ASSUME NEW t \in Threads, R!Cas(t) PROVE OwnerInv'
  BY <1>0, <1>3 DEF R!Cas, R!TakeIfFree
<1>4. ASSUME NEW t \in Threads, R!First(t) PROVE OwnerInv'
  BY <1>0, <1>4 DEF R!First
<1>5. ASSUME NEW t \in Threads, R!Spin(t) PROVE OwnerInv'
  BY <1>0, <1>5 DEF R!Spin
<1>6. ASSUME NEW t \in Threads, R!TryLock(t) PROVE OwnerInv'
  BY <1>0, <1>6 DEF R!TryLock
<1>7. ASSUME NEW t \in Threads, R!TryCas(t) PROVE OwnerInv'
  BY <1>0, <1>7 DEF R!TryCas, R!TakeIfFree
<1>8. ASSUME NEW t \in Threads, R!TryFirst(t) PROVE OwnerInv'
  BY <1>0, <1>8 DEF R!TryFirst
<1>9. ASSUME NEW t \in Threads, R!Unlock(t) PROVE OwnerInv'
  BY <1>0, <1>9 DEF R!Unlock
<1>10. ASSUME NEW t \in Threads, R!Release(t) PROVE OwnerInv'
  BY <1>0, <1>10 DEF R!Release
<1>11. ASSUME UNCHANGED rVars PROVE OwnerInv'
  BY <1>11 DEF rVars
<1>. QED  BY <1>1, <1>2, <1>3, <1>4, <1>5, <1>6, <1>7, <1>8, <1>9, <1>10, <1>11 DEF R!Next, R!Step

LEMMA OwnerInit == ~OnLinux /\ R!Init => OwnerInv
  BY ThreadsAssumption DEF R!Init, OwnerInv, R!OwnerCounts, R!TypeOK, R!Owns, R!Steps, RoomLeft, R!Free, R!get_thread_id

\* Where get_thread_id tells threads apart, whoever has the lock, at whatever
\* depth, or touches m_recursion is its one owner, and m_recursion is its depth.
THEOREM RecursiveSpinlockOwned == ~OnLinux => (R!Spec => []R!OwnerCounts)
<1>. SUFFICES ASSUME ~OnLinux PROVE R!Spec => []R!OwnerCounts
  OBVIOUS
<1>1. R!Init => OwnerInv
  BY OwnerInit
<1>2. OwnerInv /\ [R!Next]_rVars => OwnerInv'
  BY OwnerStep
<1>3. OwnerInv => R!OwnerCounts
  BY DEF OwnerInv
<1>. QED  BY <1>1, <1>2, <1>3, PTL DEF R!Spec, R!vars, rVars

-----------------------------------------------------------------------------
(* contention_free_rw_lock with one writer *)

OneWriter == \A w, x \in Writers : w = x

\* m_write_lock is set exactly while the writer looks at the slots or is inside;
\* it goes on only below the last slot, and is inside when it has passed all.
ScanInv ==
  /\ wflag <=> \E w \in Writers : cpc[w] \in {"w_scan", "writing"}
  /\ \A w \in Writers : ~expected[w]
  /\ \A w \in Writers : cpc[w] = "w_scan" => scan[w] < MaxProcNumber
  /\ \A w \in Writers : cpc[w] = "writing" => scan[w] = MaxProcNumber

SlotsIInv == C!SlotsInv /\ ScanInv

Counting == {"r_check", "r_undo", "reading"}

\* The Cardinality that the instance brings in is the usual one.
LEMMA SameCardinality == \A T : C!Cardinality(T) = Cardinality(T)
  BY DEF C!Cardinality, Cardinality

LEMMA CountedFinite ==
  ASSUME NEW s
  PROVE  IsFiniteSet(C!CountedIn(s)) /\ Cardinality(C!CountedIn(s)) \in Nat
<1>1. C!CountedIn(s) \in SUBSET Readers
  BY DEF C!CountedIn
<1>2. IsFiniteSet(C!CountedIn(s))
  BY <1>1, SlotsAssumption, FS_Subset
<1>. QED  BY <1>2, FS_CardinalityType

\* A step of a reader changes the count of its slot, and the set of readers
\* counted there, alike.
LEMMA ReaderCounts ==
  ASSUME C!SlotCounts, NEW r \in Readers, NEW step \in C!ReaderSteps, cpc' = [cpc EXCEPT ![r] = step],
         UNCHANGED <<wflag, expected, scan>>,
         \/ /\ cpc[r] \notin Counting /\ step \in Counting /\ cpu' = cpu
            /\ slots' = [slots EXCEPT ![cpu[r]] = @ + 1]
         \/ /\ cpc[r] \in Counting /\ step \notin Counting /\ cpu' = cpu
            /\ slots' = [slots EXCEPT ![cpu[r]] = @ - 1]
         \/ /\ cpc[r] \in Counting <=> step \in Counting
            /\ cpu' = cpu /\ slots' = slots
         \/ /\ cpc[r] \notin Counting /\ step \notin Counting /\ slots' = slots
            /\ \E s \in C!Slots : cpu' = [cpu EXCEPT ![r] = s]
  PROVE  C!SlotCounts'
<1>0. C!TypeOK
  BY DEF C!SlotCounts
<1>1. cpu' \in [Readers -> C!Slots] /\ \A q \in Readers \ {r} : cpu'[q] = cpu[q]
  BY <1>0 DEF C!TypeOK
<1>2. /\ cpc' \in [Readers \cup Writers -> C!ReaderSteps \cup C!WriterSteps]
      /\ cpc'[r] = step /\ \A q \in Readers \cup Writers : q # r => cpc'[q] = cpc[q]
  BY <1>0 DEF C!TypeOK
<1>3. /\ \A q \in Readers : cpc'[q] \in C!ReaderSteps
      /\ \A w \in Writers : cpc'[w] \in C!WriterSteps
  BY <1>0, <1>2, SlotsAssumption DEF C!TypeOK
<1>4. ASSUME NEW s \in C!Slots
      PROVE  slots'[s] \in Nat /\ slots'[s] = Cardinality(C!CountedIn(s)')
  <2>. DEFINE K == C!CountedIn(s)
              K2 == C!CountedIn(s)'
  <2>1. IsFiniteSet(K) /\ Cardinality(K) \in Nat /\ slots[s] = Cardinality(K)
    <3>1. slots[s] = Cardinality(K)
      BY SameCardinality DEF C!SlotCounts
    <3>2. IsFiniteSet(K) /\ Cardinality(K) \in Nat
      BY CountedFinite
    <3>. QED  BY <3>1, <3>2
  <2>2. \A q \in Readers : q # r => (q \in K2 <=> q \in K)
    BY <1>1, <1>2 DEF C!CountedIn, Counting
  <2>3. K \subseteq Readers /\ K2 \subseteq Readers
    BY DEF C!CountedIn
  <2>4. r \in K <=> cpc[r] \in Counting /\ cpu[r] = s
    BY DEF C!CountedIn, Counting
  <2>5. r \in K2 <=> step \in Counting /\ cpu'[r] = s
    BY <1>2 DEF C!CountedIn, Counting
  <2>. HIDE DEF K, K2
  <2>6. CASE cpc[r] \notin Counting /\ step \in Counting /\ cpu' = cpu /\ slots' = [slots EXCEPT ![cpu[r]] = @ + 1]
    <3>1. CASE cpu[r] = s
      <4>1. K2 = K \cup {r} /\ r \notin K
        BY <2>2, <2>3, <2>4, <2>5, <2>6, <3>1
      <4>2. Cardinality(K2) = Cardinality(K) + 1
        BY <2>1, <4>1, FS_AddElement
      <4>3. slots'[s] = slots[s] + 1
        BY <1>0, <2>6, <3>1 DEF C!TypeOK
      <4>. QED  BY <2>1, <4>2, <4>3 DEF K, K2
    <3>2. CASE cpu[r] # s
      <4>1. slots'[s] = slots[s] /\ r \notin K /\ r \notin K2
        BY <1>0, <2>4, <2>5, <2>6, <3>2 DEF C!TypeOK
      <4>2. K2 = K
        BY <2>2, <2>3, <4>1
      <4>. QED  BY <2>1, <4>1, <4>2 DEF K2
    <3>. QED  BY <3>1, <3>2
  <2>7. CASE cpc[r] \in Counting /\ step \notin Counting /\ cpu' = cpu /\ slots' = [slots EXCEPT ![cpu[r]] = @ - 1]
    <3>1. CASE cpu[r] = s
      <4>1. K2 = K \ {r} /\ r \in K
        BY <2>2, <2>3, <2>4, <2>5, <2>7, <3>1
      <4>2. Cardinality(K2) = Cardinality(K) - 1 /\ Cardinality(K2) \in Nat
        BY <2>1, <4>1, FS_RemoveElement, FS_CardinalityType
      <4>3. slots'[s] = slots[s] - 1
        BY <1>0, <2>7, <3>1 DEF C!TypeOK
      <4>. QED  BY <2>1, <4>2, <4>3 DEF K, K2
    <3>2. CASE cpu[r] # s
      <4>1. slots'[s] = slots[s] /\ r \notin K /\ r \notin K2
        BY <1>0, <2>4, <2>5, <2>7, <3>2 DEF C!TypeOK
      <4>2. K2 = K
        BY <2>2, <2>3, <4>1
      <4>. QED  BY <2>1, <4>1, <4>2 DEF K2
    <3>. QED  BY <3>1, <3>2
  <2>8. CASE slots' = slots /\ (r \in K2 <=> r \in K)
    <3>1. \A q : q \in K2 <=> q \in K
      BY <2>2, <2>3, <2>8, Zenon
    <3>2. K2 = K
      BY <3>1
    <3>. QED  BY <2>1, <2>8, <3>2 DEF K2
  <2>9. CASE (cpc[r] \in Counting <=> step \in Counting) /\ cpu' = cpu /\ slots' = slots
    BY <2>4, <2>5, <2>8, <2>9
  <2>10. CASE cpc[r] \notin Counting /\ step \notin Counting /\ slots' = slots
    BY <2>4, <2>5, <2>8, <2>10
  <2>. QED  BY <2>6, <2>7, <2>9, <2>10
<1>5. slots' \in [C!Slots -> Nat]
  <2>1. DOMAIN slots' = C!Slots /\ slots' = [s \in C!Slots |-> slots'[s]]
    BY <1>0 DEF C!TypeOK
  <2>. QED  BY <1>4, <2>1
<1>6. C!TypeOK'
  BY <1>1, <1>2, <1>3, <1>5, <1>0 DEF C!TypeOK
<1>. QED  BY <1>4, <1>6, SameCardinality DEF C!SlotCounts

\* A step of a writer counts nobody.
LEMMA WriterCounts ==
  ASSUME C!SlotCounts, NEW w \in Writers, NEW step \in C!WriterSteps, cpc' = [cpc EXCEPT ![w] = step],
         UNCHANGED <<slots, cpu>>, wflag' \in BOOLEAN,
         expected' \in [Writers -> BOOLEAN], scan' \in [Writers -> 0..MaxProcNumber]
  PROVE  C!SlotCounts'
<1>. USE DEF C!SlotCounts, C!TypeOK
<1>1. /\ cpc' \in [Readers \cup Writers -> C!ReaderSteps \cup C!WriterSteps]
      /\ cpc'[w] = step /\ \A q \in Readers \cup Writers : q # w => cpc'[q] = cpc[q]
  OBVIOUS
<1>2. \A q \in Readers : q # w
  BY SlotsAssumption
<1>3. ASSUME NEW s \in C!Slots PROVE C!CountedIn(s)' = C!CountedIn(s)
  BY <1>1, <1>2 DEF C!CountedIn
<1>4. \A s \in C!Slots : slots'[s] = Cardinality(C!CountedIn(s)')
  BY <1>3, SameCardinality
<1>5. /\ \A q \in Readers : cpc'[q] \in C!ReaderSteps
      /\ \A x \in Writers : cpc'[x] \in C!WriterSteps
  BY <1>1, <1>2
<1>6. C!TypeOK'
  BY <1>1, <1>5 DEF C!TypeOK
<1>. QED  BY <1>4, <1>6, SameCardinality DEF C!SlotCounts

LEMMA SlotOfType == \A n \in Processors : C!SlotOf(n) \in C!Slots
  BY SlotsAssumption DEF C!SlotOf, C!Slots

\* A step of a reader keeps the invariant if it enters only while m_write_lock
\* is not set.
LEMMA ReaderKeeps ==
  ASSUME SlotsIInv, C!SlotCounts', NEW r \in Readers, NEW step \in C!ReaderSteps,
         cpc' = [cpc EXCEPT ![r] = step], UNCHANGED <<wflag, expected, scan>>,
         cpu' = cpu \/ step # "reading",
         \A q \in Readers \ {r} : cpu'[q] = cpu[q],
         step = "reading" => ~wflag
  PROVE  SlotsIInv'
<1>1. C!TypeOK /\ C!PassedSlotsEmpty /\ ScanInv
  BY DEF SlotsIInv, C!SlotsInv, C!SlotCounts
<1>2. cpc'[r] = step /\ \A q \in Readers \cup Writers : q # r => cpc'[q] = cpc[q]
  BY <1>1 DEF C!TypeOK
<1>3. \A w \in Writers : cpc'[w] = cpc[w]
  BY <1>2, SlotsAssumption
<1>4. ScanInv'
  BY <1>1, <1>3 DEF ScanInv
<1>5. ASSUME NEW w \in Writers, NEW q \in Readers, cpc'[w] \in {"w_scan", "writing"}, cpc'[q] = "reading"
      PROVE  scan'[w] <= cpu'[q]
  <2>1. wflag /\ cpc[w] \in {"w_scan", "writing"}
    BY <1>1, <1>3, <1>5 DEF ScanInv
  <2>2. q # r
    BY <1>2, <1>5, <2>1
  <2>. QED  BY <1>1, <1>2, <1>5, <2>1, <2>2 DEF C!PassedSlotsEmpty
<1>. QED  BY <1>4, <1>5 DEF SlotsIInv, C!SlotsInv, C!PassedSlotsEmpty

LEMMA ReaderStepKeeps ==
  ASSUME SlotsIInv, NEW r \in Readers, C!ReaderStep(r) \/ C!UnlockShared(r) \/ \E n \in Processors : C!LockShared(r, n)
  PROVE  SlotsIInv'
<1>. USE DEF C!GoTo, C!shared, C!ReaderSteps, Counting
<1>0. C!SlotCounts
  BY DEF SlotsIInv, C!SlotsInv
<1>1. CASE C!ReadCount(r)
  <2>1. /\ cpc[r] = "r_count" /\ cpc' = [cpc EXCEPT ![r] = "r_check"]
        /\ slots' = [slots EXCEPT ![cpu[r]] = @ + 1] /\ UNCHANGED <<wflag, cpu, expected, scan>>
    BY <1>1 DEF C!ReadCount
  <2>2. C!SlotCounts'
    BY <1>0, <2>1, ReaderCounts
  <2>. QED  BY <2>1, <2>2, ReaderKeeps
<1>2. CASE C!ReadCheck(r) /\ wflag
  <2>1. cpc[r] = "r_check" /\ cpc' = [cpc EXCEPT ![r] = "r_undo"] /\ UNCHANGED <<wflag, slots, cpu, expected, scan>>
    BY <1>2 DEF C!ReadCheck
  <2>2. C!SlotCounts'
    BY <1>0, <2>1, ReaderCounts
  <2>. QED  BY <2>1, <2>2, ReaderKeeps
<1>3. CASE C!ReadCheck(r) /\ ~wflag
  <2>1. cpc[r] = "r_check" /\ cpc' = [cpc EXCEPT ![r] = "reading"] /\ UNCHANGED <<wflag, slots, cpu, expected, scan>>
    BY <1>3 DEF C!ReadCheck
  <2>2. C!SlotCounts'
    BY <1>0, <2>1, ReaderCounts
  <2>. QED  BY <1>3, <2>1, <2>2, ReaderKeeps
<1>4. CASE C!ReadUndo(r)
  <2>1. /\ cpc[r] = "r_undo" /\ cpc' = [cpc EXCEPT ![r] = "r_wait"]
        /\ slots' = [slots EXCEPT ![cpu[r]] = @ - 1] /\ UNCHANGED <<wflag, cpu, expected, scan>>
    BY <1>4 DEF C!ReadUndo
  <2>2. C!SlotCounts'
    BY <1>0, <2>1, ReaderCounts
  <2>. QED  BY <2>1, <2>2, ReaderKeeps
<1>5. CASE C!ReadWait(r)
  <2>1. cpc[r] = "r_wait" /\ cpc' = [cpc EXCEPT ![r] = "r_count"] /\ UNCHANGED <<wflag, slots, cpu, expected, scan>>
    BY <1>5 DEF C!ReadWait
  <2>2. C!SlotCounts'
    BY <1>0, <2>1, ReaderCounts
  <2>. QED  BY <2>1, <2>2, ReaderKeeps
<1>6. CASE C!UnlockShared(r)
  <2>1. /\ cpc[r] = "reading" /\ cpc' = [cpc EXCEPT ![r] = "idle"]
        /\ slots' = [slots EXCEPT ![cpu[r]] = @ - 1] /\ UNCHANGED <<wflag, cpu, expected, scan>>
    BY <1>6 DEF C!UnlockShared
  <2>2. C!SlotCounts'
    BY <1>0, <2>1, ReaderCounts
  <2>. QED  BY <2>1, <2>2, ReaderKeeps
<1>7. ASSUME NEW n \in Processors, C!LockShared(r, n) PROVE SlotsIInv'
  <2>1. /\ cpc[r] = "idle" /\ cpc' = [cpc EXCEPT ![r] = "r_count"] /\ UNCHANGED <<wflag, slots, expected, scan>>
        /\ cpu' = [cpu EXCEPT ![r] = C!SlotOf(n)] /\ C!SlotOf(n) \in C!Slots
    BY <1>7, SlotOfType DEF C!LockShared
  <2>2. C!SlotCounts'
    BY <1>0, <2>1, ReaderCounts
  <2>3. \A q \in Readers \ {r} : cpu'[q] = cpu[q]
    BY <1>0, <2>1 DEF C!SlotCounts, C!TypeOK
  <2>. QED  BY <2>1, <2>2, <2>3, ReaderKeeps
<1>. QED  BY <1>1, <1>2, <1>3, <1>4, <1>5, <1>6, <1>7 DEF C!ReaderStep

\* A slot that is not in use has no reader inside.
LEMMA UnusedSlot ==
  ASSUME C!SlotCounts, NEW s \in C!Slots, slots[s] = 0
  PROVE  \A r \in Readers : cpc[r] = "reading" => cpu[r] # s
<1>1. Cardinality(C!CountedIn(s)) = 0
  BY SameCardinality DEF C!SlotCounts
<1>2. C!CountedIn(s) = {}
  BY <1>1, CountedFinite, FS_EmptySet
<1>. QED  BY <1>2 DEF C!CountedIn

LEMMA WriterStepKeeps ==
  ASSUME OneWriter, SlotsIInv, NEW w \in Writers, C!WriterStep(w) \/ C!LockExclusive(w) \/ C!UnlockExclusive(w)
  PROVE  SlotsIInv'
<1>. USE DEF C!GoTo, C!shared, C!WriterSteps
<1>0. C!SlotCounts /\ C!TypeOK /\ C!PassedSlotsEmpty /\ ScanInv
  BY DEF SlotsIInv, C!SlotsInv, C!SlotCounts
<1>1. \A x \in Writers : x = w
  BY DEF OneWriter
<1>2. MaxProcNumber \in Nat \ {0} /\ w \notin Readers
  BY SlotsAssumption
<1>3. CASE C!LockExclusive(w)
  <2>1. /\ cpc[w] = "idle" /\ cpc' = [cpc EXCEPT ![w] = "w_cas"] /\ expected' = [expected EXCEPT ![w] = FALSE]
        /\ UNCHANGED <<wflag, slots, cpu, scan>>
    BY <1>3 DEF C!LockExclusive
  <2>2. expected' \in [Writers -> BOOLEAN] /\ \A x \in Writers : ~expected'[x]
    BY <1>0, <1>1, <2>1 DEF C!TypeOK
  <2>3. C!SlotCounts'
    BY <1>0, <2>1, <2>2, WriterCounts DEF C!TypeOK
  <2>4. cpc'[w] = "w_cas"
    BY <1>0, <2>1 DEF C!TypeOK
  <2>5. ScanInv' /\ C!PassedSlotsEmpty'
    BY <1>0, <1>1, <2>1, <2>2, <2>4 DEF ScanInv, C!PassedSlotsEmpty
  <2>. QED  BY <2>3, <2>5 DEF SlotsIInv, C!SlotsInv
<1>4. CASE C!WriteCas(w)
  <2>1. cpc[w] = "w_cas" /\ ~wflag /\ ~expected[w]
    <3>1. cpc[w] = "w_cas"
      BY <1>4 DEF C!WriteCas
    <3>. QED  BY <1>0, <1>1, <3>1 DEF ScanInv
  <2>2. wflag = FALSE /\ expected[w] = FALSE
    BY <1>0, <2>1 DEF C!TypeOK
  <2>3. /\ wflag' = TRUE /\ scan' = [scan EXCEPT ![w] = 0] /\ cpc' = [cpc EXCEPT ![w] = "w_scan"]
        /\ UNCHANGED <<expected, slots, cpu>>
    BY <1>4, <2>2 DEF C!WriteCas
  <2>4. scan' \in [Writers -> 0..MaxProcNumber] /\ scan'[w] = 0 /\ cpc'[w] = "w_scan"
    BY <1>0, <1>2, <2>3 DEF C!TypeOK
  <2>5. C!SlotCounts'
    <3>1. wflag' \in BOOLEAN /\ expected' \in [Writers -> BOOLEAN]
      BY <1>0, <2>3 DEF C!TypeOK
    <3>. QED  BY <1>0, <2>3, <2>4, <3>1, WriterCounts
  <2>6. ScanInv'
    <3>1. wflag' /\ \E x \in Writers : cpc'[x] \in {"w_scan", "writing"}
      BY <2>3, <2>4
    <3>2. \A x \in Writers : ~expected'[x]
      BY <1>0, <2>3 DEF ScanInv
    <3>3. \A x \in Writers : cpc'[x] = "w_scan" /\ scan'[x] < MaxProcNumber
      BY <1>1, <1>2, <2>4
    <3>. QED  BY <3>1, <3>2, <3>3 DEF ScanInv
  <2>7. C!PassedSlotsEmpty'
    <3>1. \A r \in Readers : cpu'[r] \in C!Slots
      BY <1>0, <2>3 DEF C!TypeOK
    <3>. QED  BY <1>1, <1>2, <2>4, <3>1 DEF C!PassedSlotsEmpty, C!Slots
  <2>. QED  BY <2>5, <2>6, <2>7 DEF SlotsIInv, C!SlotsInv
<1>5. CASE C!WriteScan(w)
  <2>1. /\ cpc[w] = "w_scan" /\ UNCHANGED <<wflag, slots, cpu, expected>>
    BY <1>5 DEF C!WriteScan
  <2>2. /\ scan[w] \in 0..MaxProcNumber /\ scan[w] < MaxProcNumber /\ scan[w] \in C!Slots
        /\ wflag /\ \A x \in Writers : ~expected[x]
    <3>1. scan[w] \in 0..MaxProcNumber
      BY <1>0 DEF C!TypeOK
    <3>2. scan[w] < MaxProcNumber /\ wflag /\ \A x \in Writers : ~expected[x]
      BY <1>0, <2>1 DEF ScanInv
    <3>. QED  BY <1>2, <3>1, <3>2 DEF C!Slots
  <2>3. wflag' \in BOOLEAN /\ expected' \in [Writers -> BOOLEAN] /\ wflag' /\ \A x \in Writers : ~expected'[x]
    BY <1>0, <2>1, <2>2 DEF C!TypeOK
  <2>4. CASE slots[scan[w]] # 0
    <3>1. scan' = [scan EXCEPT ![w] = 0] /\ cpc' = cpc
      BY <1>5, <2>4 DEF C!WriteScan
    <3>2. scan' \in [Writers -> 0..MaxProcNumber] /\ scan'[w] = 0 /\ cpc' = [cpc EXCEPT ![w] = "w_scan"]
      BY <1>0, <1>2, <2>1, <3>1 DEF C!TypeOK
    <3>3. C!SlotCounts'
      BY <1>0, <2>1, <2>3, <3>2, WriterCounts
    <3>4. \A x \in Writers : cpc'[x] = "w_scan" /\ scan'[x] = 0
      BY <1>1, <2>1, <3>1, <3>2
    <3>5. ScanInv'
      BY <1>2, <2>3, <3>4 DEF ScanInv
    <3>6. \A r \in Readers : cpu'[r] \in C!Slots
      BY <1>0, <2>1 DEF C!TypeOK
    <3>7. C!PassedSlotsEmpty'
      BY <1>2, <3>4, <3>6 DEF C!PassedSlotsEmpty, C!Slots
    <3>. QED  BY <3>3, <3>5, <3>7 DEF SlotsIInv, C!SlotsInv
  <2>5. CASE slots[scan[w]] = 0
    <3>. DEFINE step == IF scan[w] = MaxProcNumber - 1 THEN "writing" ELSE "w_scan"
    <3>1. scan' = [scan EXCEPT ![w] = scan[w] + 1] /\ cpc' = [cpc EXCEPT ![w] = step]
      BY <1>5, <2>5 DEF C!WriteScan
    <3>2. /\ scan'[w] = scan[w] + 1 /\ cpc'[w] = step /\ \A r \in Readers : cpc'[r] = cpc[r] /\ cpu'[r] = cpu[r]
      BY <1>0, <1>2, <2>1, <3>1 DEF C!TypeOK
    <3>3. scan' \in [Writers -> 0..MaxProcNumber]
      BY <1>0, <1>2, <2>2, <3>1 DEF C!TypeOK
    <3>4. C!SlotCounts'
      BY <1>0, <2>1, <2>3, <3>1, <3>3, WriterCounts
    <3>5. ScanInv'
      <4>1. scan[w] = MaxProcNumber - 1 => cpc'[w] = "writing" /\ scan'[w] = MaxProcNumber
        BY <1>2, <2>2, <3>2
      <4>2. scan[w] # MaxProcNumber - 1 => cpc'[w] = "w_scan" /\ scan'[w] < MaxProcNumber
        BY <1>2, <2>2, <3>2
      <4>. QED  BY <1>1, <2>3, <4>1, <4>2 DEF ScanInv
    <3>6. ASSUME NEW r \in Readers, cpc[r] = "reading" PROVE scan'[w] <= cpu[r]
      <4>1. cpu[r] # scan[w] /\ cpu[r] \in C!Slots
        BY <1>0, <2>2, <2>5, <3>6, UnusedSlot DEF C!TypeOK
      <4>2. scan[w] <= cpu[r]
        BY <1>0, <2>1, <3>6 DEF C!PassedSlotsEmpty
      <4>. QED  BY <1>2, <2>2, <3>2, <4>1, <4>2 DEF C!Slots
    <3>7. C!PassedSlotsEmpty'
      BY <1>1, <3>2, <3>6 DEF C!PassedSlotsEmpty
    <3>. QED  BY <3>4, <3>5, <3>7 DEF SlotsIInv, C!SlotsInv
  <2>. QED  BY <2>4, <2>5
<1>6. CASE C!UnlockExclusive(w)
  <2>1. /\ cpc[w] = "writing" /\ wflag' = FALSE /\ cpc' = [cpc EXCEPT ![w] = "idle"]
        /\ UNCHANGED <<slots, cpu, expected, scan>>
    BY <1>6 DEF C!UnlockExclusive
  <2>2. cpc'[w] = "idle" /\ \A x \in Writers : cpc'[x] = "idle"
    BY <1>0, <1>1, <2>1 DEF C!TypeOK
  <2>3. C!SlotCounts'
    <3>1. wflag' \in BOOLEAN /\ expected' \in [Writers -> BOOLEAN]
      BY <1>0, <2>1 DEF C!TypeOK
    <3>2. scan' \in [Writers -> 0..MaxProcNumber]
      BY <1>0, <2>1 DEF C!TypeOK
    <3>. QED  BY <1>0, <2>1, <3>1, <3>2, WriterCounts
  <2>4. ScanInv' /\ C!PassedSlotsEmpty'
    BY <1>0, <2>1, <2>2 DEF ScanInv, C!PassedSlotsEmpty
  <2>. QED  BY <2>3, <2>4 DEF SlotsIInv, C!SlotsInv
<1>. QED  BY <1>3, <1>4, <1>5, <1>6 DEF C!WriterStep

LEMMA SlotsInit == C!Init => SlotsIInv
<1>. SUFFICES ASSUME C!Init PROVE SlotsIInv
  OBVIOUS
<1>. USE DEF C!Init
<1>1. C!TypeOK
  <2>1. wflag \in BOOLEAN /\ expected \in [Writers -> BOOLEAN]
    OBVIOUS
  <2>2. slots \in [C!Slots -> Nat] /\ 0 \in C!Slots /\ 0 \in 0..MaxProcNumber
    BY SlotsAssumption DEF C!Slots
  <2>3. cpu \in [Readers -> C!Slots] /\ scan \in [Writers -> 0..MaxProcNumber]
    BY <2>2
  <2>4. cpc \in [Readers \cup Writers -> {"idle"}]
    OBVIOUS
  <2>. QED  BY <2>1, <2>2, <2>3, <2>4 DEF C!TypeOK, C!ReaderSteps, C!WriterSteps
<1>2. ASSUME NEW s \in C!Slots PROVE slots[s] = C!Cardinality(C!CountedIn(s))
  <2>1. C!CountedIn(s) = {}
    BY DEF C!CountedIn
  <2>2. Cardinality(C!CountedIn(s)) = 0
    BY <2>1, FS_EmptySet
  <2>. QED  BY <2>2, SameCardinality
<1>3. C!PassedSlotsEmpty /\ ScanInv
  BY DEF C!PassedSlotsEmpty, ScanInv
<1>. QED  BY <1>1, <1>2, <1>3 DEF SlotsIInv, C!SlotsInv, C!SlotCounts

LEMMA SlotsStep == OneWriter /\ SlotsIInv /\ [C!Next]_cVars => SlotsIInv'
<1>. SUFFICES ASSUME OneWriter, SlotsIInv, [C!Next]_cVars PROVE SlotsIInv'
  OBVIOUS
<1>1. CASE C!Next
  BY <1>1, ReaderStepKeeps, WriterStepKeeps DEF C!Next
<1>2. CASE UNCHANGED cVars
  BY <1>2 DEF cVars, SlotsIInv, C!SlotsInv, C!SlotCounts, C!TypeOK, C!PassedSlotsEmpty, C!CountedIn, ScanInv
<1>. QED  BY <1>1, <1>2

LEMMA SlotsInvariant == OneWriter => (C!Spec => []SlotsIInv)
<1>. SUFFICES ASSUME OneWriter PROVE C!Spec => []SlotsIInv
  OBVIOUS
<1>1. C!Init => SlotsIInv
  BY SlotsInit
<1>2. SlotsIInv /\ [C!Next]_cVars => SlotsIInv'
  BY SlotsStep
<1>. QED  BY <1>1, <1>2, PTL DEF C!Spec, C!vars, cVars

\* With one writer, every slot counts exactly the readers that went through it,
\* and behind the slots the writer has looked at, one after the other, no reader
\* is inside.
THEOREM SlotsAreExact == OneWriter => (C!Spec => []C!SlotsInv)
<1>. SUFFICES ASSUME OneWriter PROVE C!Spec => []C!SlotsInv
  OBVIOUS
<1>1. SlotsIInv => C!SlotsInv
  BY DEF SlotsIInv
<1>. QED  BY <1>1, SlotsInvariant, PTL

\* With one writer the lock is a read-write lock.
THEOREM ContentionFreeIsRwLock == OneWriter => (C!Spec => C!ImplementsRwLock)
<1>. SUFFICES ASSUME OneWriter PROVE C!Spec => C!ImplementsRwLock
  OBVIOUS
<1>. DEFINE In  == {r \in Readers : cpc[r] = "reading"}
            Out == {w \in Writers : cpc[w] = "writing"}
<1>1. C!Init => C!L!Init
  BY DEF C!Init, C!L!Init
<1>2. SlotsIInv /\ SlotsIInv' /\ [C!Next]_cVars => [C!L!Next]_(C!L!vars)
  <2>. SUFFICES ASSUME SlotsIInv, SlotsIInv', C!Next PROVE C!L!Next \/ UNCHANGED <<In, Out>>
    BY DEF C!L!vars, cVars
  <2>. USE DEF C!GoTo
  <2>0. /\ cpc \in [Readers \cup Writers -> C!ReaderSteps \cup C!WriterSteps] /\ ScanInv
        /\ Readers \cap Writers = {}
    BY SlotsAssumption DEF SlotsIInv, C!SlotsInv, C!SlotCounts, C!TypeOK
  <2>1. ASSUME NEW r \in Readers, C!ReadCheck(r), ~wflag PROVE C!L!AcquireShared(r)
    <3>1. cpc[r] = "r_check" /\ cpc' = [cpc EXCEPT ![r] = "reading"]
      BY <2>1 DEF C!ReadCheck
    <3>2. Out = {}
      BY <2>0, <2>1 DEF ScanInv
    <3>. QED  BY <2>0, <3>1, <3>2 DEF C!L!AcquireShared
  <2>2. ASSUME NEW r \in Readers, C!UnlockShared(r) PROVE C!L!ReleaseShared(r)
    BY <2>0, <2>2 DEF C!UnlockShared, C!L!ReleaseShared
  <2>3. ASSUME NEW w \in Writers, C!WriteScan(w), cpc'[w] = "writing" PROVE C!L!AcquireExclusive(w)
    <3>1. cpc[w] = "w_scan" /\ cpc' = [cpc EXCEPT ![w] = "writing"]
      BY <2>0, <2>3 DEF C!WriteScan
    <3>2. Out = {} /\ Out' = {w}
      BY <2>0, <3>1 DEF OneWriter
    <3>3. In' = In
      BY <2>0, <3>1
    <3>4. \A r \in Readers : cpc'[r] # "reading"
      <4>1. scan'[w] = MaxProcNumber
        BY <2>3 DEF SlotsIInv, ScanInv
      <4>2. \A r \in Readers : cpu'[r] \in C!Slots
        BY DEF SlotsIInv, C!SlotsInv, C!SlotCounts, C!TypeOK
      <4>3. \A r \in Readers : cpc'[r] = "reading" => scan'[w] <= cpu'[r]
        BY <2>3 DEF SlotsIInv, C!SlotsInv, C!PassedSlotsEmpty
      <4>. QED  BY <4>1, <4>2, <4>3, SlotsAssumption DEF C!Slots
    <3>. QED  BY <3>2, <3>3, <3>4 DEF C!L!AcquireExclusive
  <2>4. ASSUME NEW w \in Writers, C!UnlockExclusive(w) PROVE C!L!ReleaseExclusive(w)
    BY <2>0, <2>4 DEF C!UnlockExclusive, C!L!ReleaseExclusive
  <2>5. ASSUME NEW r \in Readers, \/ C!ReadCount(r) \/ C!ReadUndo(r) \/ C!ReadWait(r) \/ (C!ReadCheck(r) /\ wflag)
                                  \/ \E n \in Processors : C!LockShared(r, n)
        PROVE  UNCHANGED <<In, Out>>
    <3>1. PICK step \in {"r_check", "r_wait", "r_count", "r_undo"} : cpc' = [cpc EXCEPT ![r] = step]
      BY <2>5 DEF C!ReadCount, C!ReadUndo, C!ReadWait, C!ReadCheck, C!LockShared
    <3>2. cpc[r] # "reading"
      BY <2>5 DEF C!ReadCount, C!ReadUndo, C!ReadWait, C!ReadCheck, C!LockShared
    <3>. QED  BY <2>0, <3>1, <3>2
  <2>6. ASSUME NEW w \in Writers, C!WriteCas(w) \/ C!LockExclusive(w) \/ (C!WriteScan(w) /\ cpc'[w] # "writing")
        PROVE  UNCHANGED <<In, Out>>
    <3>1. cpc' = cpc \/ \E step \in {"w_cas", "w_scan"} : cpc' = [cpc EXCEPT ![w] = step]
      BY <2>0, <2>6 DEF C!WriteCas, C!LockExclusive, C!WriteScan
    <3>2. cpc[w] # "writing"
      BY <2>6 DEF C!WriteCas, C!LockExclusive, C!WriteScan
    <3>. QED  BY <2>0, <3>1, <3>2
  <2>. QED  BY <2>1, <2>2, <2>3, <2>4, <2>5, <2>6 DEF C!Next, C!ReaderStep, C!WriterStep, C!L!Next
<1>. QED  BY <1>1, <1>2, SlotsInvariant, PTL DEF C!Spec, C!vars, cVars, C!ImplementsRwLock, C!L!Spec

-----------------------------------------------------------------------------
(* recursive_rw_spinlock: arithmetic of the word *)

\* Both fields have a positive width.
LEMMA WordUnits ==
  /\ Cardinality(Threads) \in Nat /\ RwUnit \in Nat /\ RwUnit > 0 /\ OwnerUnit \in Nat /\ OwnerUnit > 0
  /\ RwUnit * Cardinality(Threads) \in Nat /\ Cardinality(Threads) * (MaxDepth + 1) \in Nat
  /\ RwUnit * (Cardinality(Threads) + 1) = RwUnit * Cardinality(Threads) + RwUnit
<1>1. Cardinality(Threads) \in Nat
  BY WordAssumption, FS_CardinalityType
<1>2. Cardinality(Threads) * (MaxDepth + 1) \in Nat
  BY <1>1, ThreadsAssumption
<1>3. RwUnit \in Nat /\ RwUnit > 0
  BY <1>2, WordAssumption
<1>4. RwUnit * Cardinality(Threads) \in Nat /\ RwUnit * (Cardinality(Threads) + 1) = RwUnit * Cardinality(Threads) + RwUnit
  BY <1>1, <1>3
<1>. QED  BY <1>1, <1>2, <1>3, <1>4, WordAssumption

\* A number below n added to a multiple of n leaves the quotient as it is.
LEMMA Quotient ==
  ASSUME NEW n \in Nat, n > 0, NEW q \in Nat, NEW r \in Nat, r < n
  PROVE  (r + n * q) \div n = q /\ (r + n * q) % n = r
<1>. DEFINE x == r + n * q
            p == x \div n
<1>0. n * q \in Nat
  OBVIOUS
<1>1. x \in Nat /\ p \in Int /\ x % n \in 0..n-1 /\ x = n * p + (x % n)
  <2>1. x \in Nat
    BY <1>0
  <2>2. \A y \in Nat : y \div n \in Int /\ y % n \in 0..n-1 /\ y = n * (y \div n) + (y % n)
    OBVIOUS
  <2>. QED  BY <2>1, <2>2
<1>2. x = r + n * q
  OBVIOUS
<1>. HIDE DEF x, p
<1>3. n * (p - q) = n * p - n * q
  BY <1>1
<1>4. n * p \in Int
  BY <1>1
<1>5. n * (p - q) < n /\ n * (p - q) > -n
  BY <1>0, <1>1, <1>2, <1>3, <1>4
<1>6. p - q < 1
  <2>. SUFFICES ASSUME p - q >= 1 PROVE FALSE
    BY <1>1
  <2>1. n * (p - q - 1) >= 0 /\ n * (p - q - 1) = n * (p - q) - n
    BY <1>1
  <2>. QED  BY <1>1, <1>3, <1>4, <1>5, <1>0, <2>1
<1>7. p - q > -1
  <2>. SUFFICES ASSUME q - p >= 1 PROVE FALSE
    BY <1>1
  <2>1. n * (q - p - 1) >= 0 /\ n * (q - p - 1) = n * q - n * p - n
    BY <1>1
  <2>. QED  BY <1>1, <1>3, <1>4, <1>5, <1>0, <2>1
<1>8. p = q
  BY <1>1, <1>6, <1>7
<1>9. x % n = r
  BY <1>0, <1>1, <1>2, <1>8
<1>. QED  BY <1>8, <1>9 DEF x, p

\* What the masks of recursive_rw_spinlock find in a word with s readers, w
\* writers and owner o, each within its field.
LEMMA WordFields ==
  ASSUME NEW s \in Nat, s < RwUnit, NEW w \in Nat, w <= Cardinality(Threads), NEW o \in Nat
  PROVE  /\ s + RwUnit * w + OwnerUnit * o \in Nat
         /\ W!OwnerId(s + RwUnit * w + OwnerUnit * o) = o
         /\ W!WriterBits(s + RwUnit * w + OwnerUnit * o) = w
         /\ w # 0 /\ W!OnlyMe(s + RwUnit * w + OwnerUnit * o) => s = 0 /\ w = 1
<1>. DEFINE low == s + RwUnit * w
<1>1. RwUnit * w \in Nat /\ OwnerUnit * o \in Nat
  BY WordUnits
<1>2. RwUnit * (Cardinality(Threads) - w) >= 0 /\
      RwUnit * (Cardinality(Threads) - w) = RwUnit * Cardinality(Threads) - RwUnit * w
  BY WordUnits
<1>3. low \in Nat /\ low < OwnerUnit
  BY <1>1, <1>2, WordUnits, WordAssumption
<1>4. (low + OwnerUnit * o) \div OwnerUnit = o /\ (low + OwnerUnit * o) % OwnerUnit = low
  BY <1>3, WordUnits, Quotient
<1>5. low \div RwUnit = w
  BY WordUnits, Quotient
<1>6. ASSUME w # 0, low + OwnerUnit * o = RwUnit PROVE s = 0 /\ w = 1
  <2>1. RwUnit * (w - 1) >= 0 /\ RwUnit * (w - 1) = RwUnit * w - RwUnit
    BY <1>6, WordUnits
  <2>2. s = 0 /\ RwUnit * (w - 1) = 0
    BY <1>1, <1>6, <2>1, WordUnits
  <2>3. w - 1 = 0
    BY <2>2, WordUnits
  <2>. QED  BY <2>2, <2>3
<1>. QED  BY <1>1, <1>3, <1>4, <1>5, <1>6 DEF W!OwnerId, W!WriterBits, W!OnlyMe

-----------------------------------------------------------------------------
(* recursive_rw_spinlock: what one thread has and counts for *)

XIn(h)  == \E i \in 1..Len(h) : h[i] = "X"
XsIn(h) == Cardinality({i \in 1..Len(h) : h[i] = "X"})

\* The levels at which a thread at step p that has taken h is counted as a
\* reader, and how many those are; whether it is counted as a writer; as the owner.
LevelsOf(p, h) == {i \in 0..MaxDepth : \/ i = 0 /\ p \in {"r_undo", "r_release"}
                                       \/ i > 0 /\ i <= Len(h) /\ ~XIn(h)}
SharesOf(p, h) == (IF XIn(h) THEN 0 ELSE Len(h)) + (IF p \in {"r_undo", "r_release"} THEN 1 ELSE 0)
WritesOf(p, h) == IF XIn(h) \/ p \in {"w_own", "w_depth", "w_undo", "w_disown", "w_release"} THEN 1 ELSE 0
OwnsOf(p, h)   == IF XIn(h) \/ p \in {"w_depth", "w_disown"} THEN 1 ELSE 0

\* From the attempt that succeeded to the last step of unlock.
ThroughOf(p, h) == XIn(h) \/ p \in {"w_own", "w_depth", "w_disown", "w_release"}

Kinds == {"S", "X"}

\* The Cardinality that the instance brings in is the usual one.
LEMMA WSameCardinality == \A T : W!Cardinality(T) = Cardinality(T)
  BY DEF W!Cardinality, Cardinality

LEMMA XsCount ==
  ASSUME NEW h \in Seq(Kinds)
  PROVE  /\ IsFiniteSet({i \in 1..Len(h) : h[i] = "X"}) /\ XsIn(h) \in 0..Len(h)
         /\ XsIn(h) = 0 <=> ~XIn(h)
<1>. DEFINE X == {i \in 1..Len(h) : h[i] = "X"}
<1>1. Len(h) \in Nat
  OBVIOUS
<1>2. IsFiniteSet(1..Len(h)) /\ Cardinality(1..Len(h)) = Len(h)
  BY <1>1, FS_Interval
<1>3. X \in SUBSET (1..Len(h))
  OBVIOUS
<1>4. IsFiniteSet(X) /\ Cardinality(X) <= Len(h)
  BY <1>2, <1>3, FS_Subset
<1>5. Cardinality(X) \in Nat /\ (Cardinality(X) = 0 <=> X = {})
  BY <1>4, FS_CardinalityType, FS_EmptySet
<1>6. X = {} <=> ~XIn(h)
  BY DEF XIn
<1>. QED  BY <1>1, <1>4, <1>5, <1>6 DEF XsIn

\* One more level.
LEMMA OneMore ==
  ASSUME NEW h \in Seq(Kinds), NEW k \in Kinds
  PROVE  /\ Append(h, k) \in Seq(Kinds) /\ Len(Append(h, k)) = Len(h) + 1 /\ Append(h, k) # << >>
         /\ Append(h, k)[1] = IF h = << >> THEN k ELSE h[1]
         /\ XIn(Append(h, k)) <=> XIn(h) \/ k = "X"
         /\ XsIn(Append(h, k)) = XsIn(h) + (IF k = "X" THEN 1 ELSE 0)
<1>. DEFINE g == Append(h, k)
            n == Len(h)
<1>1. g \in Seq(Kinds) /\ Len(g) = n + 1 /\ n \in Nat /\ g[n + 1] = k /\ \A i \in 1..n : g[i] = h[i]
  OBVIOUS
<1>2. g # << >> /\ g[1] = IF h = << >> THEN k ELSE h[1]
  <2>1. h = << >> => g[1] = k
    BY <1>1
  <2>2. h # << >> => 1 \in 1..n
    BY <1>1
  <2>. QED  BY <1>1, <2>1, <2>2
<1>3. XIn(g) <=> XIn(h) \/ k = "X"
  <2>1. XIn(g) <=> \E i \in 1..n + 1 : g[i] = "X"
    BY <1>1 DEF XIn
  <2>2. (\E i \in 1..n + 1 : g[i] = "X") <=> (\E i \in 1..n : g[i] = "X") \/ g[n + 1] = "X"
    BY <1>1
  <2>. QED  BY <1>1, <2>1, <2>2 DEF XIn
<1>4. XsIn(g) = XsIn(h) + (IF k = "X" THEN 1 ELSE 0)
  <2>. DEFINE A == {i \in 1..n : h[i] = "X"}
              B == {i \in 1..n + 1 : g[i] = "X"}
  <2>1. XsIn(g) = Cardinality(B) /\ XsIn(h) = Cardinality(A) /\ IsFiniteSet(A) /\ Cardinality(A) \in Nat
    BY <1>1, XsCount, FS_CardinalityType DEF XsIn
  <2>2. k = "X" => B = A \cup {n + 1} /\ n + 1 \notin A
    BY <1>1
  <2>3. k # "X" => B = A
    BY <1>1
  <2>. HIDE DEF A, B
  <2>4. k = "X" => Cardinality(B) = Cardinality(A) + 1
    BY <2>1, <2>2, FS_AddElement
  <2>. QED  BY <2>1, <2>3, <2>4
<1>. QED  BY <1>1, <1>2, <1>3, <1>4

\* One level less.
LEMMA OneLess ==
  ASSUME NEW h \in Seq(Kinds), h # << >>, XIn(h) => h[1] = "X"
  PROVE  LET g == SubSeq(h, 1, Len(h) - 1)
         IN  /\ g \in Seq(Kinds) /\ Len(g) = Len(h) - 1 /\ Len(h) > 0 /\ (g = << >> <=> Len(h) = 1)
             /\ g # << >> => g[1] = h[1]
             /\ XIn(g) <=> XIn(h) /\ Len(h) > 1
             /\ XsIn(g) = XsIn(h) - (IF h[Len(h)] = "X" THEN 1 ELSE 0)
<1>. DEFINE g == SubSeq(h, 1, Len(h) - 1)
            n == Len(h) - 1
<1>0. Len(h) \in Nat /\ Len(h) # 0
  OBVIOUS
<1>1. g \in Seq(Kinds) /\ Len(g) = n /\ n \in Nat /\ \A i \in 1..n : g[i] = h[i]
  <2>1. n \in Nat /\ n <= Len(h)
    BY <1>0
  <2>. HIDE DEF n
  <2>2. \A m \in Nat : m <= Len(h) => /\ SubSeq(h, 1, m) \in Seq(Kinds) /\ Len(SubSeq(h, 1, m)) = m
                                     /\ \A i \in 1..m : SubSeq(h, 1, m)[i] = h[i]
    OBVIOUS
  <2>3. g = SubSeq(h, 1, n)
    BY DEF n
  <2>. QED  BY <2>1, <2>2, <2>3
<1>2. g = << >> <=> Len(h) = 1
  <2>1. \A s \in Seq(Kinds) : s = << >> <=> Len(s) = 0
    OBVIOUS
  <2>2. g = << >> <=> n = 0
    BY <1>1, <2>1
  <2>. QED  BY <1>0, <2>2
<1>. HIDE DEF g
<1>3. g # << >> => g[1] = h[1]
  BY <1>0, <1>1, <1>2
<1>4. XIn(g) <=> XIn(h) /\ Len(h) > 1
  <2>1. XIn(g) <=> \E i \in 1..n : h[i] = "X"
    BY <1>1 DEF XIn
  <2>2. (\E i \in 1..n : h[i] = "X") => XIn(h) /\ Len(h) > 1
    BY <1>0 DEF XIn
  <2>3. XIn(h) /\ Len(h) > 1 => 1 \in 1..n /\ h[1] = "X"
    BY <1>0
  <2>. QED  BY <2>1, <2>2, <2>3
<1>5. XsIn(g) = XsIn(h) - (IF h[Len(h)] = "X" THEN 1 ELSE 0)
  <2>. DEFINE A == {i \in 1..Len(h) : h[i] = "X"}
              B == {i \in 1..n : g[i] = "X"}
  <2>1. /\ XsIn(g) = Cardinality(B) /\ XsIn(h) = Cardinality(A) /\ IsFiniteSet(A) /\ Cardinality(A) \in Nat
        /\ IsFiniteSet(B) /\ Cardinality(B) \in Nat
    BY <1>1, XsCount, FS_CardinalityType DEF XsIn
  <2>2. h[Len(h)] = "X" => A = B \cup {Len(h)} /\ Len(h) \notin B
    BY <1>0, <1>1
  <2>3. h[Len(h)] # "X" => A = B
    BY <1>0, <1>1
  <2>. HIDE DEF A, B
  <2>4. h[Len(h)] = "X" => Cardinality(A) = Cardinality(B) + 1
    BY <2>1, <2>2, FS_AddElement
  <2>. QED  BY <2>1, <2>3, <2>4
<1>6. Len(h) > 0 /\ Len(g) = Len(h) - 1
  BY <1>0, <1>1
<1>. QED  BY <1>1, <1>2, <1>3, <1>4, <1>5, <1>6, Zenon DEF g

\* The last of several exclusive levels is not the first.
LEMMA LastExclusive ==
  ASSUME NEW h \in Seq(Kinds), h # << >>, h[1] = "X", h[Len(h)] = "X"
  PROVE  XsIn(h) = 1 <=> Len(h) = 1
<1>. DEFINE g == SubSeq(h, 1, Len(h) - 1)
<1>1. /\ g \in Seq(Kinds) /\ Len(g) = Len(h) - 1 /\ Len(h) > 0
      /\ XsIn(g) = XsIn(h) - 1 /\ (XIn(g) <=> XIn(h) /\ Len(h) > 1)
  BY OneLess
<1>2. XIn(h)
  <2>1. Len(h) \in Nat /\ Len(h) # 0
    OBVIOUS
  <2>. QED  BY <2>1 DEF XIn
<1>3. XsIn(g) = 0 <=> ~XIn(g)
  BY <1>1, XsCount
<1>4. XsIn(h) \in Nat /\ Len(h) \in Nat
  <2>1. Len(h) \in Nat
    OBVIOUS
  <2>2. XsIn(h) \in 0..Len(h)
    BY XsCount
  <2>. QED  BY <2>1, <2>2
<1>. HIDE DEF g
<1>. QED  BY <1>1, <1>2, <1>3, <1>4

LEMMA LevelsCount ==
  ASSUME NEW p, NEW h \in Seq(Kinds), Len(h) <= MaxDepth
  PROVE  IsFiniteSet(LevelsOf(p, h)) /\ Cardinality(LevelsOf(p, h)) = SharesOf(p, h) /\ SharesOf(p, h) \in Nat
<1>. DEFINE m == IF XIn(h) THEN 0 ELSE Len(h)
<1>1. m \in Nat /\ m <= MaxDepth /\ MaxDepth \in Nat
  BY ThreadsAssumption
<1>2. \A i \in 0..MaxDepth : i > 0 /\ i <= Len(h) /\ ~XIn(h) <=> i \in 1..m
  <2>1. CASE XIn(h)
    BY <2>1
  <2>2. CASE ~XIn(h)
    BY <2>2
  <2>. QED  BY <2>1, <2>2
<1>3. IsFiniteSet(1..m) /\ Cardinality(1..m) = m
  BY <1>1, FS_Interval
<1>4. SharesOf(p, h) = m + (IF p \in {"r_undo", "r_release"} THEN 1 ELSE 0)
  BY DEF SharesOf
<1>. HIDE DEF m
<1>5. CASE p \in {"r_undo", "r_release"}
  <2>1. LevelsOf(p, h) = (1..m) \cup {0} /\ 0 \notin 1..m
    BY <1>1, <1>2, <1>5 DEF LevelsOf
  <2>2. IsFiniteSet((1..m) \cup {0}) /\ Cardinality((1..m) \cup {0}) = m + 1
    BY <1>3, <2>1, FS_AddElement
  <2>. QED  BY <1>1, <1>4, <1>5, <2>1, <2>2
<1>6. CASE p \notin {"r_undo", "r_release"}
  <2>1. LevelsOf(p, h) = 1..m
    BY <1>1, <1>2, <1>6 DEF LevelsOf
  <2>. QED  BY <1>1, <1>3, <1>4, <1>6, <2>1
<1>. QED  BY <1>5, <1>6

\* All pairs of a thread and a level.
LEMMA AllPairs ==
  /\ IsFiniteSet(0..MaxDepth) /\ IsFiniteSet(Threads \X (0..MaxDepth))
  /\ Cardinality(Threads \X (0..MaxDepth)) = Cardinality(Threads) * (MaxDepth + 1)
<1>1. MaxDepth \in Int /\ 0 \in Int /\ ~(0 > MaxDepth)
  BY ThreadsAssumption
<1>2. IsFiniteSet(0..MaxDepth) /\ Cardinality(0..MaxDepth) = MaxDepth + 1
  BY <1>1, FS_Interval
<1>3. IsFiniteSet(Threads)
  BY WordAssumption
<1>. QED  BY <1>2, <1>3, FS_Product

\* Pairs of a thread and a level are counted thread by thread.
LEMMA PairsCount ==
  ASSUME NEW A \in SUBSET (Threads \X (0..MaxDepth)), NEW B \in SUBSET (Threads \X (0..MaxDepth)),
         NEW t \in Threads, NEW I \in SUBSET (0..MaxDepth), NEW J \in SUBSET (0..MaxDepth),
         \A i \in 0..MaxDepth : <<t, i>> \in A <=> i \in I,
         \A i \in 0..MaxDepth : <<t, i>> \in B <=> i \in J,
         \A u \in Threads, i \in 0..MaxDepth : u # t => (<<u, i>> \in A <=> <<u, i>> \in B)
  PROVE  Cardinality(B) = Cardinality(A) - Cardinality(I) + Cardinality(J)
<1>. DEFINE Of(K) == {x \in Threads \X (0..MaxDepth) : x[1] = t /\ x[2] \in K}
            Rest == {x \in A : x[1] # t}
<1>0. IsFiniteSet(0..MaxDepth) /\ IsFiniteSet(Threads \X (0..MaxDepth))
  BY AllPairs
<1>1. ASSUME NEW K \in SUBSET (0..MaxDepth)
      PROVE  IsFiniteSet(Of(K)) /\ Cardinality(Of(K)) = Cardinality(K) /\ Cardinality(K) \in Nat
  <2>1. IsFiniteSet(K)
    BY <1>0, FS_Subset
  <2>2. [i \in K |-> <<t, i>>] \in Bijection(K, Of(K))
    <3>. DEFINE f == [i \in K |-> <<t, i>>]
    <3>1. f \in [K -> Of(K)]
      OBVIOUS
    <3>2. \A i, j \in K : f[i] = f[j] => i = j
      OBVIOUS
    <3>3. \A x \in Of(K) : \E i \in K : f[i] = x
      OBVIOUS
    <3>. HIDE DEF f, Of
    <3>4. f \in Injection(K, Of(K)) /\ f \in Surjection(K, Of(K))
      BY <3>1, <3>2, <3>3 DEF Injection, Surjection, IsInjective
    <3>5. f \in Bijection(K, Of(K))
      BY <3>4 DEF Bijection
    <3>. QED  BY <3>5 DEF f
  <2>3. ExistsBijection(K, Of(K))
    BY <2>2 DEF ExistsBijection
  <2>. QED  BY <2>1, <2>3, FS_Bijection, FS_CardinalityType
<1>2. IsFiniteSet(Rest) /\ Cardinality(Rest) \in Nat
  <2>1. Rest \in SUBSET (Threads \X (0..MaxDepth))
    OBVIOUS
  <2>. QED  BY <1>0, <2>1, FS_Subset, FS_CardinalityType
<1>3. \A K : Rest \cap Of(K) = {}
  OBVIOUS
<1>4. A = Rest \cup Of(I) /\ B = Rest \cup Of(J)
  OBVIOUS
<1>. HIDE DEF Rest, Of
<1>5. ASSUME NEW K \in SUBSET (0..MaxDepth)
      PROVE  Cardinality(Rest \cup Of(K)) = Cardinality(Rest) + Cardinality(K)
  <2>1. Cardinality(Rest \cup Of(K)) = Cardinality(Rest) + Cardinality(Of(K)) - Cardinality(Rest \cap Of(K))
    BY <1>1, <1>2, FS_Union
  <2>2. Cardinality(Rest \cap Of(K)) = 0
    BY <1>3, FS_EmptySet
  <2>. QED  BY <1>1, <1>2, <2>1, <2>2
<1>6. Cardinality(A) = Cardinality(Rest) + Cardinality(I) /\ Cardinality(B) = Cardinality(Rest) + Cardinality(J)
  BY <1>4, <1>5
<1>7. Cardinality(I) \in Nat /\ Cardinality(J) \in Nat
  BY <1>1
<1>. QED  BY <1>2, <1>6, <1>7

-----------------------------------------------------------------------------
(* recursive_rw_spinlock: the inductive invariant *)

\* Where a thread can be, and with what: exclusive levels are on an exclusive
\* first one, the first exclusive level is taken and given up with nothing else
\* in hand, and whatever is being taken has room.
CallOf(p, h) ==
  /\ XIn(h) => h # << >> /\ h[1] = "X"
  /\ p \in {"w_try", "w_own", "w_depth", "w_undo", "w_wait", "w_disown", "w_release"} => h = << >>
  /\ p = "w_nest" => XIn(h)
  /\ p \in {"r_try", "r_undo", "r_wait", "r_release"} => ~XIn(h)
  /\ p # "idle" => Len(h) < MaxDepth
CallsInv == \A t \in Threads : CallOf(rwpc[t], held[t])

\* While one thread is through as a writer, no other is, and no other has a level.
Through(t) == ThroughOf(rwpc[t], held[t])
AloneInv == \A t, u \in Threads : Through(t) /\ t # u => held[u] = << >> /\ ~Through(u)

RwInv == W!WordAndDepth /\ CallsInv /\ AloneInv

\* The definitions of the model in terms of what one thread has.
LEMMA InTerms ==
  ASSUME NEW t \in Threads
  PROVE  /\ W!Has(t, "X") <=> XIn(held[t])
         /\ W!Writes(t) <=> WritesOf(rwpc[t], held[t]) = 1
         /\ W!Owner(t) <=> OwnsOf(rwpc[t], held[t]) = 1
         /\ \A i \in 0..MaxDepth : W!ShareAt(t, i) <=> i \in LevelsOf(rwpc[t], held[t])
         /\ W!Exclusives(t) = XsIn(held[t])
<1>1. W!Has(t, "X") <=> XIn(held[t])
  BY DEF W!Has, XIn
<1>2. W!Writes(t) <=> WritesOf(rwpc[t], held[t]) = 1
  BY <1>1 DEF W!Writes, WritesOf
<1>3. W!Owner(t) <=> OwnsOf(rwpc[t], held[t]) = 1
  BY <1>1 DEF W!Owner, OwnsOf
<1>4. \A i \in 0..MaxDepth : W!ShareAt(t, i) <=> i \in LevelsOf(rwpc[t], held[t])
  BY <1>1 DEF W!ShareAt, LevelsOf
<1>5. W!Exclusives(t) = XsIn(held[t])
  BY WSameCardinality DEF W!Exclusives, XsIn
<1>. QED  BY <1>1, <1>2, <1>3, <1>4, <1>5

LEMMA InTermsNext ==
  ASSUME NEW t \in Threads
  PROVE  /\ W!Has(t, "X")' <=> XIn(held'[t])
         /\ W!Writes(t)' <=> WritesOf(rwpc'[t], held'[t]) = 1
         /\ W!Owner(t)' <=> OwnsOf(rwpc'[t], held'[t]) = 1
         /\ \A i \in 0..MaxDepth : W!ShareAt(t, i)' <=> i \in LevelsOf(rwpc'[t], held'[t])
         /\ W!Exclusives(t)' = XsIn(held'[t])
<1>1. W!Has(t, "X")' <=> XIn(held'[t])
  BY DEF W!Has, XIn
<1>2. W!Writes(t)' <=> WritesOf(rwpc'[t], held'[t]) = 1
  BY <1>1 DEF W!Writes, WritesOf
<1>3. W!Owner(t)' <=> OwnsOf(rwpc'[t], held'[t]) = 1
  BY <1>1 DEF W!Owner, OwnsOf
<1>4. \A i \in 0..MaxDepth : W!ShareAt(t, i)' <=> i \in LevelsOf(rwpc'[t], held'[t])
  BY <1>1 DEF W!ShareAt, LevelsOf
<1>5. W!Exclusives(t)' = XsIn(held'[t])
  BY WSameCardinality DEF W!Exclusives, XsIn
<1>. QED  BY <1>1, <1>2, <1>3, <1>4, <1>5

\* What the counts of the word are between.
LEMMA CountsFit ==
  ASSUME NEW A \in SUBSET (Threads \X (0..MaxDepth)), NEW B \in SUBSET Threads
  PROVE  /\ IsFiniteSet(A) /\ Cardinality(A) \in Nat /\ Cardinality(A) < RwUnit
         /\ IsFiniteSet(B) /\ Cardinality(B) \in Nat /\ Cardinality(B) <= Cardinality(Threads)
<1>1. /\ IsFiniteSet(A) /\ Cardinality(A) <= Cardinality(Threads \X (0..MaxDepth))
  BY AllPairs, FS_Subset
<1>2. IsFiniteSet(Threads)
  BY WordAssumption
<1>3. IsFiniteSet(B) /\ Cardinality(B) <= Cardinality(Threads)
  BY <1>2, FS_Subset
<1>4. Cardinality(A) \in Nat /\ Cardinality(B) \in Nat
  BY <1>1, <1>3, FS_CardinalityType
<1>5. Cardinality(A) < RwUnit
  BY <1>1, <1>4, AllPairs, WordAssumption, WordUnits
<1>. QED  BY <1>1, <1>3, <1>4, <1>5

\* The owner field is the identifier of the one owner.
LEMMA OwnerField ==
  ASSUME ~OnLinux, \A t, u \in Threads : W!Owner(t) /\ W!Owner(u) => t = u
  PROVE  /\ W!OwnerBits \in Nat
         /\ \A t \in Threads : W!Owner(t) <=> W!OwnerBits = t
         /\ (\A t \in Threads : ~W!Owner(t)) => W!OwnerBits = 0
<1>1. \A t \in Threads : W!get_thread_id(t) = t /\ t \in Nat /\ t # 0
  BY ThreadsAssumption DEF W!get_thread_id
<1>2. ASSUME NEW t \in Threads, W!Owner(t) PROVE W!OwnerBits = t
  <2>1. (CHOOSE u \in Threads : W!Owner(u)) = t
    BY <1>2
  <2>2. W!OwnerBits = W!get_thread_id(CHOOSE u \in Threads : W!Owner(u))
    BY <1>2 DEF W!OwnerBits
  <2>. QED  BY <1>1, <2>1, <2>2
<1>3. (\A t \in Threads : ~W!Owner(t)) => W!OwnerBits = 0
  BY DEF W!OwnerBits
<1>. QED  BY <1>1, <1>2, <1>3

LEMMA OwnerFieldNext ==
  ASSUME ~OnLinux, \A t, u \in Threads : W!Owner(t)' /\ W!Owner(u)' => t = u
  PROVE  /\ W!OwnerBits' \in Nat
         /\ \A t \in Threads : W!Owner(t)' <=> W!OwnerBits' = t
         /\ (\A t \in Threads : ~W!Owner(t)') => W!OwnerBits' = 0
<1>1. \A t \in Threads : W!get_thread_id(t) = t /\ t \in Nat /\ t # 0
  BY ThreadsAssumption DEF W!get_thread_id
<1>2. ASSUME NEW t \in Threads, W!Owner(t)' PROVE W!OwnerBits' = t
  <2>1. (CHOOSE u \in Threads : W!Owner(u)') = t
    BY <1>2
  <2>2. W!OwnerBits' = W!get_thread_id(CHOOSE u \in Threads : W!Owner(u)')
    BY <1>2 DEF W!OwnerBits, W!get_thread_id
  <2>. QED  BY <1>1, <2>1, <2>2
<1>3. (\A t \in Threads : ~W!Owner(t)') => W!OwnerBits' = 0
  BY DEF W!OwnerBits
<1>. QED  BY <1>1, <1>2, <1>3

\* A step of one thread keeps the invariant if the thread ends up where it can
\* be, becomes a writer or takes a level only when it may, adds to the word what
\* it now counts for, and the depth is its exclusive levels.
LEMMA ThreadStep ==
  ASSUME ~OnLinux, RwInv, NEW t \in Threads, NEW p \in W!Steps, NEW h \in Seq(Kinds), Len(h) <= MaxDepth,
         rwpc' = [rwpc EXCEPT ![t] = p], held' = [held EXCEPT ![t] = h],
         CallOf(p, h),
         ThroughOf(p, h) => Through(t) \/ \A u \in Threads \ {t} : held[u] = << >> /\ ~Through(u),
         h # << >> => held[t] # << >> \/ \A u \in Threads \ {t} : ~Through(u),
         word' = word + (SharesOf(p, h) - SharesOf(rwpc[t], held[t]))
                      + RwUnit * (WritesOf(p, h) - WritesOf(rwpc[t], held[t]))
                      + OwnerUnit * (t * (OwnsOf(p, h) - OwnsOf(rwpc[t], held[t]))),
         wdepth' = (IF XIn(h) THEN XsIn(h) ELSE IF XIn(held[t]) THEN 0 ELSE wdepth)
  PROVE  RwInv'
<1>0. W!WordAndDepth /\ W!TypeOK /\ CallsInv /\ AloneInv
  BY DEF RwInv, W!WordAndDepth
<1>1. /\ rwpc \in [Threads -> W!Steps] /\ held \in [Threads -> Seq(Kinds)]
      /\ \A u \in Threads : Len(held[u]) <= MaxDepth
  BY <1>0 DEF W!TypeOK, Kinds
<1>2. /\ rwpc' \in [Threads -> W!Steps] /\ held' \in [Threads -> Seq(Kinds)]
      /\ rwpc'[t] = p /\ held'[t] = h
      /\ \A u \in Threads : u # t => rwpc'[u] = rwpc[u] /\ held'[u] = held[u]
  BY <1>1
<1>3. CallsInv'
  BY <1>0, <1>2 DEF CallsInv
<1>4. AloneInv'
  <2>1. ASSUME NEW u \in Threads, NEW v \in Threads, ThroughOf(rwpc'[u], held'[u]), u # v
        PROVE  held'[v] = << >> /\ ~ThroughOf(rwpc'[v], held'[v])
    <3>1. CASE u = t
      <4>1. held[v] = << >> /\ ~Through(v)
        BY <1>0, <1>2, <2>1, <3>1 DEF AloneInv
      <4>. QED  BY <1>2, <2>1, <3>1, <4>1 DEF Through
    <3>2. CASE v = t
      <4>1. Through(u)
        BY <1>2, <2>1, <3>2 DEF Through
      <4>2. held[t] = << >> /\ ~Through(t)
        BY <1>0, <2>1, <3>2, <4>1 DEF AloneInv
      <4>3. h = << >> /\ ~ThroughOf(p, h)
        BY <2>1, <3>2, <4>1, <4>2
      <4>. QED  BY <1>2, <3>2, <4>3
    <3>3. CASE u # t /\ v # t
      BY <1>0, <1>2, <2>1, <3>3 DEF AloneInv, Through
    <3>. QED  BY <3>1, <3>2, <3>3
  <2>. QED  BY <2>1 DEF AloneInv, Through
<1>5. \A u, v \in Threads : W!Owner(u) /\ W!Owner(v) => u = v
  BY <1>0 DEF W!WordAndDepth
<1>6. ASSUME NEW u \in Threads, NEW v \in Threads, W!Owner(u)', W!Owner(v)' PROVE u = v
  <2>1. ThroughOf(rwpc'[u], held'[u]) /\ ThroughOf(rwpc'[v], held'[v])
    BY <1>6, InTermsNext DEF OwnsOf, ThroughOf
  <2>. QED  BY <1>4, <2>1 DEF AloneInv, Through
<1>7. W!OwnerBits' = W!OwnerBits + t * (OwnsOf(p, h) - OwnsOf(rwpc[t], held[t])) /\ W!OwnerBits' \in Nat /\ W!OwnerBits \in Nat
  <2>1. /\ W!OwnerBits \in Nat
        /\ \A u \in Threads : W!Owner(u) <=> W!OwnerBits = u
        /\ (\A u \in Threads : ~W!Owner(u)) => W!OwnerBits = 0
    BY <1>5, OwnerField
  <2>2. /\ W!OwnerBits' \in Nat
        /\ \A u \in Threads : W!Owner(u)' <=> W!OwnerBits' = u
        /\ (\A u \in Threads : ~W!Owner(u)') => W!OwnerBits' = 0
    BY <1>6, OwnerFieldNext
  <2>3. \A u \in Threads : u # t => (W!Owner(u)' <=> W!Owner(u))
    BY <1>2, InTerms, InTermsNext
  <2>4. /\ W!Owner(t) <=> OwnsOf(rwpc[t], held[t]) = 1
        /\ W!Owner(t)' <=> OwnsOf(p, h) = 1
    BY <1>2, InTerms, InTermsNext
  <2>5. OwnsOf(rwpc[t], held[t]) \in {0, 1} /\ OwnsOf(p, h) \in {0, 1}
    BY DEF OwnsOf
  <2>6. t \in Nat
    BY ThreadsAssumption
  <2>7. CASE \E u \in Threads : u # t /\ W!Owner(u)
    <3>1. PICK u \in Threads : u # t /\ W!Owner(u)
      BY <2>7
    <3>2. W!OwnerBits = u /\ W!OwnerBits' = u /\ ~W!Owner(t) /\ ~W!Owner(t)'
      BY <1>5, <1>6, <2>1, <2>2, <2>3, <3>1
    <3>3. OwnsOf(p, h) = 0 /\ OwnsOf(rwpc[t], held[t]) = 0
      BY <2>4, <2>5, <3>2
    <3>. QED  BY <2>1, <2>2, <2>6, <3>2, <3>3
  <2>8. CASE \A u \in Threads : u # t => ~W!Owner(u)
    <3>1. \A u \in Threads : u # t => ~W!Owner(u)'
      BY <2>3, <2>8
    <3>2. W!OwnerBits = IF OwnsOf(rwpc[t], held[t]) = 1 THEN t ELSE 0
      BY <2>1, <2>4, <2>8
    <3>3. W!OwnerBits' = IF OwnsOf(p, h) = 1 THEN t ELSE 0
      BY <2>2, <2>4, <3>1
    <3>. QED  BY <2>1, <2>2, <2>5, <2>6, <3>2, <3>3
  <2>. QED  BY <2>7, <2>8
<1>. DEFINE A == W!Shares
            B == W!Shares'
            G == {u \in Threads : W!Writes(u)}
            H == {u \in Threads : W!Writes(u)'}
<1>8. Cardinality(B) = Cardinality(A) - SharesOf(rwpc[t], held[t]) + SharesOf(p, h)
  <2>. DEFINE I == LevelsOf(rwpc[t], held[t])
              J == LevelsOf(p, h)
  <2>1. A \in SUBSET (Threads \X (0..MaxDepth)) /\ B \in SUBSET (Threads \X (0..MaxDepth))
    BY DEF W!Shares
  <2>2. I \in SUBSET (0..MaxDepth) /\ J \in SUBSET (0..MaxDepth)
    BY DEF LevelsOf
  <2>3. \A u \in Threads, i \in 0..MaxDepth : /\ <<u, i>> \in A <=> W!ShareAt(u, i)
                                              /\ <<u, i>> \in B <=> W!ShareAt(u, i)'
    BY DEF W!Shares
  <2>4. \A u \in Threads, i \in 0..MaxDepth : /\ <<u, i>> \in A <=> i \in LevelsOf(rwpc[u], held[u])
                                              /\ <<u, i>> \in B <=> i \in LevelsOf(rwpc'[u], held'[u])
    BY <2>3, InTerms, InTermsNext
  <2>5. \A u \in Threads, i \in 0..MaxDepth : u # t => (<<u, i>> \in A <=> <<u, i>> \in B)
    BY <1>2, <2>4
  <2>6. /\ \A i \in 0..MaxDepth : <<t, i>> \in A <=> i \in I
        /\ \A i \in 0..MaxDepth : <<t, i>> \in B <=> i \in J
    BY <1>2, <2>4
  <2>. HIDE DEF A, B, I, J, G, H
  <2>7. Cardinality(B) = Cardinality(A) - Cardinality(I) + Cardinality(J)
    BY <2>1, <2>2, <2>5, <2>6, PairsCount
  <2>8. Cardinality(I) = SharesOf(rwpc[t], held[t]) /\ Cardinality(J) = SharesOf(p, h)
    BY <1>1, LevelsCount DEF I, J
  <2>. QED  BY <2>7, <2>8
<1>9. Cardinality(H) = Cardinality(G) + WritesOf(p, h) - WritesOf(rwpc[t], held[t])
  <2>1. G \in SUBSET Threads /\ IsFiniteSet(G) /\ H \in SUBSET Threads
    <3>1. G \in SUBSET Threads /\ H \in SUBSET Threads
      OBVIOUS
    <3>. QED  BY <3>1, CountsFit
  <2>2. \A u \in Threads : u # t => (u \in H <=> u \in G)
    BY <1>2, InTerms, InTermsNext
  <2>3. (t \in G <=> WritesOf(rwpc[t], held[t]) = 1) /\ (t \in H <=> WritesOf(p, h) = 1)
    BY <1>2, InTerms, InTermsNext
  <2>4. WritesOf(rwpc[t], held[t]) \in {0, 1} /\ WritesOf(p, h) \in {0, 1}
    BY DEF WritesOf
  <2>. HIDE DEF G, H
  <2>5. Cardinality(G) \in Nat
    BY <2>1, FS_CardinalityType
  <2>6. CASE t \in G /\ t \notin H
    <3>1. H = G \ {t}
      BY <2>1, <2>2, <2>6
    <3>2. Cardinality(H) = Cardinality(G) - 1
      BY <2>1, <2>6, <3>1, FS_RemoveElement
    <3>. QED  BY <2>3, <2>4, <2>5, <2>6, <3>2
  <2>7. CASE t \notin G /\ t \in H
    <3>1. H = G \cup {t}
      BY <2>1, <2>2, <2>7
    <3>2. Cardinality(H) = Cardinality(G) + 1
      BY <2>1, <2>7, <3>1, FS_AddElement
    <3>. QED  BY <2>3, <2>4, <2>5, <2>7, <3>2
  <2>8. CASE t \in G <=> t \in H
    <3>1. \A u : u \in H <=> u \in G
      BY <2>1, <2>2, <2>8, Zenon
    <3>0. H = G
      BY <3>1
    <3>2. WritesOf(p, h) = WritesOf(rwpc[t], held[t])
      BY <2>3, <2>4, <2>8
    <3>. QED  BY <2>4, <2>5, <3>0, <3>2
  <2>. QED  BY <2>6, <2>7, <2>8
<1>10. word' = Cardinality(B) + RwUnit * Cardinality(H) + OwnerUnit * W!OwnerBits' /\ word' \in Nat
  <2>. DEFINE a == Cardinality(A)
              b == Cardinality(B)
              g == Cardinality(G)
              x == Cardinality(H)
              o == W!OwnerBits
              q == W!OwnerBits'
  <2>1. a \in Nat /\ b \in Nat /\ b < RwUnit /\ g \in Nat /\ x \in Nat /\ x <= Cardinality(Threads)
    <3>1. A \in SUBSET (Threads \X (0..MaxDepth)) /\ B \in SUBSET (Threads \X (0..MaxDepth))
      BY DEF W!Shares
    <3>2. G \in SUBSET Threads /\ H \in SUBSET Threads
      OBVIOUS
    <3>. QED  BY <3>1, <3>2, CountsFit
  <2>2. word = a + RwUnit * g + OwnerUnit * o
    BY <1>0, WSameCardinality DEF W!WordAndDepth
  <2>3. o \in Nat /\ q \in Nat /\ t * (OwnsOf(p, h) - OwnsOf(rwpc[t], held[t])) = q - o
    <3>1. t \in Nat /\ OwnsOf(p, h) \in Int /\ OwnsOf(rwpc[t], held[t]) \in Int
      BY ThreadsAssumption DEF OwnsOf
    <3>. QED  BY <1>7, <3>1
  <2>4. SharesOf(p, h) - SharesOf(rwpc[t], held[t]) = b - a
    <3>1. SharesOf(p, h) \in Nat /\ SharesOf(rwpc[t], held[t]) \in Nat
      BY <1>1, LevelsCount
    <3>. HIDE DEF a, b
    <3>2. b = a - SharesOf(rwpc[t], held[t]) + SharesOf(p, h)
      BY <1>8 DEF a, b
    <3>. QED  BY <2>1, <3>1, <3>2
  <2>5. WritesOf(p, h) - WritesOf(rwpc[t], held[t]) = x - g
    <3>1. WritesOf(p, h) \in Int /\ WritesOf(rwpc[t], held[t]) \in Int
      BY DEF WritesOf
    <3>. HIDE DEF x, g
    <3>2. x = g + WritesOf(p, h) - WritesOf(rwpc[t], held[t])
      BY <1>9 DEF x, g
    <3>. QED  BY <2>1, <3>1, <3>2
  <2>6. word' = word + (b - a) + RwUnit * (x - g) + OwnerUnit * (q - o)
    BY <2>3, <2>4, <2>5
  <2>. HIDE DEF a, b, g, x, o, q
  <2>7. RwUnit * (x - g) = RwUnit * x - RwUnit * g /\ OwnerUnit * (q - o) = OwnerUnit * q - OwnerUnit * o
    BY <2>1, <2>3, WordUnits
  <2>8. /\ RwUnit * x \in Int /\ RwUnit * g \in Int /\ OwnerUnit * q \in Int /\ OwnerUnit * o \in Int
    BY <2>1, <2>3, WordUnits
  <2>9. word' = b + RwUnit * x + OwnerUnit * q
    <3>1. \A xx, gg, qq, oo \in Int : (a + gg + oo) + (b - a) + (xx - gg) + (qq - oo) = b + xx + qq
      BY <2>1
    <3>. QED  BY <2>2, <2>6, <2>7, <2>8, <3>1
  <2>10. b + RwUnit * x + OwnerUnit * q \in Nat
    BY <2>1, <2>3, WordFields
  <2>. QED  BY <2>9, <2>10 DEF b, x, q
<1>11. \A u \in Threads : /\ XIn(held[u]) => wdepth = XsIn(held[u])
                          /\ XIn(held[u]) => Through(u)
  BY <1>0, InTerms DEF W!WordAndDepth, Through, ThroughOf
<1>12. ASSUME NEW u \in Threads, XIn(held'[u]) PROVE wdepth' = XsIn(held'[u])
  <2>1. CASE u = t
    BY <1>2, <1>12, <2>1
  <2>2. CASE u # t
    <3>1. held'[u] = held[u] /\ Through(u)
      BY <1>2, <1>11, <1>12, <2>2
    <3>2. held[t] = << >> /\ ~Through(t)
      BY <1>0, <2>2, <3>1 DEF AloneInv
    <3>3. ~XIn(held[t]) /\ h = << >>
      BY <2>2, <3>1, <3>2 DEF Through, ThroughOf
    <3>4. ~XIn(h)
      BY <3>2, <3>3
    <3>. QED  BY <1>11, <1>12, <3>1, <3>3, <3>4
  <2>. QED  BY <2>1, <2>2
<1>13. ASSUME \A u \in Threads : ~XIn(held'[u]) PROVE wdepth' = 0
  <2>1. ~XIn(h) /\ \A u \in Threads \ {t} : ~XIn(held[u])
    BY <1>2, <1>13
  <2>2. CASE XIn(held[t])
    BY <2>1, <2>2
  <2>3. CASE ~XIn(held[t])
    <3>1. \A u \in Threads : ~W!Has(u, "X")
      BY <2>1, <2>3, InTerms
    <3>. QED  BY <1>0, <2>1, <2>3, <3>1 DEF W!WordAndDepth
  <2>. QED  BY <2>2, <2>3
<1>14. wdepth' \in 0..MaxDepth
  <2>0. Len(h) \in Nat
    OBVIOUS
  <2>1. XsIn(h) \in 0..Len(h)
    BY XsCount
  <2>2. wdepth \in 0..MaxDepth /\ MaxDepth \in Nat
    BY <1>0, ThreadsAssumption DEF W!TypeOK
  <2>. QED  BY <2>0, <2>1, <2>2
<1>15. W!TypeOK'
  BY <1>1, <1>2, <1>10, <1>14 DEF W!TypeOK, Kinds
<1>16. W!WordAndDepth'
  <2>1. \A u \in Threads : W!Has(u, "X")' => wdepth' = W!Exclusives(u)'
    BY <1>12, InTermsNext
  <2>2. (\A u \in Threads : ~W!Has(u, "X")') => wdepth' = 0
    BY <1>13, InTermsNext
  <2>3. word' = W!Cardinality(W!Shares') + RwUnit * W!Cardinality(H) + OwnerUnit * W!OwnerBits'
    BY <1>10, WSameCardinality
  <2>. QED  BY <1>6, <1>15, <2>1, <2>2, <2>3 DEF W!WordAndDepth
<1>. QED  BY <1>3, <1>4, <1>16 DEF RwInv

-----------------------------------------------------------------------------
(* recursive_rw_spinlock: what a thread learns from the word *)

\* What is known of a thread.
LEMMA OfThread ==
  ASSUME RwInv, NEW t \in Threads
  PROVE  /\ rwpc[t] \in W!Steps /\ held[t] \in Seq(Kinds) /\ Len(held[t]) \in Nat /\ Len(held[t]) <= MaxDepth
         /\ CallOf(rwpc[t], held[t]) /\ (XIn(held[t]) => wdepth = XsIn(held[t]))
         /\ word \in Nat /\ wdepth \in Nat /\ t \in Nat
         /\ rwpc \in [Threads -> W!Steps] /\ held \in [Threads -> Seq(Kinds)]
<1>1. /\ rwpc \in [Threads -> W!Steps] /\ held \in [Threads -> Seq(Kinds)]
      /\ \A u \in Threads : Len(held[u]) <= MaxDepth
      /\ word \in Nat /\ wdepth \in Nat
  BY DEF RwInv, W!WordAndDepth, W!TypeOK, Kinds
<1>2. XIn(held[t]) => wdepth = XsIn(held[t])
  BY InTerms DEF RwInv, W!WordAndDepth
<1>. QED  BY <1>1, <1>2, ThreadsAssumption DEF RwInv, CallsInv

\* check_for_recursion finds out whether the thread is the owner.
LEMMA RecursionCheck ==
  ASSUME ~OnLinux, RwInv, NEW t \in Threads
  PROVE  W!check_for_recursion(t) <=> OwnsOf(rwpc[t], held[t]) = 1
<1>. DEFINE G == {u \in Threads : W!Writes(u)}
<1>1. word = Cardinality(W!Shares) + RwUnit * Cardinality(G) + OwnerUnit * W!OwnerBits
  BY WSameCardinality DEF RwInv, W!WordAndDepth
<1>2. /\ Cardinality(W!Shares) \in Nat /\ Cardinality(W!Shares) < RwUnit
      /\ Cardinality(G) \in Nat /\ Cardinality(G) <= Cardinality(Threads)
  <2>1. W!Shares \in SUBSET (Threads \X (0..MaxDepth)) /\ G \in SUBSET Threads
    BY DEF W!Shares
  <2>. QED  BY <2>1, CountsFit
<1>3. W!OwnerBits \in Nat /\ (W!Owner(t) <=> W!OwnerBits = t)
  BY OwnerField DEF RwInv, W!WordAndDepth
<1>4. W!OwnerId(word) = W!OwnerBits
  BY <1>1, <1>2, <1>3, WordFields
<1>. QED  BY <1>3, <1>4, InTerms DEF W!check_for_recursion, W!get_thread_id

\* One more reader that sees no writer in the word is alone with readers.
LEMMA SeesNoWriter ==
  ASSUME ~OnLinux, RwInv, NEW t \in Threads, rwpc[t] = "r_try", W!WriterBits(word + 1) = 0
  PROVE  \A u \in Threads : ~Through(u)
<1>. DEFINE G == {u \in Threads : W!Writes(u)}
            A == W!Shares
<1>1. word = Cardinality(A) + RwUnit * Cardinality(G) + OwnerUnit * W!OwnerBits
  BY WSameCardinality DEF RwInv, W!WordAndDepth
<1>2. A \in SUBSET (Threads \X (0..MaxDepth)) /\ G \in SUBSET Threads
  BY DEF W!Shares
<1>3. IsFiniteSet(A) /\ Cardinality(A) \in Nat /\ Cardinality(A) + 1 < RwUnit
  <2>1. <<t, 0>> \in Threads \X (0..MaxDepth)
    BY ThreadsAssumption
  <2>2. <<t, 0>> \notin A
    BY DEF W!Shares, W!ShareAt
  <2>3. A \cup {<<t, 0>>} \in SUBSET (Threads \X (0..MaxDepth))
    BY <1>2, <2>1
  <2>. HIDE DEF A
  <2>4. IsFiniteSet(A) /\ Cardinality(A) \in Nat /\ Cardinality(A \cup {<<t, 0>>}) < RwUnit
    BY <1>2, <2>3, CountsFit
  <2>5. Cardinality(A \cup {<<t, 0>>}) = Cardinality(A) + 1
    BY <2>2, <2>4, FS_AddElement
  <2>. QED  BY <2>4, <2>5
<1>4. IsFiniteSet(G) /\ Cardinality(G) \in Nat /\ Cardinality(G) <= Cardinality(Threads)
  BY <1>2, CountsFit
<1>5. W!OwnerBits \in Nat
  BY OwnerField DEF RwInv, W!WordAndDepth
<1>. HIDE DEF A, G
<1>6. word + 1 = (Cardinality(A) + 1) + RwUnit * Cardinality(G) + OwnerUnit * W!OwnerBits
  <2>1. RwUnit * Cardinality(G) \in Nat /\ OwnerUnit * W!OwnerBits \in Nat
    BY <1>4, <1>5, WordUnits
  <2>. QED  BY <1>1, <1>3, <2>1
<1>7. Cardinality(A) + 1 \in Nat
  BY <1>3
<1>8. W!WriterBits(word + 1) = Cardinality(G)
  BY <1>3, <1>4, <1>5, <1>6, <1>7, WordFields
<1>9. G = {}
  BY <1>4, <1>8, FS_EmptySet
<1>10. \A u \in Threads : ~W!Writes(u)
  BY <1>9 DEF G
<1>. QED  BY <1>10, InTerms DEF WritesOf, Through, ThroughOf

\* One more writer that sees only itself in the word is alone.
LEMMA SeesOnlyItself ==
  ASSUME ~OnLinux, RwInv, NEW t \in Threads, rwpc[t] = "w_try", W!OnlyMe(word + RwUnit)
  PROVE  \A u \in Threads : held[u] = << >> /\ ~Through(u)
<1>. DEFINE G == {u \in Threads : W!Writes(u)}
            A == W!Shares
<1>1. word = Cardinality(A) + RwUnit * Cardinality(G) + OwnerUnit * W!OwnerBits
  BY WSameCardinality DEF RwInv, W!WordAndDepth
<1>2. A \in SUBSET (Threads \X (0..MaxDepth)) /\ G \in SUBSET Threads
  BY DEF W!Shares
<1>3. IsFiniteSet(G) /\ Cardinality(G) \in Nat /\ Cardinality(G) + 1 <= Cardinality(Threads)
  <2>1. held[t] = << >>
    BY OfThread DEF CallOf
  <2>2. t \notin G
    BY <2>1 DEF W!Writes, W!Has
  <2>3. G \cup {t} \in SUBSET Threads
    OBVIOUS
  <2>. HIDE DEF G
  <2>4. IsFiniteSet(G) /\ Cardinality(G) \in Nat /\ Cardinality(G \cup {t}) <= Cardinality(Threads)
    BY <1>2, <2>3, CountsFit
  <2>5. Cardinality(G \cup {t}) = Cardinality(G) + 1
    BY <2>2, <2>4, FS_AddElement
  <2>. QED  BY <2>4, <2>5
<1>4. IsFiniteSet(A) /\ Cardinality(A) \in Nat /\ Cardinality(A) < RwUnit
  BY <1>2, CountsFit
<1>5. W!OwnerBits \in Nat
  BY OwnerField DEF RwInv, W!WordAndDepth
<1>. HIDE DEF A, G
<1>6. word + RwUnit = Cardinality(A) + RwUnit * (Cardinality(G) + 1) + OwnerUnit * W!OwnerBits
  <2>1. RwUnit * Cardinality(G) \in Nat /\ OwnerUnit * W!OwnerBits \in Nat
    BY <1>3, <1>5, WordUnits
  <2>2. RwUnit * (Cardinality(G) + 1) = RwUnit * Cardinality(G) + RwUnit
    BY <1>3, WordUnits
  <2>. QED  BY <1>1, <1>4, <2>1, <2>2, WordUnits
<1>7. Cardinality(G) + 1 \in Nat /\ Cardinality(G) + 1 # 0
  BY <1>3
<1>8. Cardinality(A) = 0 /\ Cardinality(G) + 1 = 1
  BY <1>3, <1>4, <1>5, <1>6, <1>7, WordFields
<1>9. A = {} /\ G = {}
  BY <1>3, <1>4, <1>8, FS_EmptySet
<1>10. \A u \in Threads : ~W!Writes(u)
  BY <1>9 DEF G
<1>11. \A u \in Threads : ~Through(u) /\ ~XIn(held[u])
  BY <1>10, InTerms DEF WritesOf, Through, ThroughOf
<1>12. ASSUME NEW u \in Threads PROVE held[u] = << >>
  <2>1. 1 \in 0..MaxDepth => ~W!ShareAt(u, 1)
    <3>1. \A i \in 0..MaxDepth : <<u, i>> \in W!Shares <=> W!ShareAt(u, i)
      BY DEF W!Shares
    <3>. QED  BY <1>9, <3>1 DEF A
  <2>2. held[u] \in Seq(Kinds) /\ Len(held[u]) \in Nat /\ Len(held[u]) <= MaxDepth
    BY OfThread
  <2>3. \A s \in Seq(Kinds) : s # << >> => Len(s) # 0
    OBVIOUS
  <2>. SUFFICES ASSUME Len(held[u]) # 0 PROVE FALSE
    BY <2>2, <2>3
  <2>4. 1 \in 0..MaxDepth /\ 1 <= Len(held[u])
    BY <2>2, ThreadsAssumption
  <2>5. 1 \in LevelsOf(rwpc[u], held[u])
    BY <1>11, <2>2, <2>4 DEF LevelsOf
  <2>6. W!ShareAt(u, 1)
    BY <2>4, <2>5, InTerms
  <2>. QED  BY <2>1, <2>4, <2>6
<1>. QED  BY <1>11, <1>12

-----------------------------------------------------------------------------
(* recursive_rw_spinlock: the steps *)

\* ThreadStep for a step that leaves the levels alone.
LEMMA SameLevels ==
  ASSUME ~OnLinux, RwInv, NEW t \in Threads, NEW p \in W!Steps,
         rwpc' = [rwpc EXCEPT ![t] = p], UNCHANGED <<held, wdepth>>,
         CallOf(p, held[t]),
         ThroughOf(p, held[t]) => Through(t) \/ \A u \in Threads \ {t} : held[u] = << >> /\ ~Through(u),
         word' = word + (SharesOf(p, held[t]) - SharesOf(rwpc[t], held[t]))
                      + RwUnit * (WritesOf(p, held[t]) - WritesOf(rwpc[t], held[t]))
                      + OwnerUnit * (t * (OwnsOf(p, held[t]) - OwnsOf(rwpc[t], held[t])))
  PROVE  RwInv'
<1>1. held' = [held EXCEPT ![t] = held[t]] /\ held[t] \in Seq(Kinds) /\ Len(held[t]) <= MaxDepth
  BY OfThread
<1>2. wdepth' = (IF XIn(held[t]) THEN XsIn(held[t]) ELSE IF XIn(held[t]) THEN 0 ELSE wdepth)
  BY OfThread
<1>. QED  BY <1>1, <1>2, ThreadStep

\* What a change of the counts is worth in the word.
LEMMA Worth ==
  ASSUME NEW t \in Threads
  PROVE  /\ RwUnit * 0 = 0 /\ RwUnit * 1 = RwUnit /\ RwUnit * (-1) = -RwUnit
         /\ OwnerUnit * (t * 0) = 0 /\ OwnerUnit * (t * 1) = t * OwnerUnit
         /\ OwnerUnit * (t * (-1)) = -(t * OwnerUnit)
         /\ RwUnit \in Nat /\ t * OwnerUnit \in Nat
<1>1. t \in Nat /\ RwUnit \in Nat /\ OwnerUnit \in Nat
  BY ThreadsAssumption, WordAssumption
<1>2. \A o, x \in Nat : o * (x * 0) = 0 /\ o * (x * 1) = x * o /\ o * (x * (-1)) = -(x * o) /\ x * o \in Nat
  OBVIOUS
<1>. QED  BY <1>1, <1>2

\* A step by which the levels stay, and with them whether the thread has an
\* exclusive one: only the step itself counts.
LEMMA StepCounts ==
  ASSUME NEW p \in W!Steps, NEW q \in W!Steps, NEW h \in Seq(Kinds)
  PROVE  /\ SharesOf(q, h) - SharesOf(p, h) = (IF q \in {"r_undo", "r_release"} THEN 1 ELSE 0)
                                            - (IF p \in {"r_undo", "r_release"} THEN 1 ELSE 0)
         /\ p \in {"idle", "r_try", "r_undo", "r_wait", "r_release", "w_try", "w_wait", "w_nest"} /\
            q \in {"idle", "r_try", "r_undo", "r_wait", "r_release", "w_try", "w_wait", "w_nest"}
            => WritesOf(q, h) - WritesOf(p, h) = 0 /\ OwnsOf(q, h) - OwnsOf(p, h) = 0
<1>1. Len(h) \in Nat
  OBVIOUS
<1>2. SharesOf(q, h) - SharesOf(p, h) = (IF q \in {"r_undo", "r_release"} THEN 1 ELSE 0)
                                      - (IF p \in {"r_undo", "r_release"} THEN 1 ELSE 0)
  BY <1>1 DEF SharesOf
<1>. QED  BY <1>2 DEF WritesOf, OwnsOf

LEMMA ReadSteps ==
  ASSUME ~OnLinux, RwInv, NEW t \in Threads,
         \/ W!ReadTry(t) /\ rwpc' = [rwpc EXCEPT ![t] = "r_undo"]
         \/ W!ReadUndo(t) \/ W!ReadWait(t) \/ W!ReadRelease(t)
         \/ W!LockShared(t) /\ ~W!check_for_recursion(t)
  PROVE  RwInv'
<1>. USE DEF W!GoTo, W!Add
<1>0. /\ rwpc[t] \in W!Steps /\ held[t] \in Seq(Kinds) /\ CallOf(rwpc[t], held[t]) /\ word \in Nat
  BY OfThread
<1>. DEFINE Calls == {"idle", "r_try", "r_undo", "r_wait", "r_release"}
            InWord(p) == IF p \in {"r_undo", "r_release"} THEN 1 ELSE 0
<1>1. ASSUME NEW q \in Calls, rwpc' = [rwpc EXCEPT ![t] = q], UNCHANGED <<held, wdepth>>,
             rwpc[t] \in Calls, word' = word + (InWord(q) - InWord(rwpc[t])), CallOf(q, held[t])
      PROVE  RwInv'
  <2>. DEFINE d == InWord(q) - InWord(rwpc[t])
  <2>0. q \in W!Steps /\ d \in Int
    BY <1>1 DEF W!Steps
  <2>1. ThroughOf(q, held[t]) => Through(t)
    BY <1>1 DEF Through, ThroughOf
  <2>2. /\ SharesOf(q, held[t]) - SharesOf(rwpc[t], held[t]) = d
        /\ WritesOf(q, held[t]) - WritesOf(rwpc[t], held[t]) = 0
        /\ OwnsOf(q, held[t]) - OwnsOf(rwpc[t], held[t]) = 0
    BY <1>0, <1>1, <2>0, StepCounts
  <2>. HIDE DEF d
  <2>3. word' = word + d
    BY <1>1 DEF d
  <2>4. word' = word + d + RwUnit * 0 + OwnerUnit * (t * 0)
    BY <1>0, <2>0, <2>3, Worth
  <2>. QED  BY <1>1, <2>0, <2>1, <2>2, <2>4, SameLevels
<1>2. CASE W!ReadTry(t) /\ rwpc' = [rwpc EXCEPT ![t] = "r_undo"]
  <2>1. rwpc[t] = "r_try" /\ word' = word + 1 /\ UNCHANGED wdepth
    BY <1>2 DEF W!ReadTry
  <2>2. held' = held
    <3>1. rwpc' # [rwpc EXCEPT ![t] = "idle"]
      BY <1>2, OfThread
    <3>. QED  BY <1>2, <3>1 DEF W!ReadTry, W!Take
  <2>3. CallOf("r_undo", held[t])
    BY <1>0, <2>1 DEF CallOf
  <2>4. "r_undo" \in Calls /\ rwpc[t] \in Calls /\ word' = word + (InWord("r_undo") - InWord(rwpc[t]))
    BY <1>0, <2>1
  <2>. QED  BY <2>4, <1>1, <1>2, <2>1, <2>2, <2>3
<1>3. CASE W!ReadUndo(t)
  <2>1. /\ rwpc[t] = "r_undo" /\ word' = word + (-1) /\ UNCHANGED <<held, wdepth>>
        /\ rwpc' = [rwpc EXCEPT ![t] = "r_wait"]
    BY <1>3 DEF W!ReadUndo
  <2>2. CallOf("r_wait", held[t])
    BY <1>0, <2>1 DEF CallOf
  <2>4. "r_wait" \in Calls /\ rwpc[t] \in Calls /\ word' = word + (InWord("r_wait") - InWord(rwpc[t]))
    BY <1>0, <2>1
  <2>. QED  BY <2>4, <1>1, <2>1, <2>2
<1>4. CASE W!ReadWait(t)
  <2>1. /\ rwpc[t] = "r_wait" /\ word' = word + 0 /\ UNCHANGED <<held, wdepth>>
        /\ rwpc' = [rwpc EXCEPT ![t] = "r_try"]
    BY <1>0, <1>4 DEF W!ReadWait
  <2>2. CallOf("r_try", held[t])
    BY <1>0, <2>1 DEF CallOf
  <2>4. "r_try" \in Calls /\ rwpc[t] \in Calls /\ word' = word + (InWord("r_try") - InWord(rwpc[t]))
    BY <1>0, <2>1
  <2>. QED  BY <2>4, <1>1, <2>1, <2>2
<1>5. CASE W!ReadRelease(t)
  <2>1. /\ rwpc[t] = "r_release" /\ word' = word + (-1) /\ UNCHANGED <<held, wdepth>>
        /\ rwpc' = [rwpc EXCEPT ![t] = "idle"]
    BY <1>5 DEF W!ReadRelease
  <2>2. CallOf("idle", held[t])
    BY <1>0, <2>1 DEF CallOf
  <2>4. "idle" \in Calls /\ rwpc[t] \in Calls /\ word' = word + (InWord("idle") - InWord(rwpc[t]))
    BY <1>0, <2>1
  <2>. QED  BY <2>4, <1>1, <2>1, <2>2
<1>6. CASE W!LockShared(t) /\ ~W!check_for_recursion(t)
  <2>1. /\ rwpc[t] = "idle" /\ word' = word + 0 /\ UNCHANGED <<held, wdepth>> /\ Len(held[t]) < MaxDepth
        /\ rwpc' = [rwpc EXCEPT ![t] = "r_try"]
    BY <1>0, <1>6 DEF W!LockShared, W!CanTake
  <2>2. ~XIn(held[t])
    BY <1>6, RecursionCheck DEF OwnsOf
  <2>3. CallOf("r_try", held[t])
    BY <1>0, <2>1, <2>2 DEF CallOf
  <2>4. "r_try" \in Calls /\ rwpc[t] \in Calls /\ word' = word + (InWord("r_try") - InWord(rwpc[t]))
    BY <1>0, <2>1
  <2>. QED  BY <2>4, <1>1, <2>1, <2>3
<1>. QED  BY <1>2, <1>3, <1>4, <1>5, <1>6

\* lock_shared lets the thread in: as the owner without touching the word, or
\* with one more reader in a word without writers.
LEMMA SharedTaken ==
  ASSUME ~OnLinux, RwInv, NEW t \in Threads,
         \/ W!LockShared(t) /\ W!check_for_recursion(t)
         \/ W!ReadTry(t) /\ W!WriterBits(word') = 0
  PROVE  RwInv'
<1>. USE DEF W!GoTo, W!Add, W!Take
<1>. DEFINE h == Append(held[t], "S")
<1>0. /\ rwpc[t] \in W!Steps /\ held[t] \in Seq(Kinds) /\ CallOf(rwpc[t], held[t]) /\ word \in Nat
      /\ Len(held[t]) \in Nat /\ (XIn(held[t]) => wdepth = XsIn(held[t])) /\ wdepth \in Nat
      /\ held \in [Threads -> Seq(Kinds)]
  BY OfThread
<1>1. /\ h \in Seq(Kinds) /\ Len(h) = Len(held[t]) + 1 /\ h # << >>
      /\ h[1] = (IF held[t] = << >> THEN "S" ELSE held[t][1])
      /\ XIn(h) <=> XIn(held[t])
      /\ XsIn(h) = XsIn(held[t])
  <2>1. "S" \in Kinds /\ XsIn(held[t]) \in 0..Len(held[t])
    BY <1>0, XsCount DEF Kinds
  <2>2. XsIn(h) = XsIn(held[t]) + 0
    BY <1>0, <2>1, OneMore
  <2>3. XsIn(h) = XsIn(held[t])
    BY <1>0, <2>1, <2>2
  <2>. QED  BY <1>0, <2>1, <2>3, OneMore
<1>2. /\ Len(held[t]) < MaxDepth /\ held' = [held EXCEPT ![t] = h] /\ rwpc' = [rwpc EXCEPT ![t] = "idle"]
      /\ wdepth' = wdepth
  BY <1>0 DEF W!LockShared, W!CanTake, W!ReadTry, CallOf
<1>. HIDE DEF h
<1>3. CallOf("idle", h) /\ "idle" \in W!Steps /\ Len(h) <= MaxDepth
  <2>1. XIn(h) => h # << >> /\ h[1] = "X"
    BY <1>0, <1>1 DEF CallOf
  <2>2. Len(h) <= MaxDepth
    BY <1>0, <1>1, <1>2, ThreadsAssumption
  <2>. QED  BY <2>1, <2>2 DEF CallOf, W!Steps
<1>4. wdepth' = (IF XIn(h) THEN XsIn(h) ELSE IF XIn(held[t]) THEN 0 ELSE wdepth)
  BY <1>0, <1>1, <1>2
<1>5. CASE W!LockShared(t) /\ W!check_for_recursion(t)
  <2>1. rwpc[t] = "idle" /\ word' = word
    BY <1>5 DEF W!LockShared, W!CanTake
  <2>2. XIn(held[t]) /\ XIn(h)
    BY <1>1, <1>5, <2>1, RecursionCheck DEF OwnsOf
  <2>3. Through(t) /\ held[t] # << >>
    BY <1>0, <2>2 DEF Through, ThroughOf, CallOf
  <2>4. /\ SharesOf("idle", h) - SharesOf(rwpc[t], held[t]) = 0
        /\ WritesOf("idle", h) - WritesOf(rwpc[t], held[t]) = 0
        /\ OwnsOf("idle", h) - OwnsOf(rwpc[t], held[t]) = 0
    BY <2>1, <2>2 DEF SharesOf, WritesOf, OwnsOf
  <2>5. word' = word + 0 + RwUnit * 0 + OwnerUnit * (t * 0)
    BY <1>0, <2>1, Worth
  <2>. QED  BY <1>1, <1>2, <1>3, <1>4, <2>3, <2>4, <2>5, ThreadStep
<1>6. CASE W!ReadTry(t) /\ W!WriterBits(word') = 0
  <2>1. rwpc[t] = "r_try" /\ word' = word + 1
    BY <1>6 DEF W!ReadTry
  <2>2. \A u \in Threads : ~Through(u)
    BY <1>6, <2>1, SeesNoWriter
  <2>3. ~XIn(held[t]) /\ ~XIn(h)
    BY <1>0, <1>1, <2>1 DEF CallOf
  <2>4. /\ SharesOf("idle", h) - SharesOf(rwpc[t], held[t]) = 1
        /\ WritesOf("idle", h) - WritesOf(rwpc[t], held[t]) = 0
        /\ OwnsOf("idle", h) - OwnsOf(rwpc[t], held[t]) = 0
    BY <1>0, <1>1, <2>1, <2>3 DEF SharesOf, WritesOf, OwnsOf
  <2>5. word' = word + 1 + RwUnit * 0 + OwnerUnit * (t * 0)
    BY <1>0, <2>1, Worth
  <2>6. ~ThroughOf("idle", h)
    BY <2>3 DEF ThroughOf
  <2>. QED  BY <1>1, <1>2, <1>3, <1>4, <2>2, <2>4, <2>5, <2>6, ThreadStep
<1>. QED  BY <1>5, <1>6

LEMMA WriteSteps ==
  ASSUME ~OnLinux, RwInv, NEW t \in Threads,
         \/ W!Lock(t) \/ W!WriteTry(t) \/ W!WriteOwn(t) \/ W!WriteUndo(t) \/ W!WriteWait(t)
         \/ W!WriteDisown(t) \/ W!WriteRelease(t)
  PROVE  RwInv'
<1>. USE DEF W!GoTo, W!Add
<1>0. /\ rwpc[t] \in W!Steps /\ held[t] \in Seq(Kinds) /\ CallOf(rwpc[t], held[t]) /\ word \in Nat
      /\ Len(held[t]) \in Nat /\ W!get_thread_id(t) = t
      /\ RwUnit \in Nat /\ t * OwnerUnit \in Nat
      /\ (rwpc[t] \notin {"idle", "w_nest"} /\ (\A i \in {"r_try", "r_undo", "r_wait", "r_release"} : rwpc[t] # i)
          => held[t] = << >> /\ ~XIn(held[t]))
  <2>1. ~XIn(<< >>)
    BY DEF XIn
  <2>. QED  BY <2>1, OfThread, Worth DEF W!get_thread_id, CallOf, W!Steps
<1>1. CASE W!Lock(t) /\ W!check_for_recursion(t)
  <2>1. /\ rwpc[t] = "idle" /\ word' = word /\ UNCHANGED <<held, wdepth>> /\ Len(held[t]) < MaxDepth
        /\ rwpc' = [rwpc EXCEPT ![t] = "w_nest"]
    BY <1>1 DEF W!Lock, W!CanTake
  <2>2. XIn(held[t])
    BY <1>1, <2>1, RecursionCheck DEF OwnsOf
  <2>3. CallOf("w_nest", held[t]) /\ "w_nest" \in W!Steps
    BY <1>0, <2>1, <2>2 DEF CallOf, W!Steps
  <2>4. /\ SharesOf("w_nest", held[t]) - SharesOf(rwpc[t], held[t]) = 0
        /\ WritesOf("w_nest", held[t]) - WritesOf(rwpc[t], held[t]) = 0
        /\ OwnsOf("w_nest", held[t]) - OwnsOf(rwpc[t], held[t]) = 0
    BY <2>1, <2>2 DEF SharesOf, WritesOf, OwnsOf
  <2>5. word' = word + 0 + RwUnit * 0 + OwnerUnit * (t * 0)
    BY <1>0, <2>1, Worth
  <2>6. Through(t)
    BY <2>2 DEF Through, ThroughOf
  <2>. QED  BY <2>1, <2>3, <2>4, <2>5, <2>6, SameLevels
<1>2. CASE W!Lock(t) /\ ~W!check_for_recursion(t)
  <2>1. /\ rwpc[t] = "idle" /\ word' = word /\ UNCHANGED <<held, wdepth>> /\ Len(held[t]) < MaxDepth
        /\ rwpc' = [rwpc EXCEPT ![t] = "w_try"] /\ (held[t] = << >> \/ W!Has(t, "X"))
    BY <1>2 DEF W!Lock, W!CanTake
  <2>2. ~XIn(held[t]) /\ held[t] = << >>
    BY <1>2, <2>1, RecursionCheck, InTerms DEF OwnsOf
  <2>3. CallOf("w_try", held[t]) /\ "w_try" \in W!Steps
    BY <1>0, <2>1, <2>2 DEF CallOf, W!Steps
  <2>4. /\ SharesOf("w_try", held[t]) - SharesOf(rwpc[t], held[t]) = 0
        /\ WritesOf("w_try", held[t]) - WritesOf(rwpc[t], held[t]) = 0
        /\ OwnsOf("w_try", held[t]) - OwnsOf(rwpc[t], held[t]) = 0
    BY <1>0, <2>1, <2>2 DEF SharesOf, WritesOf, OwnsOf
  <2>5. word' = word + 0 + RwUnit * 0 + OwnerUnit * (t * 0)
    BY <1>0, <2>1, Worth
  <2>6. ~ThroughOf("w_try", held[t])
    BY <2>2 DEF ThroughOf
  <2>. QED  BY <2>1, <2>3, <2>4, <2>5, <2>6, SameLevels
<1>3. CASE W!WriteTry(t) /\ W!OnlyMe(word')
  <2>1. /\ rwpc[t] = "w_try" /\ word' = word + RwUnit /\ UNCHANGED <<held, wdepth>>
        /\ rwpc' = [rwpc EXCEPT ![t] = "w_own"]
    BY <1>0, <1>3 DEF W!WriteTry
  <2>2. CallOf("w_own", held[t]) /\ "w_own" \in W!Steps
    BY <1>0, <1>3, <2>1 DEF CallOf, W!Steps
  <2>3. /\ SharesOf("w_own", held[t]) - SharesOf(rwpc[t], held[t]) = 0
        /\ WritesOf("w_own", held[t]) - WritesOf(rwpc[t], held[t]) = 1
        /\ OwnsOf("w_own", held[t]) - OwnsOf(rwpc[t], held[t]) = 0
    BY <1>0, <2>1 DEF SharesOf, WritesOf, OwnsOf
  <2>4. word' = word + 0 + RwUnit * (1) + OwnerUnit * (t * (0))
    BY <1>0, <2>1, Worth
  <2>5. \A u \in Threads \ {t} : held[u] = << >> /\ ~Through(u)
    BY <1>3, <2>1, SeesOnlyItself DEF Through, ThroughOf
  <2>. QED  BY <2>1, <2>2, <2>3, <2>4, <2>5, SameLevels
<1>4. CASE W!WriteTry(t) /\ ~W!OnlyMe(word')
  <2>1. /\ rwpc[t] = "w_try" /\ word' = word + RwUnit /\ UNCHANGED <<held, wdepth>>
        /\ rwpc' = [rwpc EXCEPT ![t] = "w_undo"]
    BY <1>0, <1>4 DEF W!WriteTry
  <2>2. CallOf("w_undo", held[t]) /\ "w_undo" \in W!Steps
    BY <1>0, <1>4, <2>1 DEF CallOf, W!Steps
  <2>3. /\ SharesOf("w_undo", held[t]) - SharesOf(rwpc[t], held[t]) = 0
        /\ WritesOf("w_undo", held[t]) - WritesOf(rwpc[t], held[t]) = 1
        /\ OwnsOf("w_undo", held[t]) - OwnsOf(rwpc[t], held[t]) = 0
    BY <1>0, <2>1 DEF SharesOf, WritesOf, OwnsOf
  <2>4. word' = word + 0 + RwUnit * (1) + OwnerUnit * (t * (0))
    BY <1>0, <2>1, Worth
  <2>5. ThroughOf("w_undo", held[t]) => Through(t)
    BY <1>4, <2>1 DEF Through, ThroughOf
  <2>. QED  BY <2>1, <2>2, <2>3, <2>4, <2>5, SameLevels
<1>5. CASE W!WriteOwn(t)
  <2>1. /\ rwpc[t] = "w_own" /\ word' = word + t * OwnerUnit /\ UNCHANGED <<held, wdepth>>
        /\ rwpc' = [rwpc EXCEPT ![t] = "w_depth"]
    BY <1>0, <1>5 DEF W!WriteOwn
  <2>2. CallOf("w_depth", held[t]) /\ "w_depth" \in W!Steps
    BY <1>0, <1>5, <2>1 DEF CallOf, W!Steps
  <2>3. /\ SharesOf("w_depth", held[t]) - SharesOf(rwpc[t], held[t]) = 0
        /\ WritesOf("w_depth", held[t]) - WritesOf(rwpc[t], held[t]) = 0
        /\ OwnsOf("w_depth", held[t]) - OwnsOf(rwpc[t], held[t]) = 1
    BY <1>0, <2>1 DEF SharesOf, WritesOf, OwnsOf
  <2>4. word' = word + 0 + RwUnit * (0) + OwnerUnit * (t * (1))
    BY <1>0, <2>1, Worth
  <2>5. ThroughOf("w_depth", held[t]) => Through(t)
    BY <1>5, <2>1 DEF Through, ThroughOf
  <2>. QED  BY <2>1, <2>2, <2>3, <2>4, <2>5, SameLevels
<1>6. CASE W!WriteUndo(t)
  <2>1. /\ rwpc[t] = "w_undo" /\ word' = word + (-RwUnit) /\ UNCHANGED <<held, wdepth>>
        /\ rwpc' = [rwpc EXCEPT ![t] = "w_wait"]
    BY <1>0, <1>6 DEF W!WriteUndo
  <2>2. CallOf("w_wait", held[t]) /\ "w_wait" \in W!Steps
    BY <1>0, <1>6, <2>1 DEF CallOf, W!Steps
  <2>3. /\ SharesOf("w_wait", held[t]) - SharesOf(rwpc[t], held[t]) = 0
        /\ WritesOf("w_wait", held[t]) - WritesOf(rwpc[t], held[t]) = -1
        /\ OwnsOf("w_wait", held[t]) - OwnsOf(rwpc[t], held[t]) = 0
    BY <1>0, <2>1 DEF SharesOf, WritesOf, OwnsOf
  <2>4. word' = word + 0 + RwUnit * (-1) + OwnerUnit * (t * (0))
    BY <1>0, <2>1, Worth
  <2>5. ThroughOf("w_wait", held[t]) => Through(t)
    BY <1>6, <2>1 DEF Through, ThroughOf
  <2>. QED  BY <2>1, <2>2, <2>3, <2>4, <2>5, SameLevels
<1>7. CASE W!WriteWait(t)
  <2>1. /\ rwpc[t] = "w_wait" /\ word' = word /\ UNCHANGED <<held, wdepth>>
        /\ rwpc' = [rwpc EXCEPT ![t] = "w_try"]
    BY <1>0, <1>7 DEF W!WriteWait
  <2>2. CallOf("w_try", held[t]) /\ "w_try" \in W!Steps
    BY <1>0, <1>7, <2>1 DEF CallOf, W!Steps
  <2>3. /\ SharesOf("w_try", held[t]) - SharesOf(rwpc[t], held[t]) = 0
        /\ WritesOf("w_try", held[t]) - WritesOf(rwpc[t], held[t]) = 0
        /\ OwnsOf("w_try", held[t]) - OwnsOf(rwpc[t], held[t]) = 0
    BY <1>0, <2>1 DEF SharesOf, WritesOf, OwnsOf
  <2>4. word' = word + 0 + RwUnit * (0) + OwnerUnit * (t * (0))
    BY <1>0, <2>1, Worth
  <2>5. ThroughOf("w_try", held[t]) => Through(t)
    BY <1>7, <2>1 DEF Through, ThroughOf
  <2>. QED  BY <2>1, <2>2, <2>3, <2>4, <2>5, SameLevels
<1>8. CASE W!WriteDisown(t)
  <2>1. /\ rwpc[t] = "w_disown" /\ word' = word + (-(t * OwnerUnit)) /\ UNCHANGED <<held, wdepth>>
        /\ rwpc' = [rwpc EXCEPT ![t] = "w_release"]
    BY <1>0, <1>8 DEF W!WriteDisown
  <2>2. CallOf("w_release", held[t]) /\ "w_release" \in W!Steps
    BY <1>0, <1>8, <2>1 DEF CallOf, W!Steps
  <2>3. /\ SharesOf("w_release", held[t]) - SharesOf(rwpc[t], held[t]) = 0
        /\ WritesOf("w_release", held[t]) - WritesOf(rwpc[t], held[t]) = 0
        /\ OwnsOf("w_release", held[t]) - OwnsOf(rwpc[t], held[t]) = -1
    BY <1>0, <2>1 DEF SharesOf, WritesOf, OwnsOf
  <2>4. word' = word + 0 + RwUnit * (0) + OwnerUnit * (t * (-1))
    BY <1>0, <2>1, Worth
  <2>5. ThroughOf("w_release", held[t]) => Through(t)
    BY <1>8, <2>1 DEF Through, ThroughOf
  <2>. QED  BY <2>1, <2>2, <2>3, <2>4, <2>5, SameLevels
<1>9. CASE W!WriteRelease(t)
  <2>1. /\ rwpc[t] = "w_release" /\ word' = word + (-RwUnit) /\ UNCHANGED <<held, wdepth>>
        /\ rwpc' = [rwpc EXCEPT ![t] = "idle"]
    BY <1>0, <1>9 DEF W!WriteRelease
  <2>2. CallOf("idle", held[t]) /\ "idle" \in W!Steps
    BY <1>0, <1>9, <2>1 DEF CallOf, W!Steps
  <2>3. /\ SharesOf("idle", held[t]) - SharesOf(rwpc[t], held[t]) = 0
        /\ WritesOf("idle", held[t]) - WritesOf(rwpc[t], held[t]) = -1
        /\ OwnsOf("idle", held[t]) - OwnsOf(rwpc[t], held[t]) = 0
    BY <1>0, <2>1 DEF SharesOf, WritesOf, OwnsOf
  <2>4. word' = word + 0 + RwUnit * (-1) + OwnerUnit * (t * (0))
    BY <1>0, <2>1, Worth
  <2>5. ThroughOf("idle", held[t]) => Through(t)
    BY <1>9, <2>1 DEF Through, ThroughOf
  <2>. QED  BY <2>1, <2>2, <2>3, <2>4, <2>5, SameLevels
<1>. QED  BY <1>1, <1>2, <1>3, <1>4, <1>5, <1>6, <1>7, <1>8, <1>9

\* lock lets the thread in: one level deeper, or as the new owner.
LEMMA ExclusiveTaken ==
  ASSUME ~OnLinux, RwInv, NEW t \in Threads, W!WriteNest(t) \/ W!WriteDepth(t)
  PROVE  RwInv'
<1>. USE DEF W!GoTo, W!Take
<1>. DEFINE h == Append(held[t], "X")
<1>0. /\ rwpc[t] \in W!Steps /\ held[t] \in Seq(Kinds) /\ CallOf(rwpc[t], held[t]) /\ word \in Nat
      /\ Len(held[t]) \in Nat /\ (XIn(held[t]) => wdepth = XsIn(held[t])) /\ wdepth \in Nat
      /\ held \in [Threads -> Seq(Kinds)]
  BY OfThread
<1>1. /\ h \in Seq(Kinds) /\ Len(h) = Len(held[t]) + 1 /\ h # << >>
      /\ h[1] = (IF held[t] = << >> THEN "X" ELSE held[t][1])
      /\ XIn(h) /\ XsIn(h) = XsIn(held[t]) + 1 /\ XsIn(held[t]) \in 0..Len(held[t])
      /\ XsIn(held[t]) = 0 <=> ~XIn(held[t])
  <2>1. "X" \in Kinds
    BY DEF Kinds
  <2>. QED  BY <1>0, <2>1, OneMore, XsCount
<1>2. /\ Len(held[t]) < MaxDepth /\ held' = [held EXCEPT ![t] = h] /\ rwpc' = [rwpc EXCEPT ![t] = "idle"]
      /\ word' = word /\ rwpc[t] \in {"w_nest", "w_depth"}
  BY <1>0 DEF W!WriteNest, W!WriteDepth, CallOf
<1>. HIDE DEF h
<1>3. CallOf("idle", h) /\ "idle" \in W!Steps /\ Len(h) <= MaxDepth
  <2>1. h[1] = "X"
    <3>1. CASE W!WriteNest(t)
      BY <1>0, <1>1, <3>1 DEF W!WriteNest, CallOf
    <3>2. CASE W!WriteDepth(t)
      BY <1>0, <1>1, <3>2 DEF W!WriteDepth, CallOf
    <3>. QED  BY <3>1, <3>2
  <2>2. Len(h) <= MaxDepth
    BY <1>0, <1>1, <1>2, ThreadsAssumption
  <2>. QED  BY <1>1, <2>1, <2>2 DEF CallOf, W!Steps
<1>4. wdepth' = XsIn(h)
  <2>1. CASE W!WriteNest(t)
    <3>1. wdepth' = wdepth + 1 /\ XIn(held[t])
      BY <1>0, <2>1 DEF W!WriteNest, CallOf
    <3>. QED  BY <1>0, <1>1, <3>1
  <2>2. CASE W!WriteDepth(t)
    <3>1. wdepth' = 1 /\ held[t] = << >>
      BY <1>0, <2>2 DEF W!WriteDepth, CallOf
    <3>2. ~XIn(held[t])
      BY <3>1 DEF XIn
    <3>. QED  BY <1>1, <3>1, <3>2
  <2>. QED  BY <2>1, <2>2
<1>5. wdepth' = (IF XIn(h) THEN XsIn(h) ELSE IF XIn(held[t]) THEN 0 ELSE wdepth)
  BY <1>1, <1>4
<1>6. Through(t) /\ \A u \in Threads \ {t} : ~Through(u)
  <2>1. Through(t)
    BY <1>0, <1>2 DEF Through, ThroughOf, CallOf
  <2>. QED  BY <2>1 DEF RwInv, AloneInv
<1>7. /\ SharesOf("idle", h) - SharesOf(rwpc[t], held[t]) = 0
      /\ WritesOf("idle", h) - WritesOf(rwpc[t], held[t]) = 0
      /\ OwnsOf("idle", h) - OwnsOf(rwpc[t], held[t]) = 0
  <2>1. XIn(held[t]) \/ (rwpc[t] = "w_depth" /\ Len(held[t]) = 0)
    BY <1>0, <1>2 DEF CallOf
  <2>2. XIn(held[t]) => SharesOf(rwpc[t], held[t]) = 0 /\ WritesOf(rwpc[t], held[t]) = 1 /\ OwnsOf(rwpc[t], held[t]) = 1
    BY <1>2 DEF SharesOf, WritesOf, OwnsOf
  <2>3. rwpc[t] = "w_depth" /\ Len(held[t]) = 0
        => SharesOf(rwpc[t], held[t]) = 0 /\ WritesOf(rwpc[t], held[t]) = 1 /\ OwnsOf(rwpc[t], held[t]) = 1
    BY DEF SharesOf, WritesOf, OwnsOf
  <2>4. SharesOf("idle", h) = 0 /\ WritesOf("idle", h) = 1 /\ OwnsOf("idle", h) = 1
    BY <1>1 DEF SharesOf, WritesOf, OwnsOf
  <2>. QED  BY <2>1, <2>2, <2>3, <2>4
<1>8. word' = word + 0 + RwUnit * 0 + OwnerUnit * (t * 0)
  BY <1>0, <1>2, Worth
<1>. QED  BY <1>1, <1>2, <1>3, <1>5, <1>6, <1>7, <1>8, ThreadStep

\* unlock and unlock_shared give one level back.
LEMMA LevelGiven ==
  ASSUME ~OnLinux, RwInv, NEW t \in Threads, W!Unlock(t) \/ W!UnlockShared(t)
  PROVE  RwInv'
<1>. USE DEF W!GoTo, W!Drop
<1>. DEFINE h0 == held[t]
            h == SubSeq(h0, 1, Len(h0) - 1)
<1>0. /\ rwpc[t] \in W!Steps /\ h0 \in Seq(Kinds) /\ CallOf(rwpc[t], h0) /\ word \in Nat
      /\ Len(h0) \in Nat /\ Len(h0) <= MaxDepth /\ (XIn(h0) => wdepth = XsIn(h0)) /\ wdepth \in Nat
      /\ held \in [Threads -> Seq(Kinds)]
  BY OfThread
<1>1. /\ rwpc[t] = "idle" /\ h0 # << >> /\ held' = [held EXCEPT ![t] = h] /\ word' = word
  BY DEF W!Unlock, W!UnlockShared, W!Innermost
<1>2. XIn(h0) => h0[1] = "X"
  BY <1>0 DEF CallOf
<1>3. /\ h \in Seq(Kinds) /\ Len(h) = Len(h0) - 1 /\ Len(h0) > 0 /\ (h = << >> <=> Len(h0) = 1)
      /\ h # << >> => h[1] = h0[1]
      /\ XIn(h) <=> XIn(h0) /\ Len(h0) > 1
      /\ XsIn(h) = XsIn(h0) - (IF h0[Len(h0)] = "X" THEN 1 ELSE 0)
  BY <1>0, <1>1, <1>2, OneLess
<1>4. XsIn(h0) \in 0..Len(h0) /\ (XsIn(h0) = 0 <=> ~XIn(h0))
  BY <1>0, XsCount
<1>. HIDE DEF h, h0
<1>5. Len(h) <= MaxDepth /\ Len(h) < MaxDepth
  BY <1>0, <1>3, ThreadsAssumption
<1>6. XIn(h) => h # << >> /\ h[1] = "X"
  BY <1>0, <1>2, <1>3
<1>7. XIn(h0) => Through(t)
  BY DEF Through, ThroughOf, h0
<1>8. held[t] # << >>
  BY <1>1 DEF h0
<1>9. word' = word + 0 + RwUnit * 0 + OwnerUnit * (t * 0)
  BY <1>0, <1>1, Worth
<1>10. CASE W!Unlock(t) /\ Len(h0) = 1
  <2>1. h0[Len(h0)] = "X" /\ wdepth' = wdepth - 1 /\ XIn(h0)
    BY <1>0, <1>3, <1>10 DEF W!Unlock, W!Innermost, XIn, h0
  <2>2. XsIn(h0) = 1
    BY <1>0, <1>1, <1>2, <1>10, <2>1, LastExclusive
  <2>3. wdepth' = 0 /\ rwpc' = [rwpc EXCEPT ![t] = "w_disown"]
    <3>1. wdepth' = 0
      BY <1>0, <2>1, <2>2
    <3>. QED  BY <1>10, <3>1 DEF W!Unlock
  <2>4. ~XIn(h) /\ h = << >>
    BY <1>3, <1>10
  <2>5. CallOf("w_disown", h) /\ "w_disown" \in W!Steps
    BY <1>5, <2>4 DEF CallOf, W!Steps
  <2>6. /\ SharesOf("w_disown", h) - SharesOf(rwpc[t], held[t]) = 0
        /\ WritesOf("w_disown", h) - WritesOf(rwpc[t], held[t]) = 0
        /\ OwnsOf("w_disown", h) - OwnsOf(rwpc[t], held[t]) = 0
    BY <1>1, <1>3, <1>10, <2>1, <2>4 DEF SharesOf, WritesOf, OwnsOf, h0
  <2>7. wdepth' = (IF XIn(h) THEN XsIn(h) ELSE IF XIn(held[t]) THEN 0 ELSE wdepth)
    BY <2>1, <2>3, <2>4 DEF h0
  <2>. QED  BY <1>1, <1>3, <1>5, <1>7, <1>8, <1>9, <2>1, <2>3, <2>5, <2>6, <2>7, ThreadStep
<1>11. CASE W!Unlock(t) /\ Len(h0) # 1
  <2>1. h0[Len(h0)] = "X" /\ wdepth' = wdepth - 1 /\ XIn(h0)
    BY <1>0, <1>3, <1>11 DEF W!Unlock, W!Innermost, XIn, h0
  <2>2. XsIn(h0) # 1
    BY <1>0, <1>1, <1>2, <1>11, <2>1, LastExclusive
  <2>3. wdepth' = XsIn(h) /\ rwpc' = [rwpc EXCEPT ![t] = "idle"]
    <3>1. wdepth' = XsIn(h) /\ wdepth' # 0
      BY <1>0, <1>3, <1>4, <2>1, <2>2
    <3>. QED  BY <1>11, <3>1 DEF W!Unlock
  <2>4. XIn(h)
    BY <1>0, <1>3, <1>11, <2>1
  <2>5. CallOf("idle", h) /\ "idle" \in W!Steps
    BY <1>6 DEF CallOf, W!Steps
  <2>6. /\ SharesOf("idle", h) - SharesOf(rwpc[t], held[t]) = 0
        /\ WritesOf("idle", h) - WritesOf(rwpc[t], held[t]) = 0
        /\ OwnsOf("idle", h) - OwnsOf(rwpc[t], held[t]) = 0
    BY <1>1, <2>1, <2>4 DEF SharesOf, WritesOf, OwnsOf, h0
  <2>7. wdepth' = (IF XIn(h) THEN XsIn(h) ELSE IF XIn(held[t]) THEN 0 ELSE wdepth)
    BY <2>3, <2>4
  <2>. QED  BY <1>1, <1>3, <1>5, <1>7, <1>8, <1>9, <2>1, <2>3, <2>5, <2>6, <2>7, ThreadStep
<1>12. CASE W!UnlockShared(t) /\ XIn(h0)
  <2>1. h0[Len(h0)] = "S" /\ wdepth' = wdepth
    BY <1>12 DEF W!UnlockShared, W!Innermost, h0
  <2>2. wdepth # 0 /\ Len(h0) # 1
    BY <1>0, <1>2, <1>4, <1>12, <2>1
  <2>3. rwpc' = [rwpc EXCEPT ![t] = "idle"]
    BY <1>12, <2>2 DEF W!UnlockShared
  <2>4. XIn(h) /\ XsIn(h) = XsIn(h0)
    BY <1>0, <1>3, <1>4, <1>12, <2>1, <2>2
  <2>5. CallOf("idle", h) /\ "idle" \in W!Steps
    BY <1>6 DEF CallOf, W!Steps
  <2>6. /\ SharesOf("idle", h) - SharesOf(rwpc[t], held[t]) = 0
        /\ WritesOf("idle", h) - WritesOf(rwpc[t], held[t]) = 0
        /\ OwnsOf("idle", h) - OwnsOf(rwpc[t], held[t]) = 0
    BY <1>1, <1>12, <2>4 DEF SharesOf, WritesOf, OwnsOf, h0
  <2>7. wdepth' = (IF XIn(h) THEN XsIn(h) ELSE IF XIn(held[t]) THEN 0 ELSE wdepth)
    BY <1>0, <1>12, <2>1, <2>4
  <2>. QED  BY <1>1, <1>3, <1>5, <1>7, <1>8, <1>9, <1>12, <2>3, <2>5, <2>6, <2>7, ThreadStep
<1>13. CASE W!UnlockShared(t) /\ ~XIn(h0)
  <2>1. wdepth' = wdepth
    BY <1>13 DEF W!UnlockShared
  <2>2. wdepth = 0
    <3>1. \A u \in Threads : ~XIn(held[u])
      BY <1>8, <1>13 DEF RwInv, AloneInv, Through, ThroughOf, h0
    <3>. QED  BY <3>1, InTerms DEF RwInv, W!WordAndDepth
  <2>3. rwpc' = [rwpc EXCEPT ![t] = "r_release"]
    BY <1>13, <2>2 DEF W!UnlockShared
  <2>4. ~XIn(h)
    BY <1>3, <1>13
  <2>5. CallOf("r_release", h) /\ "r_release" \in W!Steps
    BY <1>5, <2>4 DEF CallOf, W!Steps
  <2>6. /\ SharesOf("r_release", h) - SharesOf(rwpc[t], held[t]) = 0
        /\ WritesOf("r_release", h) - WritesOf(rwpc[t], held[t]) = 0
        /\ OwnsOf("r_release", h) - OwnsOf(rwpc[t], held[t]) = 0
    BY <1>0, <1>1, <1>3, <1>13, <2>4 DEF SharesOf, WritesOf, OwnsOf, h0
  <2>7. wdepth' = (IF XIn(h) THEN XsIn(h) ELSE IF XIn(held[t]) THEN 0 ELSE wdepth)
    BY <1>13, <2>1, <2>4 DEF h0
  <2>8. ~ThroughOf("r_release", h)
    BY <2>4 DEF ThroughOf
  <2>. QED  BY <1>1, <1>3, <1>5, <1>8, <1>9, <2>3, <2>5, <2>6, <2>7, <2>8, ThreadStep
<1>. QED  BY <1>10, <1>11, <1>12, <1>13

rwVars == <<word, wdepth, rwpc, held>>

LEMMA RwStep == ~OnLinux /\ RwInv /\ [W!Next]_rwVars => RwInv'
<1>. SUFFICES ASSUME ~OnLinux, RwInv, [W!Next]_rwVars PROVE RwInv'
  OBVIOUS
<1>1. ASSUME NEW t \in Threads, W!ReadTry(t) PROVE RwInv'
  <2>1. W!WriterBits(word') = 0 \/ rwpc' = [rwpc EXCEPT ![t] = "r_undo"]
    BY <1>1 DEF W!ReadTry, W!GoTo
  <2>. QED  BY <1>1, <2>1, ReadSteps, SharedTaken
<1>2. ASSUME NEW t \in Threads, W!LockShared(t) PROVE RwInv'
  BY <1>2, ReadSteps, SharedTaken
<1>3. ASSUME NEW t \in Threads, W!Step(t) \/ W!UnlockShared(t) \/ W!Lock(t) \/ W!Unlock(t) PROVE RwInv'
  BY <1>1, <1>3, ReadSteps, WriteSteps, ExclusiveTaken, LevelGiven DEF W!Step
<1>4. ASSUME UNCHANGED rwVars PROVE RwInv'
  BY <1>4 DEF rwVars, RwInv, W!WordAndDepth, W!TypeOK, W!Owner, W!OwnerBits, W!Shares, W!ShareAt, W!Writes,
              W!Has, W!Exclusives, CallsInv, AloneInv, Through
<1>. QED  BY <1>2, <1>3, <1>4 DEF W!Next

LEMMA RwInit == ~OnLinux /\ W!Init => RwInv
<1>. SUFFICES ASSUME ~OnLinux, W!Init PROVE RwInv
  OBVIOUS
<1>1. word = 0 /\ wdepth = 0 /\ \A t \in Threads : rwpc[t] = "idle" /\ held[t] = << >>
  BY DEF W!Init
<1>2. ~XIn(<< >>) /\ Len(<< >>) = 0
  BY DEF XIn
<1>3. W!TypeOK
  BY ThreadsAssumption DEF W!Init, W!TypeOK, W!Steps
<1>4. W!Shares = {} /\ {t \in Threads : W!Writes(t)} = {}
  <2>1. \A t \in Threads, i \in 0..MaxDepth : ~W!ShareAt(t, i)
    BY <1>1, <1>2 DEF W!ShareAt
  <2>2. \A t \in Threads : ~W!Writes(t)
    BY <1>1, <1>2 DEF W!Writes, W!Has
  <2>. QED  BY <2>1, <2>2 DEF W!Shares
<1>5. \A t \in Threads : ~W!Owner(t) /\ ~W!Has(t, "X")
  BY <1>1, <1>2 DEF W!Owner, W!Has
<1>6. W!OwnerBits = 0
  BY <1>5 DEF W!OwnerBits
<1>7. word = W!Cardinality(W!Shares) + RwUnit * W!Cardinality({t \in Threads : W!Writes(t)}) + OwnerUnit * W!OwnerBits
  <2>1. Cardinality({}) = 0
    BY FS_EmptySet
  <2>2. RwUnit * 0 = 0 /\ OwnerUnit * 0 = 0
    BY WordUnits
  <2>3. W!Cardinality(W!Shares) = 0 /\ W!Cardinality({t \in Threads : W!Writes(t)}) = 0
    BY <1>4, <2>1, WSameCardinality, Zenon
  <2>. QED  BY <1>1, <1>6, <2>2, <2>3
<1>8. W!WordAndDepth
  BY <1>1, <1>3, <1>5, <1>7 DEF W!WordAndDepth
<1>9. CallsInv /\ AloneInv
  BY <1>1, <1>2 DEF CallsInv, CallOf, AloneInv, Through, ThroughOf
<1>. QED  BY <1>8, <1>9 DEF RwInv

LEMMA RwInvariant == ~OnLinux => (W!Spec => []RwInv)
<1>. SUFFICES ASSUME ~OnLinux PROVE W!Spec => []RwInv
  OBVIOUS
<1>1. W!Init => RwInv
  BY RwInit
<1>2. RwInv /\ [W!Next]_rwVars => RwInv'
  BY RwStep
<1>. QED  BY <1>1, <1>2, PTL DEF W!Spec, W!vars, rwVars

\* Where get_thread_id tells threads apart, the word is the readers, the writers
\* and the owner that are in it, and the depth is the owner's, however calls
\* nest and attempts are undone.
THEOREM WordIsExact == ~OnLinux => (W!Spec => []W!WordAndDepth)
<1>. SUFFICES ASSUME ~OnLinux PROVE W!Spec => []W!WordAndDepth
  OBVIOUS
<1>1. RwInv => W!WordAndDepth
  BY DEF RwInv
<1>. QED  BY <1>1, RwInvariant, PTL

\* A change of what one thread has is a step of the read-write lock, or none.
LEMMA LevelsStep ==
  ASSUME RwInv, RwInv', NEW t \in Threads, NEW h, held' = [held EXCEPT ![t] = h],
         ~(held[t] # << >> /\ ~XIn(held[t]) /\ XIn(h)),
         ~(XIn(held[t]) /\ h # << >> /\ ~XIn(h))
  PROVE  W!L!Next \/ UNCHANGED W!L!vars
<1>. DEFINE Rd == {u \in Threads : held[u] # << >> /\ ~W!Has(u, "X")}
            Wr == {u \in Threads : W!Has(u, "X")}
            Rd2 == {u \in Threads : held'[u] # << >> /\ ~W!Has(u, "X")'}
            Wr2 == {u \in Threads : W!Has(u, "X")'}
<1>0. held \in [Threads -> Seq(Kinds)] /\ held'[t] = h /\ \A u \in Threads : u # t => held'[u] = held[u]
  <2>1. held \in [Threads -> Seq(Kinds)]
    BY OfThread
  <2>. QED  BY <2>1
<1>1. /\ \A u \in Threads : /\ u \in Rd <=> held[u] # << >> /\ ~XIn(held[u])
                            /\ u \in Wr <=> XIn(held[u])
                            /\ u \in Rd2 <=> held'[u] # << >> /\ ~XIn(held'[u])
                            /\ u \in Wr2 <=> XIn(held'[u])
      /\ Rd \subseteq Threads /\ Wr \subseteq Threads /\ Rd2 \subseteq Threads /\ Wr2 \subseteq Threads
  BY InTerms, InTermsNext
<1>2. ~XIn(<< >>)
  BY DEF XIn
<1>3. \A u \in Threads : u # t => (u \in Rd <=> u \in Rd2) /\ (u \in Wr <=> u \in Wr2)
  BY <1>0, <1>1
<1>4. \A u, v \in Threads : XIn(held'[u]) /\ u # v => held'[v] = << >>
  BY DEF RwInv, AloneInv, Through, ThroughOf
<1>5. (W!L!Next <=> \E c \in Threads : \/ c \notin Rd /\ Wr = {} /\ Rd2 = Rd \cup {c} /\ Wr2 = Wr
                                       \/ Rd = {} /\ Wr = {} /\ Wr2 = {c} /\ Rd2 = Rd
                                       \/ c \in Rd /\ Rd2 = Rd \ {c} /\ Wr2 = Wr
                                       \/ c \in Wr /\ Wr2 = Wr \ {c} /\ Rd2 = Rd)
      /\ (UNCHANGED W!L!vars <=> Rd2 = Rd /\ Wr2 = Wr)
  BY DEF W!L!Next, W!L!AcquireShared, W!L!AcquireExclusive, W!L!ReleaseShared, W!L!ReleaseExclusive, W!L!vars
<1>. HIDE DEF Rd, Wr, Rd2, Wr2
<1>6. CASE t \in Rd
  <2>1. t \notin Wr /\ t \notin Wr2
    BY <1>0, <1>1, <1>6
  <2>2. Wr2 = Wr
    BY <1>1, <1>3, <2>1
  <2>3. Rd2 = Rd \/ Rd2 = Rd \ {t}
    BY <1>1, <1>3, <1>6
  <2>. QED  BY <1>5, <1>6, <2>2, <2>3
<1>7. CASE t \in Wr
  <2>1. t \notin Rd /\ t \notin Rd2
    BY <1>0, <1>1, <1>7
  <2>2. Rd2 = Rd
    BY <1>1, <1>3, <2>1
  <2>3. Wr2 = Wr \/ Wr2 = Wr \ {t}
    BY <1>1, <1>3, <1>7
  <2>. QED  BY <1>5, <1>7, <2>2, <2>3
<1>8. CASE t \notin Rd /\ t \notin Wr /\ t \in Rd2
  <2>1. held'[t] # << >> /\ t \notin Wr2
    BY <1>1, <1>8
  <2>2. Wr2 = {} /\ Wr = {}
    BY <1>1, <1>3, <1>4, <1>8, <2>1
  <2>3. Rd2 = Rd \cup {t}
    BY <1>1, <1>3, <1>8
  <2>. QED  BY <1>5, <1>8, <2>2, <2>3
<1>9. CASE t \notin Rd /\ t \notin Wr /\ t \in Wr2
  <2>1. t \notin Rd2 /\ \A u \in Threads : u # t => held'[u] = << >>
    BY <1>1, <1>4, <1>9
  <2>2. Rd2 = {} /\ Wr2 = {t}
    BY <1>1, <1>2, <1>9, <2>1
  <2>3. Rd = {} /\ Wr = {}
    BY <1>1, <1>3, <1>9, <2>2
  <2>. QED  BY <1>5, <2>2, <2>3
<1>10. CASE t \notin Rd /\ t \notin Wr /\ t \notin Rd2 /\ t \notin Wr2
  <2>1. Rd2 = Rd /\ Wr2 = Wr
    BY <1>1, <1>3, <1>10
  <2>. QED  BY <1>5, <2>1
<1>. QED  BY <1>6, <1>7, <1>8, <1>9, <1>10

\* Where get_thread_id tells threads apart, the lock is a read-write lock
\* between threads, whatever they nest.
THEOREM RecursiveRwIsRwLock == ~OnLinux => (W!Spec => W!ImplementsRwLock)
<1>. SUFFICES ASSUME ~OnLinux PROVE W!Spec => W!ImplementsRwLock
  OBVIOUS
<1>1. W!Init => W!L!Init
  <2>. SUFFICES ASSUME W!Init PROVE W!L!Init
    OBVIOUS
  <2>1. \A t \in Threads : held[t] = << >> /\ ~W!Has(t, "X")
    BY DEF W!Init, W!Has
  <2>. QED  BY <2>1 DEF W!L!Init
<1>2. RwInv /\ RwInv' /\ [W!Next]_rwVars => [W!L!Next]_(W!L!vars)
  <2>. SUFFICES ASSUME RwInv, RwInv', [W!Next]_rwVars PROVE W!L!Next \/ UNCHANGED W!L!vars
    OBVIOUS
  <2>1. CASE held' = held
    BY <2>1 DEF W!L!vars, W!Has
  <2>2. ASSUME NEW t \in Threads, NEW k \in Kinds, held' = [held EXCEPT ![t] = Append(held[t], k)],
               k = "X" => held[t] = << >> \/ XIn(held[t])
        PROVE  W!L!Next \/ UNCHANGED W!L!vars
    <3>1. XIn(Append(held[t], k)) <=> XIn(held[t]) \/ k = "X"
      BY OfThread, OneMore
    <3>. QED  BY <2>2, <3>1, LevelsStep
  <2>3. ASSUME NEW t \in Threads, held[t] # << >>, held' = [held EXCEPT ![t] = SubSeq(held[t], 1, Len(held[t]) - 1)]
        PROVE  W!L!Next \/ UNCHANGED W!L!vars
    <3>. DEFINE h == SubSeq(held[t], 1, Len(held[t]) - 1)
    <3>1. held[t] \in Seq(Kinds) /\ (XIn(held[t]) => held[t][1] = "X")
      BY OfThread DEF CallOf
    <3>2. /\ XIn(h) <=> XIn(held[t]) /\ Len(held[t]) > 1
          /\ h = << >> <=> Len(held[t]) = 1
          /\ Len(held[t]) > 0
      BY <2>3, <3>1, OneLess
    <3>3. Len(held[t]) \in Nat
      BY <3>1
    <3>. HIDE DEF h
    <3>4. ~(held[t] # << >> /\ ~XIn(held[t]) /\ XIn(h)) /\ ~(XIn(held[t]) /\ h # << >> /\ ~XIn(h))
      <4>0. \A n \in Nat : n > 0 => (n > 1 <=> n # 1)
        OBVIOUS
      <4>1. Len(held[t]) > 1 <=> Len(held[t]) # 1
        BY <3>2, <3>3, <4>0, Zenon
      <4>. QED  BY <3>2, <4>1, Zenon
    <3>. QED  BY <2>3, <3>4, LevelsStep DEF h
  <2>4. ASSUME W!Next
        PROVE  \/ held' = held
               \/ \E u \in Threads : \/ \E k \in Kinds : /\ held' = [held EXCEPT ![u] = Append(held[u], k)]
                                                         /\ k = "X" => held[u] = << >> \/ XIn(held[u])
                                     \/ held[u] # << >> /\ held' = [held EXCEPT ![u] = SubSeq(held[u], 1, Len(held[u]) - 1)]
    <3>1. \A u \in Threads : /\ rwpc[u] = "w_nest" => XIn(held[u])
                             /\ rwpc[u] = "w_depth" => held[u] = << >>
      BY OfThread DEF CallOf
    <3>2. PICK u \in Threads : \/ W!Step(u) \/ W!LockShared(u) \/ W!UnlockShared(u) \/ W!Lock(u) \/ W!Unlock(u)
      BY <2>4 DEF W!Next
    <3>3. CASE W!UnlockShared(u) \/ W!Unlock(u)
      <4>1. held[u] # << >> /\ held' = [held EXCEPT ![u] = SubSeq(held[u], 1, Len(held[u]) - 1)]
        BY <3>3 DEF W!UnlockShared, W!Unlock, W!Innermost, W!Drop
      <4>. QED  BY <4>1
    <3>4. CASE W!LockShared(u) \/ W!ReadTry(u)
      <4>1. held' = held \/ held' = [held EXCEPT ![u] = Append(held[u], "S")]
        BY <3>4 DEF W!LockShared, W!ReadTry, W!Take
      <4>2. "S" \in Kinds /\ "S" # "X"
        BY DEF Kinds
      <4>. QED  BY <4>1, <4>2
    <3>5. CASE W!WriteNest(u) \/ W!WriteDepth(u)
      <4>1. held' = [held EXCEPT ![u] = Append(held[u], "X")] /\ (held[u] = << >> \/ XIn(held[u]))
        BY <3>1, <3>5 DEF W!WriteNest, W!WriteDepth, W!Take
      <4>2. "X" \in Kinds
        BY DEF Kinds
      <4>. QED  BY <4>1, <4>2
    <3>6. CASE \/ W!ReadUndo(u) \/ W!ReadWait(u) \/ W!ReadRelease(u) \/ W!WriteTry(u) \/ W!WriteOwn(u)
               \/ W!WriteUndo(u) \/ W!WriteWait(u) \/ W!WriteDisown(u) \/ W!WriteRelease(u) \/ W!Lock(u)
      BY <3>6 DEF W!ReadUndo, W!ReadWait, W!ReadRelease, W!WriteTry, W!WriteOwn, W!WriteUndo, W!WriteWait,
                  W!WriteDisown, W!WriteRelease, W!Lock
    <3>. QED  BY <3>2, <3>3, <3>4, <3>5, <3>6 DEF W!Step
  <2>5. CASE W!Next
    BY <2>1, <2>2, <2>3, <2>4, <2>5
  <2>. QED  BY <2>1, <2>5 DEF rwVars
<1>. QED  BY <1>1, <1>2, RwInvariant, PTL DEF W!Spec, W!vars, rwVars, W!ImplementsRwLock, W!L!Spec

-----------------------------------------------------------------------------
(* object_safe_wrapper *)

\* The proxies of a thread at step p with the levels h: one for each level, of
\* its kind, and one more for a level that is being taken; what was read is
\* kept only with a level.
ProxyOf(p, h, q, l) ==
  /\ Len(q) = Len(h) + (IF p \in {"idle", "r_release", "w_disown", "w_release"} THEN 0 ELSE 1)
  /\ \A i \in 1..Len(h) : q[i] = "object" <=> h[i] = "X"
  /\ l # None => h # << >>
  /\ p \in {"w_nest", "w_try", "w_own", "w_depth", "w_undo", "w_wait"} => q[Len(q)] = "object"
  /\ p \in {"r_try", "r_undo", "r_wait"} => q[Len(q)] = "const"

ProxiesInv == /\ proxies \in [Threads -> Seq({"object", "const"})]
              /\ local \in [Threads -> {None, 0, 1}] /\ object \in {0, 1}
              /\ \A t \in Threads : ProxyOf(rwpc[t], held[t], proxies[t], local[t])

WrapperInv == RwInv /\ ProxiesInv

\* A level more, or less, with its proxy.
LEMMA ProxyTaken ==
  ASSUME NEW h \in Seq(Kinds), NEW q \in Seq({"object", "const"}), NEW l, NEW k \in Kinds,
         Len(q) = Len(h) + 1, q[Len(q)] = (IF k = "X" THEN "object" ELSE "const"),
         \A i \in 1..Len(h) : q[i] = "object" <=> h[i] = "X", l # None => h # << >>
  PROVE  ProxyOf("idle", Append(h, k), q, l)
<1>. DEFINE n == Len(h)
            g == Append(h, k)
<1>1. n \in Nat /\ Len(g) = n + 1 /\ g[n + 1] = k /\ (\A i \in 1..n : g[i] = h[i]) /\ g # << >>
  BY OneMore
<1>2. q[n + 1] = "object" <=> k = "X"
  BY <1>1 DEF Kinds
<1>3. \A i \in 1..n + 1 : q[i] = "object" <=> g[i] = "X"
  <2>1. \A i \in 1..n + 1 : i \in 1..n \/ i = n + 1
    BY <1>1
  <2>. QED  BY <1>1, <1>2, <2>1
<1>. HIDE DEF g
<1>. QED  BY <1>1, <1>3 DEF ProxyOf, g

LEMMA ProxyGone ==
  ASSUME NEW h \in Seq(Kinds), h # << >>, NEW q \in Seq({"object", "const"}), NEW l, NEW p,
         p \in {"idle", "r_release", "w_disown"}, ProxyOf("idle", h, q, l)
  PROVE  LET r == SubSeq(q, 1, Len(q) - 1)
         IN  /\ r \in Seq({"object", "const"})
             /\ ProxyOf(p, SubSeq(h, 1, Len(h) - 1), r, IF Len(q) = 1 THEN None ELSE l)
<1>. DEFINE n == Len(h)
            g == SubSeq(h, 1, n - 1)
            r == SubSeq(q, 1, n - 1)
<1>1. n \in Nat /\ n # 0 /\ Len(q) = n /\ \A i \in 1..n : q[i] = "object" <=> h[i] = "X"
  BY DEF ProxyOf
<1>2. \A m \in Nat : m <= n => /\ Len(SubSeq(h, 1, m)) = m /\ \A i \in 1..m : SubSeq(h, 1, m)[i] = h[i]
                               /\ SubSeq(h, 1, m) \in Seq(Kinds)
  OBVIOUS
<1>3. \A m \in Nat : m <= Len(q) => /\ Len(SubSeq(q, 1, m)) = m /\ \A i \in 1..m : SubSeq(q, 1, m)[i] = q[i]
                                    /\ SubSeq(q, 1, m) \in Seq({"object", "const"})
  OBVIOUS
<1>4. n - 1 \in Nat /\ n - 1 <= n /\ n - 1 <= Len(q) /\ \A i \in 1..n - 1 : i \in 1..n
  BY <1>1
<1>5. /\ Len(g) = n - 1 /\ g \in Seq(Kinds) /\ \A i \in 1..n - 1 : g[i] = h[i]
      /\ Len(r) = n - 1 /\ r \in Seq({"object", "const"}) /\ \A i \in 1..n - 1 : r[i] = q[i]
  BY <1>2, <1>3, <1>4
<1>6. (IF Len(q) = 1 THEN None ELSE l) # None => g # << >>
  <2>1. n # 1 => Len(g) # 0
    BY <1>1, <1>5
  <2>2. Len(<< >>) = 0
    OBVIOUS
  <2>. QED  BY <1>1, <2>1, <2>2
<1>. HIDE DEF g, r
<1>7. ProxyOf(p, g, r, IF Len(q) = 1 THEN None ELSE l)
  <2>1. Len(r) = Len(g) + 0
    BY <1>4, <1>5
  <2>2. \A i \in 1..Len(g) : r[i] = "object" <=> g[i] = "X"
    BY <1>1, <1>4, <1>5
  <2>. QED  BY <1>6, <2>1, <2>2 DEF ProxyOf
<1>. QED  BY <1>1, <1>5, <1>7 DEF g, r

\* A step of one thread keeps the invariant if its proxies go with its levels.
LEMMA ProxyStep ==
  ASSUME WrapperInv, RwInv', NEW t \in Threads, NEW p, NEW h, NEW q \in Seq({"object", "const"}), NEW l \in {None, 0, 1},
         rwpc' = [rwpc EXCEPT ![t] = p], held' = [held EXCEPT ![t] = h],
         proxies' = [proxies EXCEPT ![t] = q], local' = [local EXCEPT ![t] = l], object' \in {0, 1},
         ProxyOf(p, h, q, l)
  PROVE  WrapperInv'
<1>1. ProxiesInv
  BY DEF WrapperInv
<1>2. /\ rwpc \in [Threads -> W!Steps] /\ held \in [Threads -> Seq(Kinds)]
      /\ proxies \in [Threads -> Seq({"object", "const"})] /\ local \in [Threads -> {None, 0, 1}]
  BY <1>1, OfThread DEF WrapperInv, ProxiesInv
<1>3. /\ rwpc'[t] = p /\ held'[t] = h /\ proxies'[t] = q /\ local'[t] = l
      /\ \A u \in Threads : u # t => /\ rwpc'[u] = rwpc[u] /\ held'[u] = held[u]
                                     /\ proxies'[u] = proxies[u] /\ local'[u] = local[u]
  BY <1>2
<1>4. proxies' \in [Threads -> Seq({"object", "const"})] /\ local' \in [Threads -> {None, 0, 1}]
  BY <1>2
<1>5. \A u \in Threads : ProxyOf(rwpc'[u], held'[u], proxies'[u], local'[u])
  BY <1>1, <1>3 DEF ProxiesInv
<1>. QED  BY <1>4, <1>5 DEF WrapperInv, ProxiesInv

LEMMA WrapperStep == ~OnLinux /\ WrapperInv /\ [W!WrapperNext]_wVars => WrapperInv'
<1>. SUFFICES ASSUME ~OnLinux, WrapperInv, [W!WrapperNext]_wVars PROVE WrapperInv'
  OBVIOUS
<1>0. RwInv /\ ProxiesInv
  BY DEF WrapperInv
<1>1. [W!Next]_rwVars
  BY DEF W!WrapperNext, W!LockStep, W!Arrow, W!ConstArrow, W!Release, W!Read, W!Write, W!Next, W!vars, wVars, rwVars
<1>2. RwInv'
  BY <1>0, <1>1, RwStep
<1>3. ASSUME NEW t \in Threads
      PROVE  /\ rwpc[t] \in W!Steps /\ held[t] \in Seq(Kinds) /\ proxies[t] \in Seq({"object", "const"})
             /\ Len(held[t]) \in Nat /\ Len(proxies[t]) \in Nat
             /\ local[t] \in {None, 0, 1} /\ object \in {0, 1}
             /\ ProxyOf(rwpc[t], held[t], proxies[t], local[t]) /\ CallOf(rwpc[t], held[t])
             /\ rwpc = [rwpc EXCEPT ![t] = rwpc[t]] /\ held = [held EXCEPT ![t] = held[t]]
             /\ proxies = [proxies EXCEPT ![t] = proxies[t]] /\ local = [local EXCEPT ![t] = local[t]]
             /\ object = object
  <2>1. /\ rwpc[t] \in W!Steps /\ held[t] \in Seq(Kinds) /\ Len(held[t]) \in Nat /\ CallOf(rwpc[t], held[t])
        /\ rwpc \in [Threads -> W!Steps] /\ held \in [Threads -> Seq(Kinds)]
    BY <1>0, OfThread
  <2>2. /\ proxies \in [Threads -> Seq({"object", "const"})] /\ local \in [Threads -> {None, 0, 1}]
        /\ object \in {0, 1} /\ ProxyOf(rwpc[t], held[t], proxies[t], local[t])
    BY <1>0 DEF ProxiesInv
  <2>. QED  BY <2>1, <2>2
\* steps of the lock that leave the levels alone
<1>4. ASSUME NEW t \in Threads, NEW p, rwpc' = [rwpc EXCEPT ![t] = p], UNCHANGED <<held, object, proxies, local>>,
             \/ rwpc[t] \in {"r_try", "r_undo", "r_wait"} /\ p \in {"r_try", "r_undo", "r_wait"}
             \/ /\ rwpc[t] \in {"w_try", "w_own", "w_depth", "w_undo", "w_wait"}
                /\ p \in {"w_try", "w_own", "w_depth", "w_undo", "w_wait"}
             \/ rwpc[t] \in {"r_release", "w_disown", "w_release"} /\ p \in {"idle", "w_release"}
      PROVE  WrapperInv'
  <2>. DEFINE h == held[t]
              q == proxies[t]
              l == local[t]
  <2>1. ProxyOf(p, h, q, l)
    BY <1>3, <1>4 DEF ProxyOf
  <2>2. /\ held' = [held EXCEPT ![t] = h] /\ proxies' = [proxies EXCEPT ![t] = q]
        /\ local' = [local EXCEPT ![t] = l] /\ object' = object
        /\ q \in Seq({"object", "const"}) /\ l \in {None, 0, 1} /\ object' \in {0, 1}
    BY <1>3, <1>4
  <2>. HIDE DEF h, q, l
  <2>. QED  BY <1>2, <1>4, <2>1, <2>2, ProxyStep
<1>5. ASSUME NEW t \in Threads, \/ W!ReadUndo(t) \/ W!ReadWait(t) \/ W!ReadRelease(t) \/ W!WriteTry(t) \/ W!WriteOwn(t)
                                \/ W!WriteUndo(t) \/ W!WriteWait(t) \/ W!WriteDisown(t) \/ W!WriteRelease(t)
                                \/ W!ReadTry(t) /\ W!WriterBits(word') # 0,
             UNCHANGED <<object, proxies, local>>
      PROVE  WrapperInv'
  BY <1>4, <1>5 DEF W!ReadUndo, W!ReadWait, W!ReadRelease, W!WriteTry, W!WriteOwn, W!WriteUndo, W!WriteWait,
                    W!WriteDisown, W!WriteRelease, W!ReadTry, W!GoTo
\* steps that end lock or lock_shared
<1>6. ASSUME NEW t \in Threads, NEW k \in Kinds, held' = [held EXCEPT ![t] = Append(held[t], k)],
             rwpc' = [rwpc EXCEPT ![t] = "idle"], UNCHANGED <<object, proxies, local>>,
             rwpc[t] \in (IF k = "X" THEN {"w_nest", "w_depth"} ELSE {"r_try"})
      PROVE  WrapperInv'
  <2>1. /\ Len(proxies[t]) = Len(held[t]) + 1
        /\ proxies[t][Len(proxies[t])] = (IF k = "X" THEN "object" ELSE "const")
        /\ \A i \in 1..Len(held[t]) : proxies[t][i] = "object" <=> held[t][i] = "X"
        /\ local[t] # None => held[t] # << >>
    BY <1>3, <1>6 DEF ProxyOf
  <2>. DEFINE q == proxies[t]
              l == local[t]
  <2>2. ProxyOf("idle", Append(held[t], k), q, l)
    BY <1>3, <2>1, ProxyTaken
  <2>3. /\ proxies' = [proxies EXCEPT ![t] = q] /\ local' = [local EXCEPT ![t] = l] /\ object' = object
        /\ q \in Seq({"object", "const"}) /\ l \in {None, 0, 1} /\ object' \in {0, 1}
    BY <1>3, <1>6
  <2>. HIDE DEF q, l
  <2>. QED  BY <1>2, <1>6, <2>2, <2>3, ProxyStep
<1>7. ASSUME NEW t \in Threads, W!LockStep(t) PROVE WrapperInv'
  <2>1. UNCHANGED <<object, proxies, local>> /\ W!Step(t)
    BY <1>7 DEF W!LockStep
  <2>2. "X" \in Kinds /\ "S" \in Kinds
    BY DEF Kinds
  <2>3. CASE W!WriteNest(t) \/ W!WriteDepth(t)
    BY <1>6, <2>1, <2>2, <2>3 DEF W!WriteNest, W!WriteDepth, W!Take, W!GoTo
  <2>4. CASE W!ReadTry(t) /\ W!WriterBits(word') = 0
    BY <1>6, <2>1, <2>2, <2>4 DEF W!ReadTry, W!Take, W!GoTo
  <2>. QED  BY <1>5, <2>1, <2>3, <2>4 DEF W!Step
\* operator ->, operator *, lock and lock_shared begin
<1>8. ASSUME NEW t \in Threads, NEW p, NEW k \in {"object", "const"}, rwpc' = [rwpc EXCEPT ![t] = p], UNCHANGED <<held, object, local>>,
             proxies' = [proxies EXCEPT ![t] = Append(proxies[t], k)], rwpc[t] = "idle",
             p \in (IF k = "object" THEN {"w_nest", "w_try"} ELSE {"r_try"})
      PROVE  WrapperInv'
  <2>. DEFINE q == Append(proxies[t], k)
              n == Len(held[t])
  <2>1. n \in Nat /\ Len(proxies[t]) = n /\ \A i \in 1..n : proxies[t][i] = "object" <=> held[t][i] = "X"
    <3>1. Len(proxies[t]) = Len(held[t]) + 0 /\ \A i \in 1..Len(held[t]) : proxies[t][i] = "object" <=> held[t][i] = "X"
      BY <1>3, <1>8 DEF ProxyOf
    <3>. QED  BY <1>3, <3>1
  <2>2. q \in Seq({"object", "const"}) /\ Len(q) = n + 1 /\ q[n + 1] = k /\ \A i \in 1..n : q[i] = proxies[t][i]
    <3>1. \A s \in Seq({"object", "const"}) : /\ Append(s, k) \in Seq({"object", "const"}) /\ Len(Append(s, k)) = Len(s) + 1
                                             /\ Append(s, k)[Len(s) + 1] = k /\ \A i \in 1..Len(s) : Append(s, k)[i] = s[i]
      OBVIOUS
    <3>. QED  BY <1>3, <2>1, <3>1
  <2>. HIDE DEF q
  <2>3. ProxyOf(p, held[t], q, local[t])
    <3>1. local[t] # None => held[t] # << >>
      BY <1>3 DEF ProxyOf
    <3>2. q[Len(q)] = k /\ Len(q) = Len(held[t]) + 1
      BY <2>1, <2>2
    <3>3. \A i \in 1..Len(held[t]) : q[i] = "object" <=> held[t][i] = "X"
      BY <2>1, <2>2
    <3>. QED  BY <1>8, <3>1, <3>2, <3>3 DEF ProxyOf
  <2>. DEFINE h == held[t]
              l == local[t]
  <2>4. /\ held' = [held EXCEPT ![t] = h] /\ local' = [local EXCEPT ![t] = l] /\ object' = object
        /\ proxies' = [proxies EXCEPT ![t] = q] /\ rwpc' = [rwpc EXCEPT ![t] = p]
        /\ l \in {None, 0, 1} /\ object' \in {0, 1}
    BY <1>3, <1>8 DEF q
  <2>5. ProxyOf(p, h, q, l) /\ q \in Seq({"object", "const"})
    BY <2>2, <2>3
  <2>. HIDE DEF h, l
  <2>. QED  BY <1>2, <2>4, <2>5, ProxyStep
<1>9. ASSUME NEW t \in Threads, W!Arrow(t) PROVE WrapperInv'
  BY <1>8, <1>9 DEF W!Arrow, W!Proxy, W!Lock, W!CanTake, W!GoTo
<1>10. ASSUME NEW t \in Threads, W!ConstArrow(t) PROVE WrapperInv'
  <2>1. CASE ~W!check_for_recursion(t)
    BY <1>8, <1>10, <2>1 DEF W!ConstArrow, W!Proxy, W!LockShared, W!CanTake, W!GoTo
  <2>2. CASE W!check_for_recursion(t)
    <3>. DEFINE q == Append(proxies[t], "const")
                n == Len(held[t])
    <3>1. /\ rwpc[t] = "idle" /\ rwpc' = [rwpc EXCEPT ![t] = "idle"] /\ held' = [held EXCEPT ![t] = Append(held[t], "S")]
          /\ proxies' = [proxies EXCEPT ![t] = q] /\ UNCHANGED <<object, local>>
      BY <1>10, <2>2 DEF W!ConstArrow, W!Proxy, W!LockShared, W!CanTake, W!GoTo, W!Take
    <3>2. n \in Nat /\ Len(proxies[t]) = n /\ \A i \in 1..n : proxies[t][i] = "object" <=> held[t][i] = "X"
      <4>1. Len(proxies[t]) = Len(held[t]) + 0 /\ \A i \in 1..Len(held[t]) : proxies[t][i] = "object" <=> held[t][i] = "X"
        BY <1>3, <3>1 DEF ProxyOf
      <4>. QED  BY <1>3, <4>1
    <3>3. q \in Seq({"object", "const"}) /\ Len(q) = n + 1 /\ q[n + 1] = "const" /\ \A i \in 1..n : q[i] = proxies[t][i]
      <4>1. \A s \in Seq({"object", "const"}) :
              /\ Append(s, "const") \in Seq({"object", "const"}) /\ Len(Append(s, "const")) = Len(s) + 1
              /\ Append(s, "const")[Len(s) + 1] = "const" /\ \A i \in 1..Len(s) : Append(s, "const")[i] = s[i]
        OBVIOUS
      <4>2. proxies[t] \in Seq({"object", "const"})
        BY <1>3
      <4>. QED  BY <3>2, <4>1, <4>2
    <3>. HIDE DEF q
    <3>4. "S" \in Kinds /\ (local[t] # None => held[t] # << >>)
      BY <1>3 DEF Kinds, ProxyOf
    <3>5. q[Len(q)] = "const" /\ Len(q) = Len(held[t]) + 1
      BY <3>3
    <3>6. \A i \in 1..Len(held[t]) : q[i] = "object" <=> held[t][i] = "X"
      BY <3>2, <3>3
    <3>7. ProxyOf("idle", Append(held[t], "S"), q, local[t])
      BY <1>3, <3>3, <3>4, <3>5, <3>6, ProxyTaken
    <3>8. /\ local' = [local EXCEPT ![t] = local[t]] /\ object' = object
          /\ local[t] \in {None, 0, 1} /\ object' \in {0, 1}
      BY <1>3, <3>1
    <3>. QED  BY <1>2, <3>1, <3>3, <3>7, <3>8, ProxyStep
  <2>. QED  BY <2>1, <2>2
<1>11. ASSUME NEW t \in Threads, W!Release(t) PROVE WrapperInv'
  <2>. DEFINE r == SubSeq(proxies[t], 1, Len(proxies[t]) - 1)
              g == SubSeq(held[t], 1, Len(held[t]) - 1)
              l == IF Len(proxies[t]) = 1 THEN None ELSE local[t]
  <2>1. PICK p \in {"idle", "r_release", "w_disown"} : rwpc' = [rwpc EXCEPT ![t] = p]
    BY <1>11 DEF W!Release, W!Unlock, W!UnlockShared, W!GoTo
  <2>2. /\ rwpc[t] = "idle" /\ held[t] # << >> /\ held' = [held EXCEPT ![t] = g]
        /\ proxies' = [proxies EXCEPT ![t] = r] /\ local' = [local EXCEPT ![t] = l] /\ object' = object
    BY <1>11 DEF W!Release, W!Unlock, W!UnlockShared, W!Innermost, W!Drop
  <2>3. r \in Seq({"object", "const"}) /\ ProxyOf(p, g, r, l)
    <3>1. held[t] \in Seq(Kinds) /\ proxies[t] \in Seq({"object", "const"}) /\ ProxyOf("idle", held[t], proxies[t], local[t])
      BY <1>3, <2>2
    <3>. QED  BY <2>1, <2>2, <3>1, ProxyGone
  <2>4. l \in {None, 0, 1} /\ object' \in {0, 1}
    BY <1>3, <2>2
  <2>. HIDE DEF r, g, l
  <2>. QED  BY <1>2, <2>1, <2>2, <2>3, <2>4, ProxyStep
\* member functions of the object
<1>12. ASSUME NEW t \in Threads, W!Inside(t) PROVE held[t] # << >>
  <2>1. rwpc[t] = "idle" /\ proxies[t] # << >>
    BY <1>12 DEF W!Inside
  <2>2. Len(proxies[t]) = Len(held[t]) + 0
    BY <1>3, <2>1 DEF ProxyOf
  <2>3. \A q \in Seq({"object", "const"}) : q # << >> => Len(q) # 0
    OBVIOUS
  <2>4. Len(held[t]) # 0
    BY <1>3, <2>1, <2>2, <2>3
  <2>. QED  BY <2>4
<1>13. ASSUME NEW t \in Threads, W!Read(t) PROVE WrapperInv'
  <2>1. UNCHANGED <<word, wdepth, rwpc, held, object, proxies>> /\ local' = [local EXCEPT ![t] = object] /\ W!Inside(t)
    BY <1>13 DEF W!Read, W!vars
  <2>2. ProxyOf(rwpc[t], held[t], proxies[t], object)
    BY <1>3, <1>12, <2>1 DEF ProxyOf
  <2>. DEFINE p == rwpc[t]
              h == held[t]
              q == proxies[t]
              l == object
  <2>3. /\ rwpc' = [rwpc EXCEPT ![t] = p] /\ held' = [held EXCEPT ![t] = h]
        /\ proxies' = [proxies EXCEPT ![t] = q] /\ object' = object /\ local' = [local EXCEPT ![t] = l]
        /\ q \in Seq({"object", "const"}) /\ l \in {None, 0, 1} /\ object' \in {0, 1}
        /\ ProxyOf(p, h, q, l)
    BY <1>3, <2>1, <2>2
  <2>. HIDE DEF p, h, q, l
  <2>. QED  BY <1>2, <2>3, ProxyStep
<1>14. ASSUME NEW t \in Threads, W!Write(t) PROVE WrapperInv'
  <2>. DEFINE x == 1 - local[t]
  <2>1. /\ UNCHANGED <<word, wdepth, rwpc, held, proxies>> /\ object' = x /\ local' = [local EXCEPT ![t] = x]
        /\ W!Inside(t) /\ local[t] # None
    BY <1>14 DEF W!Write, W!vars
  <2>2. x \in {0, 1}
    BY <1>3, <2>1
  <2>5. ProxyOf(rwpc[t], held[t], proxies[t], x)
    BY <1>3, <1>12, <2>1 DEF ProxyOf
  <2>. HIDE DEF x
  <2>. DEFINE p == rwpc[t]
              h == held[t]
              q == proxies[t]
  <2>6. /\ rwpc' = [rwpc EXCEPT ![t] = p] /\ held' = [held EXCEPT ![t] = h]
        /\ proxies' = [proxies EXCEPT ![t] = q] /\ q \in Seq({"object", "const"})
        /\ local' = [local EXCEPT ![t] = x]
        /\ x \in {None, 0, 1} /\ object' \in {0, 1} /\ ProxyOf(p, h, q, x)
    BY <1>3, <2>1, <2>2, <2>5
  <2>. HIDE DEF p, h, q
  <2>. QED  BY <1>2, <2>6, ProxyStep
<1>15. ASSUME UNCHANGED wVars PROVE WrapperInv'
  BY <1>0, <1>2, <1>15 DEF wVars, WrapperInv, ProxiesInv
<1>. QED  BY <1>7, <1>9, <1>10, <1>11, <1>13, <1>14, <1>15 DEF W!WrapperNext

LEMMA WrapperInit == ~OnLinux /\ W!WrapperInit => WrapperInv
<1>. SUFFICES ASSUME ~OnLinux, W!WrapperInit PROVE WrapperInv
  OBVIOUS
<1>1. RwInv
  BY RwInit DEF W!WrapperInit
<1>2. ProxiesInv
  BY DEF W!WrapperInit, W!Init, ProxiesInv, ProxyOf
<1>. QED  BY <1>1, <1>2 DEF WrapperInv

\* A thread that has read the object and has, or is taking, an exclusive proxy is
\* through as a writer.
LEMMA ExclusiveThrough ==
  ASSUME WrapperInv, NEW t \in Threads, held[t] # << >>, ~W!ConstOnly(t)
  PROVE  Through(t)
<1>. DEFINE n == Len(held[t])
            q == proxies[t]
<1>1. /\ n \in Nat /\ q \in Seq({"object", "const"}) /\ ProxyOf(rwpc[t], held[t], q, local[t])
      /\ CallOf(rwpc[t], held[t]) /\ rwpc[t] \in W!Steps
  BY OfThread DEF WrapperInv, ProxiesInv
<1>2. PICK i \in 1..Len(q) : q[i] # "const"
  BY DEF W!ConstOnly
<1>3. q[i] = "object"
  BY <1>1, <1>2
<1>4. /\ Len(q) = n + (IF rwpc[t] \in {"idle", "r_release", "w_disown", "w_release"} THEN 0 ELSE 1)
      /\ rwpc[t] \in {"r_try", "r_undo", "r_wait"} => q[Len(q)] = "const"
  BY <1>1, Zenon DEF ProxyOf
<1>5. ASSUME NEW j \in 1..n, q[j] = "object" PROVE XIn(held[t])
  <2>1. held[t][j] = "X"
    BY <1>1, <1>5, Zenon DEF ProxyOf
  <2>. QED  BY <2>1, Zenon DEF XIn
<1>. HIDE DEF n, q
<1>6. CASE i \in 1..n
  BY <1>3, <1>5, <1>6 DEF Through, ThroughOf
<1>7. CASE ~(i \in 1..n)
  <2>1. i = Len(q) /\ rwpc[t] \notin {"idle", "r_release", "w_disown", "w_release"}
    BY <1>1, <1>2, <1>4, <1>7
  <2>2. rwpc[t] \notin {"r_try", "r_undo", "r_wait"}
    BY <1>3, <1>4, <2>1
  <2>3. rwpc[t] = "w_nest"
    BY <1>1, <2>1, <2>2 DEF W!Steps, CallOf
  <2>. QED  BY <1>1, <2>3, Zenon DEF CallOf, Through, ThroughOf
<1>. QED  BY <1>6, <1>7

LEMMA WriteIsolated == WrapperInv => W!IsolatedStep
<1>. SUFFICES ASSUME WrapperInv, NEW t \in Threads, NEW u \in Threads, t # u, W!Write(t), local[u] # None
              PROVE  W!ConstOnly(t) /\ W!ConstOnly(u)
  BY DEF W!IsolatedStep
<1>1. /\ ProxyOf(rwpc[t], held[t], proxies[t], local[t]) /\ ProxyOf(rwpc[u], held[u], proxies[u], local[u])
      /\ local[t] # None
  BY DEF WrapperInv, ProxiesInv, W!Write
<1>2. held[t] # << >> /\ held[u] # << >>
  BY <1>1 DEF ProxyOf
<1>3. ~Through(t) /\ ~Through(u)
  BY <1>2 DEF WrapperInv, RwInv, AloneInv
<1>. QED  BY <1>2, <1>3, ExclusiveThrough

-----------------------------------------------------------------------------
(* The locks of MCLocks *)

\* A behaviour of MCLocks is one of each lock: of the one it uses, and one in
\* which nothing happens for the others.
LEMMA EachLock == MCSpec => S!Spec /\ R!Spec /\ W!Spec /\ C!Spec
<1>1. MCInit => S!Init /\ R!Init /\ W!Init /\ C!Init
  BY DEF MCInit, W!WrapperInit
<1>2. [MCNext]_mcVars => [S!Next]_sVars
  BY DEF MCNext, mcVars
<1>3. [MCNext]_mcVars => [R!Next]_rVars
  BY DEF MCNext, mcVars
<1>4. [MCNext]_mcVars => [W!Next]_rwVars
  <2>1. [MCNext]_mcVars => [W!WrapperNext]_wVars
    BY DEF MCNext, mcVars
  <2>2. [W!WrapperNext]_wVars => [W!Next]_rwVars
    BY DEF W!WrapperNext, W!LockStep, W!Arrow, W!ConstArrow, W!Release, W!Read, W!Write, W!Next, W!vars, wVars, rwVars
  <2>. QED  BY <2>1, <2>2
<1>5. [MCNext]_mcVars => [C!Next]_cVars
  BY DEF MCNext, mcVars
<1>. QED  BY <1>1, <1>2, <1>3, <1>4, <1>5, PTL
          DEF MCSpec, S!Spec, S!vars, sVars, R!Spec, R!vars, rVars, W!Spec, W!vars, rwVars, C!Spec, C!vars, cVars

\* spinlock's flag is set exactly while one thread has it, and, where
\* get_thread_id tells threads apart, recursive_spinlock has one owner whose
\* depth is m_recursion.
THEOREM MutexesAreHeld == ~OnLinux => (MCSpec => []MutexesHeld)
<1>. SUFFICES ASSUME ~OnLinux PROVE MCSpec => []MutexesHeld
  OBVIOUS
<1>1. R!Spec => []R!OwnerCounts
  BY RecursiveSpinlockOwned
<1>2. S!FlagMeansHeld /\ R!OwnerCounts => MutexesHeld
  BY DEF MutexesHeld
<1>. QED  BY <1>1, <1>2, EachLock, SpinlockHeld, PTL

\* contention_free_rw_lock with one writer: the slots are exact, and no reader
\* is inside on a slot the writer has passed.
THEOREM SlotsCorrect == OneWriter => (MCSpec => []SlotsInv)
<1>. SUFFICES ASSUME OneWriter PROVE MCSpec => []SlotsInv
  OBVIOUS
<1>1. C!Spec => []C!SlotsInv
  BY SlotsAreExact
<1>2. C!SlotsInv => SlotsInv
  BY DEF SlotsInv
<1>. QED  BY <1>1, <1>2, EachLock, PTL

\* recursive_rw_spinlock: the word and the depth are what the threads took, where
\* get_thread_id tells threads apart.
THEOREM WordCorrect == ~OnLinux => (MCSpec => []WordAndDepth)
<1>. SUFFICES ASSUME ~OnLinux PROVE MCSpec => []WordAndDepth
  OBVIOUS
<1>1. W!Spec => []W!WordAndDepth
  BY WordIsExact
<1>2. W!WordAndDepth => WordAndDepth
  BY DEF WordAndDepth
<1>. QED  BY <1>1, <1>2, EachLock, PTL

\* object_safe_wrapper: what a thread has read through a proxy is changed by
\* nobody else while it has one, whatever proxies nest and whoever else tries,
\* unless both reached the object through const wrappers, whose proxies cast
\* const away under a lock that is only shared.
THEOREM ReadsStayTrue == ~OnLinux => (MCSpec => Isolated)
<1>. SUFFICES ASSUME ~OnLinux PROVE MCSpec => Isolated
  OBVIOUS
<1>1. MCInit => WrapperInv
  BY WrapperInit DEF MCInit
<1>2. [MCNext]_mcVars => [W!WrapperNext]_wVars
  BY DEF MCNext, mcVars
<1>3. WrapperInv /\ [W!WrapperNext]_wVars => WrapperInv'
  BY WrapperStep
<1>4. WrapperInv => W!IsolatedStep
  BY WriteIsolated
<1>. QED  BY <1>1, <1>2, <1>3, <1>4, PTL DEF MCSpec, Isolated, W!Isolated

\* recursive_rw_spinlock between threads, where get_thread_id tells them apart,
\* and contention_free_rw_lock with one writer are read-write locks.
THEOREM OthersImplementRwLock == ~OnLinux /\ OneWriter => (MCSpec => OthersAreRwLocks)
<1>. SUFFICES ASSUME ~OnLinux, OneWriter PROVE MCSpec => OthersAreRwLocks
  OBVIOUS
<1>1. W!Spec => W!ImplementsRwLock
  BY RecursiveRwIsRwLock
<1>2. C!Spec => C!ImplementsRwLock
  BY ContentionFreeIsRwLock
<1>3. W!ImplementsRwLock /\ C!ImplementsRwLock => OthersAreRwLocks
  BY DEF OthersAreRwLocks
<1>. QED  BY <1>1, <1>2, <1>3, EachLock, PTL
=============================================================================
