-------------------------- MODULE SharedLocksProofs -------------------------
(***************************************************************************)
(* Proofs about the locks that readers share: rw_spinlock for every set of *)
(* clients that the fields of the word can count and every width of those  *)
(* fields, seq_lock for every number of readers, words and stores.         *)
(***************************************************************************)
EXTENDS RwSpinlock, SeqLock, FiniteSetTheorems, TLAPS

-----------------------------------------------------------------------------
(* Arithmetic of the word *)

\* The fields of m_lock have positive widths.
LEMMA UnitsNat == WriterUnit \in Nat /\ WriterSlots \in Nat /\ WriterUnit > 0 /\ WriterSlots > 0
<1>1. Cardinality(Clients) \in Nat
  BY ClientsAssumption, FS_CardinalityType
<1>. QED  BY <1>1, ClientsAssumption

\* A word with r readers and w writers, both within their fields, fits the
\* word, and its writer bits are w.
LEMMA WordFits ==
  ASSUME NEW r \in Nat, r < WriterUnit, NEW w \in Nat, w < WriterSlots
  PROVE  /\ r + WriterUnit * w \in 0..(WriterUnit * WriterSlots - 1)
         /\ (r + WriterUnit * w) % (WriterUnit * WriterSlots) = r + WriterUnit * w
         /\ NoWriter(r + WriterUnit * w) <=> w = 0
         /\ OnlyMe(r + WriterUnit * w) => w = 1 /\ r = 0
<1>0. WriterUnit * w \in Nat /\ WriterUnit * WriterSlots \in Nat
  BY UnitsNat
<1>1. WriterUnit * (WriterSlots - 1 - w) >= 0
  BY UnitsNat
<1>2. WriterUnit * (WriterSlots - 1 - w) = WriterUnit * WriterSlots - WriterUnit - WriterUnit * w
  BY UnitsNat
<1>3. r + WriterUnit * w \in 0..(WriterUnit * WriterSlots - 1)
  BY <1>0, <1>1, <1>2, UnitsNat
<1>4. \A x, M \in Nat : x < M => x % M = x
  OBVIOUS
<1>5. (r + WriterUnit * w) % (WriterUnit * WriterSlots) = r + WriterUnit * w
  BY <1>0, <1>3, <1>4
<1>6. w # 0 => WriterUnit * w >= WriterUnit
  <2>1. w # 0 => WriterUnit * (w - 1) >= 0
    BY UnitsNat
  <2>2. WriterUnit * (w - 1) = WriterUnit * w - WriterUnit
    BY UnitsNat
  <2>. QED  BY <1>0, <2>1, <2>2, UnitsNat
<1>7. NoWriter(r + WriterUnit * w) <=> w = 0
  <2>1. \A x \in Nat : x < WriterUnit => x \div WriterUnit = 0
    BY UnitsNat
  <2>2. \A x \in Nat : x >= WriterUnit => x \div WriterUnit # 0
    BY UnitsNat
  <2>3. w = 0 => WriterUnit * w = 0
    BY UnitsNat
  <2>4. r + WriterUnit * w \in Nat
    BY <1>0
  <2>. QED  BY <1>0, <1>6, <2>1, <2>2, <2>3, <2>4, UnitsNat DEF NoWriter, WriterBits
<1>8. OnlyMe(r + WriterUnit * w) => w = 1 /\ r = 0
  <2>. SUFFICES ASSUME r + WriterUnit * w = WriterUnit PROVE w = 1 /\ r = 0
    BY DEF OnlyMe
  <2>1. w # 0
    BY UnitsNat
  <2>2. r = 0 /\ WriterUnit * w = WriterUnit
    BY <1>0, <1>6, <2>1, UnitsNat
  <2>3. WriterUnit * (w - 1) = 0
    BY <2>2, UnitsNat
  <2>. QED  BY <2>2, <2>3, UnitsNat
<1>. QED  BY <1>3, <1>5, <1>7, <1>8

-----------------------------------------------------------------------------
(* Counting clients *)

\* No set of clients fills the reader field or the writer field of m_lock.
LEMMA Counted ==
  ASSUME NEW S \in SUBSET Clients
  PROVE  /\ IsFiniteSet(S) /\ Cardinality(S) \in Nat
         /\ Cardinality(S) < WriterUnit /\ Cardinality(S) < WriterSlots
         /\ Cardinality(S) = 0 <=> S = {}
<1>1. IsFiniteSet(S) /\ Cardinality(S) <= Cardinality(Clients)
  BY ClientsAssumption, FS_Subset
<1>2. Cardinality(S) \in Nat /\ Cardinality(Clients) \in Nat
  BY <1>1, ClientsAssumption, FS_CardinalityType
<1>3. Cardinality(S) = 0 <=> S = {}
  BY <1>1, FS_EmptySet
<1>. QED  BY <1>1, <1>2, <1>3, ClientsAssumption

\* What adding c to a set of clients, or removing it, does to their number.
LEMMA CountChange ==
  ASSUME NEW S \in SUBSET Clients, NEW T, NEW c \in Clients, NEW d \in Int,
         \/ T = S \cup {c} /\ d = (IF c \in S THEN 0 ELSE 1)
         \/ T = S \ {c} /\ d = (IF c \in S THEN -1 ELSE 0)
  PROVE  Cardinality(T) = Cardinality(S) + d
<1>1. IsFiniteSet(S) /\ Cardinality(S) \in Nat
  BY Counted
<1>2. CASE T = S \cup {c} /\ d = (IF c \in S THEN 0 ELSE 1)
  <2>1. Cardinality(T) = Cardinality(S \cup {c})
    BY <1>2, Zenon
  <2>. QED  BY <1>1, <1>2, <2>1, FS_AddElement
<1>3. CASE T = S \ {c} /\ d = (IF c \in S THEN -1 ELSE 0)
  <2>1. Cardinality(T) = Cardinality(S \ {c})
    BY <1>3, Zenon
  <2>. QED  BY <1>1, <1>3, <2>1, FS_RemoveElement
<1>. QED  BY <1>2, <1>3

\* A step that adds dr readers and dw writers to the counted clients, and as
\* much to the word, keeps the word exact, and what the word then says of
\* writers is what the counted clients say.
LEMMA WordStep ==
  ASSUME WordCounts, NEW dr \in {-1, 0, 1}, NEW dw \in {-1, 0, 1},
         Add(dr + WriterUnit * dw),
         Cardinality(CountedReaders') = Cardinality(CountedReaders) + dr,
         Cardinality(CountedWriters') = Cardinality(CountedWriters) + dw
  PROVE  /\ m_lock' \in 0..(WriterUnit * WriterSlots - 1)
         /\ WordCounts'
         /\ NoWriter(m_lock') => CountedWriters' = {}
         /\ OnlyMe(m_lock') /\ dw = 1 => CountedReaders' = {} /\ CountedWriters = {}
<1>0. /\ CountedReaders \in SUBSET Clients /\ CountedWriters \in SUBSET Clients
      /\ CountedReaders' \in SUBSET Clients /\ CountedWriters' \in SUBSET Clients
  BY DEF CountedReaders, CountedWriters
<1>. DEFINE r == Cardinality(CountedReaders)
            w == Cardinality(CountedWriters)
            r1 == Cardinality(CountedReaders')
            w1 == Cardinality(CountedWriters')
<1>1. /\ r \in Nat /\ w \in Nat /\ r1 \in Nat /\ w1 \in Nat
      /\ r1 < WriterUnit /\ w1 < WriterSlots
      /\ r1 = 0 <=> CountedReaders' = {}
      /\ w1 = 0 <=> CountedWriters' = {}
      /\ w = 0 <=> CountedWriters = {}
  BY <1>0, Counted
<1>2. r1 = r + dr /\ w1 = w + dw
  OBVIOUS
<1>3. m_lock + (dr + WriterUnit * dw) = r1 + WriterUnit * w1
  <2>1. WriterUnit * w1 = WriterUnit * w + WriterUnit * dw
    BY <1>1, <1>2, UnitsNat
  <2>2. WriterUnit * w \in Int /\ WriterUnit * dw \in Int
    BY <1>1, UnitsNat
  <2>. QED  BY <1>1, <1>2, <2>1, <2>2 DEF WordCounts
<1>4. m_lock' = (r1 + WriterUnit * w1) % (WriterUnit * WriterSlots)
  BY <1>3 DEF Add
<1>. HIDE DEF r, w, r1, w1
<1>5. /\ m_lock' = r1 + WriterUnit * w1
      /\ m_lock' \in 0..(WriterUnit * WriterSlots - 1)
      /\ NoWriter(m_lock') => w1 = 0
      /\ OnlyMe(m_lock') => w1 = 1 /\ r1 = 0
  BY <1>1, <1>4, WordFits
<1>6. WordCounts'
  BY <1>5 DEF WordCounts, r1, w1
<1>7. OnlyMe(m_lock') /\ dw = 1 => CountedReaders' = {} /\ CountedWriters = {}
  BY <1>1, <1>2, <1>5
<1>. QED  BY <1>1, <1>5, <1>6, <1>7

-----------------------------------------------------------------------------
\* One client moves to another step: who is counted afterwards.
LEMMA CountedStep ==
  ASSUME TypeOK, NEW c \in Clients, NEW step \in Steps, GoTo(c, step)
  PROVE  /\ CountedReaders' = IF step \in {"reading", "r_undo"} THEN CountedReaders \cup {c}
                              ELSE CountedReaders \ {c}
         /\ CountedWriters' = IF step \in {"writing", "w_undo"} THEN CountedWriters \cup {c}
                              ELSE CountedWriters \ {c}
         /\ CountedReaders \in SUBSET Clients /\ CountedWriters \in SUBSET Clients
         /\ pc' \in [Clients -> Steps]
BY DEF CountedReaders, CountedWriters, GoTo, TypeOK

\* Acquiring and releasing keep Exclusion if whoever gets in finds nobody
\* that it excludes among the counted clients.
LEMMA ExclusionStep ==
  ASSUME TypeOK, Exclusion, NEW c \in Clients, NEW step \in Steps, GoTo(c, step),
         step = "reading" => CountedWriters' = {},
         step = "writing" => CountedReaders' = {} /\ CountedWriters = {}
  PROVE  Exclusion'
<1>1. /\ pc'[c] = step /\ \A d \in Clients : d # c => pc'[d] = pc[d]
  BY DEF GoTo, TypeOK
<1>2. CASE step = "reading"
  BY <1>1, <1>2 DEF Exclusion, CountedWriters
<1>3. CASE step = "writing"
  <2>1. \A d \in Clients : d # c => pc'[d] \notin {"reading", "writing"}
    BY <1>1, <1>3 DEF CountedWriters, CountedReaders
  <2>. QED  BY <1>1, <2>1 DEF Exclusion
<1>4. CASE step \notin {"reading", "writing"}
  BY <1>1, <1>4 DEF Exclusion
<1>. QED  BY <1>2, <1>3, <1>4

\* One client moves to another step and adds itself to, or takes itself from,
\* the word accordingly.
LEMMA MoveStep ==
  ASSUME LockInv, NEW c \in Clients, NEW step \in Steps, GoTo(c, step),
         NEW dr \in {-1, 0, 1}, NEW dw \in {-1, 0, 1}, Add(dr + WriterUnit * dw),
         dr = (IF step \in {"reading", "r_undo"} THEN 1 ELSE 0)
              - (IF pc[c] \in {"reading", "r_undo"} THEN 1 ELSE 0),
         dw = (IF step \in {"writing", "w_undo"} THEN 1 ELSE 0)
              - (IF pc[c] \in {"writing", "w_undo"} THEN 1 ELSE 0),
         step = "reading" => NoWriter(m_lock'),
         step = "writing" => OnlyMe(m_lock') /\ dw = 1
  PROVE  LockInv'
<1>. USE DEF LockInv
<1>1. /\ CountedReaders' = IF step \in {"reading", "r_undo"} THEN CountedReaders \cup {c}
                              ELSE CountedReaders \ {c}
      /\ CountedWriters' = IF step \in {"writing", "w_undo"} THEN CountedWriters \cup {c}
                              ELSE CountedWriters \ {c}
      /\ CountedReaders \in SUBSET Clients /\ CountedWriters \in SUBSET Clients
      /\ pc' \in [Clients -> Steps]
  BY CountedStep
<1>2. /\ c \in CountedReaders <=> pc[c] \in {"reading", "r_undo"}
      /\ c \in CountedWriters <=> pc[c] \in {"writing", "w_undo"}
  BY DEF CountedReaders, CountedWriters
<1>4. Cardinality(CountedReaders') = Cardinality(CountedReaders) + dr
  <2>1. \/ /\ CountedReaders' = CountedReaders \cup {c}
           /\ dr = (IF c \in CountedReaders THEN 0 ELSE 1)
        \/ /\ CountedReaders' = CountedReaders \ {c}
           /\ dr = (IF c \in CountedReaders THEN -1 ELSE 0)
    BY <1>1, <1>2
  <2>. QED  BY <1>1, <2>1, CountChange
<1>5. Cardinality(CountedWriters') = Cardinality(CountedWriters) + dw
  <2>1. \/ /\ CountedWriters' = CountedWriters \cup {c}
           /\ dw = (IF c \in CountedWriters THEN 0 ELSE 1)
        \/ /\ CountedWriters' = CountedWriters \ {c}
           /\ dw = (IF c \in CountedWriters THEN -1 ELSE 0)
    BY <1>1, <1>2
  <2>. QED  BY <1>1, <2>1, CountChange
<1>6. /\ m_lock' \in 0..(WriterUnit * WriterSlots - 1)
      /\ WordCounts'
      /\ NoWriter(m_lock') => CountedWriters' = {}
      /\ OnlyMe(m_lock') /\ dw = 1 => CountedReaders' = {} /\ CountedWriters = {}
  BY <1>4, <1>5, WordStep
<1>7. Exclusion'
  BY <1>6, ExclusionStep
<1>. QED  BY <1>1, <1>6, <1>7 DEF TypeOK

\* A step between places that are not counted, with m_lock untouched, preserves LockInv.
LEMMA StayStep ==
  ASSUME LockInv, NEW c \in Clients, NEW step \in Steps, GoTo(c, step), UNCHANGED m_lock,
         pc[c] \notin {"reading", "r_undo", "writing", "w_undo"},
         step \notin {"reading", "r_undo", "writing", "w_undo"}
  PROVE  LockInv'
<1>. USE DEF LockInv
<1>1. /\ CountedReaders' = CountedReaders \ {c} /\ CountedWriters' = CountedWriters \ {c}
      /\ pc' \in [Clients -> Steps]
  BY CountedStep
<1>2. CountedReaders' = CountedReaders /\ CountedWriters' = CountedWriters
  BY <1>1 DEF CountedReaders, CountedWriters
<1>3. WordCounts'
  BY <1>2 DEF WordCounts
<1>4. Exclusion'
  BY ExclusionStep
<1>. QED  BY <1>1, <1>3, <1>4 DEF TypeOK

\* The unlocked word counts nobody.
LEMMA LockInvInit ==
  ASSUME Init
  PROVE  LockInv
<1>1. CountedReaders = {} /\ CountedWriters = {}
  BY DEF Init, CountedReaders, CountedWriters
<1>2. WordCounts
  BY <1>1, FS_EmptySet, UnitsNat DEF Init, WordCounts
<1>3. WriterUnit * WriterSlots \in Nat /\ WriterUnit * WriterSlots > 0
  BY UnitsNat
<1>. QED  BY <1>2, <1>3 DEF Init, LockInv, TypeOK, Steps, Exclusion

\* Every step of lock, unlock, lock_shared and unlock_shared preserves LockInv.
LEMMA LockInvStep ==
  ASSUME LockInv, [Next]_vars
  PROVE  LockInv'
<1>0. /\ 1 = 1 + WriterUnit * 0 /\ -1 = -1 + WriterUnit * 0
      /\ WriterUnit = 0 + WriterUnit * 1 /\ -WriterUnit = 0 + WriterUnit * (-1)
  BY UnitsNat
<1>1. ASSUME NEW c \in Clients, ReadTry(c)
      PROVE  LockInv'
  <2>. DEFINE step == IF NoWriter(m_lock') THEN "reading" ELSE "r_undo"
  <2>1. step \in Steps /\ step \in {"reading", "r_undo"} /\ (step = "reading" => NoWriter(m_lock'))
    BY DEF Steps
  <2>2. GoTo(c, step) /\ Add(1 + WriterUnit * 0) /\ pc[c] = "r_try"
    BY <1>0, <1>1 DEF ReadTry
  <2>. HIDE DEF step
  <2>. QED  BY <2>1, <2>2, MoveStep
<1>2. ASSUME NEW c \in Clients, WriteTry(c)
      PROVE  LockInv'
  <2>. DEFINE step == IF OnlyMe(m_lock') THEN "writing" ELSE "w_undo"
  <2>1. step \in Steps /\ step \in {"writing", "w_undo"} /\ (step = "writing" => OnlyMe(m_lock'))
    BY DEF Steps
  <2>2. GoTo(c, step) /\ Add(0 + WriterUnit * 1) /\ pc[c] = "w_try"
    BY <1>0, <1>2 DEF WriteTry
  <2>. HIDE DEF step
  <2>. QED  BY <2>1, <2>2, MoveStep
<1>3. ASSUME NEW c \in Clients, ReadUndo(c) \/ UnlockShared(c)
      PROVE  LockInv'
  <2>1. PICK step \in {"r_wait", "idle"} : GoTo(c, step)
    BY <1>3 DEF ReadUndo, UnlockShared
  <2>2. Add(-1 + WriterUnit * 0) /\ pc[c] \in {"reading", "r_undo"} /\ step \in Steps
    BY <1>0, <1>3 DEF ReadUndo, UnlockShared, Steps
  <2>. QED  BY <2>1, <2>2, MoveStep
<1>4. ASSUME NEW c \in Clients, WriteUndo(c) \/ Unlock(c)
      PROVE  LockInv'
  <2>1. PICK step \in {"w_wait", "idle"} : GoTo(c, step)
    BY <1>4 DEF WriteUndo, Unlock
  <2>2. Add(0 + WriterUnit * (-1)) /\ pc[c] \in {"writing", "w_undo"} /\ step \in Steps
    BY <1>0, <1>4 DEF WriteUndo, Unlock, Steps
  <2>. QED  BY <2>1, <2>2, MoveStep
<1>5. ASSUME NEW c \in Clients, LockShared(c) \/ Lock(c) \/ ReadWait(c) \/ WriteWait(c)
      PROVE  LockInv'
  <2>1. PICK step \in {"r_try", "w_try"} : GoTo(c, step)
    BY <1>5 DEF LockShared, Lock, ReadWait, WriteWait
  <2>2. /\ UNCHANGED m_lock /\ step \in Steps
        /\ pc[c] \notin {"reading", "r_undo", "writing", "w_undo"}
    BY <1>5 DEF LockShared, Lock, ReadWait, WriteWait, Steps
  <2>. QED  BY <2>1, <2>2, StayStep
<1>6. CASE UNCHANGED vars
  BY <1>6 DEF vars, LockInv, TypeOK, WordCounts, Exclusion, CountedReaders, CountedWriters
<1>. QED  BY <1>1, <1>2, <1>3, <1>4, <1>5, <1>6 DEF Next, Step

\* The word counts exactly the clients that hold the lock or are about to
\* take a failed attempt back, and nobody shares the lock with a writer.
THEOREM LockCorrect == Spec => []LockInv
<1>1. Init => LockInv
  BY LockInvInit
<1>2. LockInv /\ [Next]_vars => LockInv'
  BY LockInvStep
<1>. QED  BY <1>1, <1>2, PTL DEF Spec

\* The lock is a read-write lock: every step acquires or releases as RwLock
\* allows, or changes nothing a client of the lock can see.
THEOREM LockImplements == Spec => ImplementsRwLock
<1>. DEFINE R == {c \in Clients : pc[c] = "reading"}
            W == {c \in Clients : pc[c] = "writing"}
<1>1. Init => L!Init
  BY DEF Init, L!Init
<1>2. LockInv /\ LockInv' /\ [Next]_vars => [L!Next]_L!vars
  <2>. SUFFICES ASSUME LockInv, LockInv', Next
                PROVE  L!Next \/ UNCHANGED <<R, W>>
    BY DEF L!vars, vars, LockInv
  <2>0. pc \in [Clients -> Steps] /\ Exclusion /\ Exclusion'
    BY DEF LockInv, TypeOK
  <2>1. ASSUME NEW c \in Clients, ReadTry(c), NoWriter(m_lock')
        PROVE  L!AcquireShared(c)
    <3>1. pc[c] = "r_try" /\ pc' = [pc EXCEPT ![c] = "reading"]
      BY <2>1 DEF ReadTry, GoTo
    <3>2. W = {}
      BY <2>0, <3>1 DEF Exclusion
    <3>. QED  BY <2>0, <3>1, <3>2 DEF L!AcquireShared
  <2>2. ASSUME NEW c \in Clients, WriteTry(c), OnlyMe(m_lock')
        PROVE  L!AcquireExclusive(c)
    <3>1. pc[c] = "w_try" /\ pc' = [pc EXCEPT ![c] = "writing"]
      BY <2>2 DEF WriteTry, GoTo
    <3>2. R = {} /\ W = {}
      BY <2>0, <3>1 DEF Exclusion
    <3>. QED  BY <2>0, <3>1, <3>2 DEF L!AcquireExclusive
  <2>3. ASSUME NEW c \in Clients, UnlockShared(c)
        PROVE  L!ReleaseShared(c)
    BY <2>0, <2>3 DEF UnlockShared, GoTo, L!ReleaseShared
  <2>4. ASSUME NEW c \in Clients, Unlock(c)
        PROVE  L!ReleaseExclusive(c)
    BY <2>0, <2>4 DEF Unlock, GoTo, L!ReleaseExclusive
  <2>5. ASSUME NEW c \in Clients,
               \/ (ReadTry(c) /\ ~NoWriter(m_lock')) \/ ReadUndo(c) \/ ReadWait(c)
               \/ (WriteTry(c) /\ ~OnlyMe(m_lock')) \/ WriteUndo(c) \/ WriteWait(c)
               \/ LockShared(c) \/ Lock(c)
        PROVE  UNCHANGED <<R, W>>
    <3>1. PICK step \in {"r_undo", "r_wait", "r_try", "w_undo", "w_wait", "w_try"} : GoTo(c, step)
      BY <2>5 DEF ReadTry, ReadUndo, ReadWait, WriteTry, WriteUndo, WriteWait, LockShared, Lock
    <3>2. pc[c] \notin {"reading", "writing"}
      BY <2>5 DEF ReadTry, ReadUndo, ReadWait, WriteTry, WriteUndo, WriteWait, LockShared, Lock
    <3>. QED  BY <2>0, <3>1, <3>2 DEF GoTo
  <2>. QED  BY <2>1, <2>2, <2>3, <2>4, <2>5 DEF Next, Step, L!Next
<1>. QED  BY <1>1, <1>2, LockCorrect, PTL DEF Spec, ImplementsRwLock, L!Spec

-----------------------------------------------------------------------------
(* seq_lock *)

\* Storing ends on the version after the one it begins with.
LEMMA VersionArithmetic ==
  ASSUME NEW s \in Nat
  PROVE  /\ StoreOf(s) \in Nat
         /\ IsEven(s) <=> ~IsEven(s + 1)
         /\ IsEven(s) => StoreOf(s + 1) = StoreOf(s) + 1
         /\ ~IsEven(s) => StoreOf(s + 1) = StoreOf(s)
BY DEF StoreOf, IsEven

\* Before the first store the version is 0 and every word belongs to it.
LEMMA VersionInvInit ==
  ASSUME SeqInit
  PROVE  VersionInv
<1>1. IsEven(0) /\ StoreOf(0) = 0
  BY DEF IsEven, StoreOf
<1>. QED  BY <1>1 DEF SeqInit, VersionInv, SeqTypeOK, WriterInv, ReaderInv

\* The writer's steps change what a reader relies on only together with m_seq,
\* or while m_seq is odd.
LEMMA WriterStepInv ==
  ASSUME VersionInv, Store \/ StoreStep
  PROVE  VersionInv'
<1>. USE DEF VersionInv
<1>0. m_seq \in Nat /\ UNCHANGED readerVars
  BY DEF SeqTypeOK, Store, StoreStep, StoreWord, StoreEnd
<1>1. CASE Store
  <2>1. SeqTypeOK'
    BY <1>1 DEF Store, SeqTypeOK, readerVars
  <2>2. WriterInv'
    BY <1>0, <1>1, VersionArithmetic DEF Store, WriterInv
  <2>3. ReaderInv'
    BY <1>0, <1>1 DEF Store, ReaderInv, readerVars, SeqTypeOK
  <2>. QED  BY <2>1, <2>2, <2>3
<1>2. ASSUME NEW w \in Words, StoreWord(w)
      PROVE  VersionInv'
  <2>1. SeqTypeOK'
    BY <1>0, <1>2, VersionArithmetic DEF StoreWord, SeqTypeOK, readerVars
  <2>2. WriterInv'
    BY <1>0, <1>2 DEF StoreWord, WriterInv, SeqTypeOK
  <2>3. ReaderInv'
    BY <1>0, <1>2 DEF StoreWord, ReaderInv, readerVars, SeqTypeOK
  <2>. QED  BY <2>1, <2>2, <2>3
<1>3. CASE StoreEnd
  <2>1. SeqTypeOK'
    BY <1>3 DEF StoreEnd, SeqTypeOK, readerVars
  <2>2. WriterInv'
    BY <1>0, <1>3, VersionArithmetic DEF StoreEnd, WriterInv
  <2>3. ReaderInv'
    BY <1>0, <1>3 DEF StoreEnd, ReaderInv, readerVars, SeqTypeOK
  <2>. QED  BY <2>1, <2>2, <2>3
<1>. QED  BY <1>1, <1>2, <1>3 DEF StoreStep

\* A step of load changes only what that reader has copied.
LEMMA ReaderStepInv ==
  ASSUME VersionInv, NEW r \in Loaders, Load(r) \/ LoadStep(r)
  PROVE  VersionInv'
<1>. USE DEF VersionInv
<1>0. m_seq \in Nat /\ UNCHANGED writerVars
  BY DEF SeqTypeOK, Load, LoadStep, LoadWord, LoadEnd
<1>a. WriterInv'
  BY <1>0 DEF WriterInv, writerVars
<1>1. CASE Load(r)
  <2>1. SeqTypeOK'
    BY <1>1 DEF Load, SeqTypeOK, writerVars
  <2>2. ReaderInv'
    BY <1>0, <1>1 DEF Load, ReaderInv, writerVars, SeqTypeOK
  <2>. QED  BY <1>a, <2>1, <2>2
<1>2. ASSUME NEW w \in Words, LoadWord(r, w)
      PROVE  VersionInv'
  <2>1. SeqTypeOK'
    BY <1>2 DEF LoadWord, SeqTypeOK, writerVars
  <2>2. IsEven(m_seq) => m_val[w] = StoreOf(m_seq)
    BY DEF WriterInv
  <2>3. ReaderInv'
    BY <1>0, <1>2, <2>2 DEF LoadWord, ReaderInv, writerVars, SeqTypeOK
  <2>. QED  BY <1>a, <2>1, <2>3
<1>3. CASE LoadEnd(r)
  <2>1. SeqTypeOK'
    BY <1>3 DEF LoadEnd, SeqTypeOK, writerVars
  <2>2. ReaderInv'
    BY <1>0, <1>3 DEF LoadEnd, ReaderInv, writerVars, SeqTypeOK
  <2>. QED  BY <1>a, <2>1, <2>2
<1>. QED  BY <1>1, <1>2, <1>3 DEF LoadStep

\* m_seq is odd exactly while a store runs, the words are those of the current
\* version while it is even, and readers of a current version have copied them.
THEOREM VersionsCorrect == SeqSpec => []VersionInv
<1>1. SeqInit => VersionInv
  BY VersionInvInit
<1>2. VersionInv /\ [SeqNext]_seqVars => VersionInv'
  <2>. SUFFICES ASSUME VersionInv, [SeqNext]_seqVars PROVE VersionInv'
    OBVIOUS
  <2>1. CASE UNCHANGED seqVars
    BY <2>1 DEF seqVars, VersionInv, SeqTypeOK, WriterInv, ReaderInv
  <2>. QED  BY <2>1, WriterStepInv, ReaderStepInv DEF SeqNext
<1>. QED  BY <1>1, <1>2, PTL DEF SeqSpec

\* A load that returns true on an even version has the value of that version
\* in every word, whatever the order in which words are written and copied.
THEOREM EvenLoadsCorrect == SeqSpec => []EvenLoadsExact
<1>1. VersionInv => EvenLoadsExact
  <2>. SUFFICES ASSUME VersionInv, NEW r \in Loaders, lpc[r] = "success", IsEven(seq[r])
                PROVE  val[r] = Version(StoreOf(seq[r]))
    BY DEF EvenLoadsExact
  <2>1. val[r] \in [Words -> Nat] /\ \A w \in Words : val[r][w] = StoreOf(seq[r])
    BY DEF VersionInv, SeqTypeOK, ReaderInv
  <2>. QED  BY <2>1 DEF Version
<1>. QED  BY <1>1, VersionsCorrect, PTL
=============================================================================
