---------------------------- MODULE QueuesProofs ----------------------------
(***************************************************************************)
(* Proofs about the queues of MCQueues and the shared memory they are put  *)
(* into, for any number of producers, consumers, processes and objects and *)
(* any size of the rings.                                                  *)
(***************************************************************************)
EXTENDS MCQueues, Sequences, FiniteSetTheorems, TLAPS

-----------------------------------------------------------------------------
(* SharedMemory *)

\* A process has a descriptor of an object from shm_open on, and a segment
\* keeps it.
HoldsInv == \A p \in Producers :
  /\ pPc[p] = "idle" => pFd[p] = pMapped[p]
  /\ pPc[p] # "idle" => pMapped[p] = Null
  /\ pPc[p] \in {"open", "unlink"} => pFd[p] = Null
  /\ pPc[p] \in {"stat", "truncate", "map"} => pFd[p] \in Objects
  /\ pPc[p] # "idle" \/ pMapped[p] # Null => pBytes[p] \in SegmentSizes

\* As long as all ask for one size and leave the name alone, every descriptor
\* is one of the named object, which has that size or still none; it has it
\* when a process has looked at it or set it.
TogetherInv == ~pApart => \A p \in Producers :
  /\ pPc[p] # "unlink"
  /\ pFd[p] # Null => pFd[p] = pNamed
  /\ pFd[p] # Null /\ pPc[p] \in {"idle", "map"} => pStSize[pNamed] = pBytes[p]
  /\ pNamed # Null /\ pStSize[pNamed] # 0 /\ pBytes[p] # 0 => pStSize[pNamed] = pBytes[p]
  /\ \A q \in Producers : pBytes[p] # 0 /\ pBytes[q] # 0 => pBytes[p] = pBytes[q]

ShmInv == P!TypeOK /\ HoldsInv /\ TogetherInv

\* There is an object for a new name: the caller of shm_open has none open.
LEMMA FreeObject ==
  ASSUME ShmInv, NEW p \in Producers, pPc[p] = "open", pNamed = Null
  PROVE  \E o \in Objects : ~P!Alive(o)
<1>. SUFFICES ASSUME \A o \in Objects : P!Alive(o) PROVE FALSE
  OBVIOUS
<1>. DEFINE Q == {q \in Producers : pFd[q] \in Objects}
            f == [q \in Q |-> pFd[q]]
<1>1. \A o \in Objects : \E q \in Q : pFd[q] = o
  <2>. SUFFICES ASSUME NEW o \in Objects PROVE \E q \in Q : pFd[q] = o
    OBVIOUS
  <2>1. PICK q \in Producers : o = pFd[q] \/ o = pMapped[q]
    BY ObjectsAssumption DEF P!Alive
  <2>2. o = pFd[q]
    BY <2>1, ObjectsAssumption DEF ShmInv, HoldsInv
  <2>. QED  BY <2>2
<1>2. f \in Surjection(Q, Objects)
  BY <1>1 DEF Surjection
<1>3. IsFiniteSet(Producers \ {p}) /\ Cardinality(Producers \ {p}) = Cardinality(Producers) - 1
  BY ObjectsAssumption, FS_RemoveElement
<1>4. Q \in SUBSET (Producers \ {p})
  BY ObjectsAssumption DEF ShmInv, HoldsInv
<1>. HIDE DEF Q, f
<1>5. IsFiniteSet(Q) /\ Cardinality(Q) <= Cardinality(Producers) - 1
  BY <1>3, <1>4, FS_Subset
<1>6. Cardinality(Objects) <= Cardinality(Q)
  BY <1>2, <1>5, FS_Surjection
<1>7. Cardinality(Objects) \in Nat /\ Cardinality(Producers) \in Nat /\ Cardinality(Q) \in Nat
  BY <1>5, ObjectsAssumption, FS_CardinalityType
<1>. QED  BY <1>5, <1>6, <1>7, ObjectsAssumption

LEMMA ShmInitial == P!Init => ShmInv
BY ObjectsAssumption DEF P!Init, ShmInv, P!TypeOK, HoldsInv, TogetherInv

\* What ends a call or a segment leaves the objects and the other processes.
LEMMA EndedStep ==
  ASSUME ShmInv, NEW p \in Producers, P!Ended(p), UNCHANGED <<pNamed, pStSize, pApart>>
  PROVE  ShmInv'
<1>1. P!TypeOK' /\ HoldsInv'
  BY ObjectsAssumption DEF P!Ended, P!GoTo, ShmInv, P!TypeOK, HoldsInv
<1>2. TogetherInv'
  BY ObjectsAssumption DEF P!Ended, P!GoTo, ShmInv, P!TypeOK, TogetherInv
<1>. QED  BY <1>1, <1>2 DEF ShmInv

LEMMA ShmStep == ShmInv /\ [P!Next]_pVars => ShmInv'
<1>. SUFFICES ASSUME ShmInv, [P!Next]_pVars PROVE ShmInv'
  OBVIOUS
<1>. USE DEF P!GoTo
<1>1. ASSUME NEW p \in Producers, NEW size \in SegmentSizes, P!Call(p, size) PROVE ShmInv'
  <2>1. P!TypeOK' /\ HoldsInv'
    BY <1>1, ObjectsAssumption DEF P!Call, ShmInv, P!TypeOK, HoldsInv
  <2>2. ASSUME ~pApart' PROVE P!SizesInUse \subseteq {0, size}
    BY <1>1, <2>2 DEF P!Call
  <2>3. ASSUME ~pApart', NEW q \in Producers PROVE pBytes[q] \in {0, size}
    BY <2>2, <2>3, Zenon DEF P!SizesInUse
  <2>4. ASSUME ~pApart', pNamed # Null PROVE pStSize[pNamed] \in {0, size}
    <3>1. pNamed \in Objects \cap {pNamed}
      BY <2>4 DEF ShmInv, P!TypeOK
    <3>. QED  BY <2>2, <2>4, <3>1, Zenon DEF P!SizesInUse
  <2>5. TogetherInv'
    BY <1>1, <2>3, <2>4, ObjectsAssumption DEF P!Call, ShmInv, P!TypeOK, HoldsInv, TogetherInv
  <2>. QED  BY <2>1, <2>5 DEF ShmInv
<1>2. ASSUME NEW p \in Producers, P!ShmOpen(p) PROVE ShmInv'
  <2>1. CASE pNamed # Null
    <3>1. P!TypeOK' /\ HoldsInv'
      BY <1>2, <2>1, ObjectsAssumption DEF P!ShmOpen, ShmInv, P!TypeOK, HoldsInv
    <3>2. TogetherInv'
      BY <1>2, <2>1, ObjectsAssumption DEF P!ShmOpen, ShmInv, P!TypeOK, TogetherInv
    <3>. QED  BY <3>1, <3>2 DEF ShmInv
  <2>2. CASE pNamed = Null
    <3>. DEFINE free == CHOOSE o \in Objects : ~P!Alive(o)
    <3>5. \E o \in Objects : ~P!Alive(o)
      BY <1>2, <2>2, FreeObject DEF P!ShmOpen
    <3>6. pNamed' = free
      BY <1>2, <2>2 DEF P!ShmOpen
    <3>7. free \in Objects /\ ~P!Alive(free)
      BY <3>5, Zenon
    <3>. PICK o \in Objects : o = free /\ ~P!Alive(o)
      BY <3>7
    <3>. HIDE DEF free
    <3>1. /\ pStSize' = [pStSize EXCEPT ![o] = 0]
          /\ pFd' = [pFd EXCEPT ![p] = o] /\ pPc' = [pPc EXCEPT ![p] = "stat"] /\ pPc[p] = "open"
          /\ UNCHANGED <<pBytes, pAttempt, pMapped, pNew, pApart>>
      BY <1>2, <2>2, <3>6 DEF P!ShmOpen
    <3>2. P!TypeOK' /\ HoldsInv'
      BY <3>1, <3>6, ObjectsAssumption DEF ShmInv, P!TypeOK, HoldsInv
    <3>3. TogetherInv'
      BY <2>2, <3>1, <3>6, ObjectsAssumption DEF ShmInv, P!TypeOK, TogetherInv
    <3>. QED  BY <3>2, <3>3 DEF ShmInv
  <2>. QED  BY <2>1, <2>2
<1>3. ASSUME NEW p \in Producers, P!Fstat(p) PROVE ShmInv'
  <2>1. pFd[p] \in Objects /\ pBytes[p] \in SegmentSizes /\ pPc[p] = "stat"
    BY <1>3 DEF P!Fstat, ShmInv, HoldsInv
  <2>2. pBytes[p] \in Nat \ {0}
    BY <2>1, ObjectsAssumption, Zenon
  <2>3. P!TypeOK' /\ HoldsInv'
    BY <1>3, <2>1, ObjectsAssumption DEF P!Fstat, ShmInv, P!TypeOK, HoldsInv
  <2>4. ASSUME ~pApart, pStSize[pFd[p]] # 0 PROVE pStSize[pNamed] = pBytes[p] /\ ~P!TooSmall(p)
    <3>1. pFd[p] # Null /\ pFd[p] = pNamed
      BY <2>1, <2>4, ObjectsAssumption DEF ShmInv, TogetherInv
    <3>2. pStSize[pNamed] = pBytes[p]
      BY <2>2, <2>4, <3>1 DEF ShmInv, TogetherInv
    <3>. QED  BY <2>2, <3>1, <3>2 DEF P!TooSmall
  <2>5. TogetherInv'
    <3>. HIDE DEF P!TooSmall
    <3>. QED  BY <1>3, <2>4 DEF P!Fstat, ShmInv, P!TypeOK, TogetherInv
  <2>. QED  BY <2>3, <2>5 DEF ShmInv
<1>4. ASSUME NEW p \in Producers, P!Retry(p) PROVE ShmInv'
  BY <1>4, ObjectsAssumption DEF P!Retry, ShmInv, P!TypeOK, HoldsInv, TogetherInv
<1>5. ASSUME NEW p \in Producers, P!Ftruncate(p) PROVE ShmInv'
  <2>. PICK o \in Objects : o = pFd[p]
    BY <1>5 DEF P!Ftruncate, ShmInv, HoldsInv
  <2>1. pBytes[p] \in SegmentSizes
    BY <1>5 DEF P!Ftruncate, ShmInv, HoldsInv
  <2>2. pBytes[p] # 0
    BY <2>1, ObjectsAssumption, Zenon
  <2>3. /\ pStSize' = [pStSize EXCEPT ![o] = pBytes[p]]
        /\ pPc' = [pPc EXCEPT ![p] = "map"] /\ pPc[p] = "truncate"
        /\ UNCHANGED <<pNamed, pBytes, pAttempt, pFd, pMapped, pApart>> /\ pNew' = [pNew EXCEPT ![p] = TRUE]
    BY <1>5 DEF P!Ftruncate
  <2>4. P!TypeOK'
    BY <2>1, <2>3 DEF ShmInv, P!TypeOK
  <2>5. HoldsInv'
    BY <2>3, ObjectsAssumption DEF ShmInv, P!TypeOK, HoldsInv
  <2>6. ASSUME NEW q \in Producers, pFd[q] # Null, pPc[q] = "idle" PROVE pBytes[q] # 0
    <3>1. pBytes[q] \in SegmentSizes
      BY <2>6 DEF ShmInv, HoldsInv
    <3>. QED  BY <3>1, ObjectsAssumption, Zenon
  <2>7. ASSUME NEW q \in Producers, pPc[q] = "map" PROVE pBytes[q] # 0
    <3>1. pBytes[q] \in SegmentSizes
      BY <2>7 DEF ShmInv, HoldsInv
    <3>. QED  BY <3>1, ObjectsAssumption, Zenon
  <2>8. TogetherInv'
    <3>. SUFFICES ASSUME ~pApart PROVE TogetherInv'
      BY <2>3 DEF TogetherInv
    <3>1. o = pNamed /\ o # Null
      BY ObjectsAssumption DEF ShmInv, TogetherInv
    <3>2. pStSize'[pNamed] = pBytes[p]
      BY <2>3, <3>1 DEF ShmInv, P!TypeOK
    <3>. QED  BY <2>2, <2>3, <2>6, <2>7, <3>2 DEF ShmInv, P!TypeOK, TogetherInv
  <2>. QED  BY <2>4, <2>5, <2>8 DEF ShmInv
<1>6. ASSUME NEW p \in Producers, P!Map(p) PROVE ShmInv'
  BY <1>6, ObjectsAssumption DEF P!Map, ShmInv, P!TypeOK, HoldsInv, TogetherInv
<1>7. ASSUME NEW p \in Producers, P!StillTooSmall(p) \/ P!Fails(p) \/ P!Crash(p) \/ P!close_shared_memory(p)
      PROVE ShmInv'
  BY <1>7, EndedStep DEF P!StillTooSmall, P!Fails, P!Crash, P!close_shared_memory
<1>8. ASSUME NEW p \in Producers, P!unlink_shared_memory(p) PROVE ShmInv'
  <2>1. P!TypeOK' /\ HoldsInv'
    BY <1>8 DEF P!unlink_shared_memory, P!processVars, ShmInv, P!TypeOK, HoldsInv
  <2>2. TogetherInv'
    BY <1>8 DEF P!unlink_shared_memory, P!processVars, ShmInv, P!TypeOK, TogetherInv
  <2>. QED  BY <2>1, <2>2 DEF ShmInv
<1>9. ASSUME UNCHANGED pVars PROVE ShmInv'
  BY <1>9 DEF pVars, ShmInv, P!TypeOK, HoldsInv, TogetherInv
<1>. QED  BY <1>1, <1>2, <1>3, <1>4, <1>5, <1>6, <1>7, <1>8, <1>9 DEF P!Next, P!CallStep

\* A behaviour of MCQueues is one of the shared memory, if only one in which
\* nothing happens.
LEMMA ShmBehaviour == MCSpec => P!Init /\ [][P!Next]_pVars
<1>1. MCInit => P!Init
  BY DEF MCInit
<1>2. [MCNext]_mcVars => [P!Next]_pVars
  BY DEF MCNext, mcVars
<1>. QED  BY <1>1, <1>2, PTL DEF MCSpec

\* Processes that ask create_or_open_shared_memory for one size and leave the
\* name alone share one object of that size, however many raced to create and
\* to size it, whatever failed and whoever died.
THEOREM OneObjectShared == MCSpec => []SegmentsShared
<1>1. ShmInv => SegmentsShared
  BY ObjectsAssumption DEF SegmentsShared, P!SegmentsShared, ShmInv, HoldsInv, TogetherInv
<1>. QED  BY <1>1, ShmBehaviour, ShmInitial, ShmStep, PTL

-----------------------------------------------------------------------------
(* Positions of a ring *)

\* Division with remainder.
LEMMA DivMod ==
  ASSUME NEW p \in Int, NEW n \in Nat, n > 0
  PROVE  p \div n \in Int /\ p % n \in 0..n-1 /\ p = n * (p \div n) + (p % n)
OBVIOUS

\* Multiples of n that differ do so by at least n.
LEMMA Multiples ==
  ASSUME NEW n \in Nat, n > 0, NEW a \in Int, NEW b \in Int, n * a < n * b
  PROVE  n * a + n <= n * b
<1>1. a < b
  OBVIOUS
<1>2. n * (b - a - 1) >= 0
  BY <1>1
<1>3. n * (b - a - 1) = n * b - n * a - n
  OBVIOUS
<1>. QED  BY <1>2, <1>3

\* Two different positions in the same place are at least a lap apart.
LEMMA LapApart ==
  ASSUME NEW n \in Nat, n > 0, NEW p \in Int, NEW q \in Int, p % n = q % n, p < q
  PROVE  p + n <= q
<1>1. PICK a \in Int : p = n * a + (p % n)
  BY DivMod
<1>2. PICK b \in Int : q = n * b + (q % n)
  BY DivMod
<1>3. n * a \in Int /\ n * b \in Int /\ p % n \in Int
  OBVIOUS
<1>4. n * a < n * b
  BY <1>1, <1>2, <1>3
<1>5. n * a + n <= n * b
  BY <1>4, Multiples
<1>. QED  BY <1>1, <1>2, <1>3, <1>5

\* Division with remainder leaves one remainder.
LEMMA Unique ==
  ASSUME NEW n \in Nat, n > 0, NEW r \in 0..n-1, NEW s \in 0..n-1,
         NEW a \in Int, NEW b \in Int, n * a + r = n * b + s
  PROVE  r = s
<1>1. CASE n * a < n * b
  <2>1. n * a + n <= n * b
    BY <1>1, Multiples
  <2>. QED  BY <2>1
<1>2. CASE n * b < n * a
  <2>1. n * b + n <= n * a
    BY <1>2, Multiples
  <2>. QED  BY <2>1
<1>. QED  BY <1>1, <1>2

\* The position a lap later is in the same place.
LEMMA LapLater ==
  ASSUME NEW n \in Nat, n > 0, NEW p \in Int
  PROVE  (p + n) % n = p % n
<1>1. PICK a \in Int : p = n * a + (p % n)
  BY DivMod
<1>2. PICK q \in Int : q = p + n
  OBVIOUS
<1>3. PICK b \in Int : q = n * b + (q % n)
  BY DivMod
<1>4. p % n \in 0..n-1 /\ q % n \in 0..n-1
  BY DivMod
<1>5. n * (a + 1) = n * a + n /\ n * a \in Int /\ a + 1 \in Int
  OBVIOUS
<1>6. n * (a + 1) + (p % n) = n * b + (q % n)
  BY <1>1, <1>2, <1>3, <1>4, <1>5
<1>7. p % n = q % n
  BY <1>4, <1>5, <1>6, Unique
<1>. QED  BY <1>2, <1>7

\* What is below the modulus is its own remainder.
LEMMA SmallMod ==
  ASSUME NEW n \in Nat, NEW a \in Nat, a < n
  PROVE  a % n = a
<1>1. n > 0 /\ a \in 0..n-1 /\ n * 0 + a = a /\ 0 \in Int
  OBVIOUS
<1>2. PICK b \in Int : a = n * b + (a % n)
  BY <1>1, DivMod
<1>3. a % n \in 0..n-1
  BY <1>1, DivMod
<1>4. n * 0 + a = n * b + (a % n)
  BY <1>1, <1>2
<1>. QED  BY <1>1, <1>3, <1>4, Unique

LEMMA SizeNat == Size \in Nat /\ Size > 0 /\ MaxPos \in Nat /\ Modulus \in Nat /\ MaxPos < Modulus
BY RingAssumption

-----------------------------------------------------------------------------
(* SpmcMessageQueue *)

\* How far the writer has been into the ring.
Reached == IF gWpc = "idle" THEN gPos ELSE gPos + 1

\* It has been in, or beyond, the slot of a message that it wrote before.
Passed(pos) == Reached > pos + Size

\* The slot of a message holds it until the writer comes to it again, and
\* after that nothing older.
MessagesInv ==
  /\ \A pos \in 0..(gPos - 1) :
       /\ pos + Size >= Reached => gBuffer[pos % Size] = pos
       /\ gBuffer[pos % Size] = G!Torn \/ gBuffer[pos % Size] >= pos
  /\ gWpc = "store" => gBuffer[gPos % Size] = gPos
  /\ gWpc # "idle" => gPos < MaxPos

\* What a consumer has copied so far is its message or, if it was overtaken,
\* torn or newer.
CopiesInv == \A c \in Consumers :
  /\ gRead[c] <= gPos
  /\ gCpc[c] \in {"begin", "copy"} => gRead[c] < gPos
  /\ gCpc[c] = "copy" => \/ gData[c] = gRead[c]
                         \/ (Passed(gRead[c]) /\ (gData[c] = G!Torn \/ gData[c] > gRead[c]))

BroadcastInv == G!TypeOK /\ MessagesInv /\ CopiesInv

LEMMA BroadcastInit == G!Init => BroadcastInv
BY SizeNat DEF G!Init, G!Torn, BroadcastInv, G!TypeOK, MessagesInv, CopiesInv

LEMMA SlotType == \A pos \in Int : pos % Size \in 0..Size-1
BY SizeNat, DivMod

\* Once overtaken, a consumer stays so while it reads.
LEMMA OvertakenStays ==
  ASSUME BroadcastInv, gPos' \in Nat, gPos' >= gPos, Reached' \in Nat, Reached' >= Reached,
         UNCHANGED <<gRead, gCpc, gData>>
  PROVE  CopiesInv'
<1>1. gPos \in Nat /\ \A c \in Consumers : gRead[c] \in Nat
  BY SizeNat DEF BroadcastInv, G!TypeOK
<1>2. Reached \in Nat
  BY <1>1 DEF Reached
<1>3. \A c \in Consumers : Passed(gRead[c]) => Reached' > gRead[c] + Size
  BY <1>1, <1>2, SizeNat DEF Passed
<1>4. \A c \in Consumers : Passed(gRead[c]) => Passed(gRead[c])'
  BY <1>3 DEF Passed
<1>. QED  BY <1>1, <1>4 DEF BroadcastInv, CopiesInv

\* The writer's steps.
LEMMA WriterSteps ==
  ASSUME BroadcastInv, G!TryEnqueue \/ G!Written \/ G!Store
  PROVE  BroadcastInv'
<1>. USE SizeNat
<1>1. /\ gPos \in Nat /\ gPos <= MaxPos /\ gWpc \in {"idle", "write", "store"}
      /\ gBuffer \in [0..Size-1 -> G!Torn..MaxPos]
  BY DEF BroadcastInv, G!TypeOK, G!Torn
<1>2. \A pos \in Int : pos % Size \in 0..Size-1
  BY SlotType
<1>3. \A pos \in 0..(gPos - 1) : pos % Size = gPos % Size => pos + Size <= gPos
  BY <1>1, LapApart
<1>4. MessagesInv
  BY DEF BroadcastInv
<1>5. CASE G!TryEnqueue
  <2>1. /\ gWpc = "idle" /\ gPos < MaxPos /\ gWpc' = "write" /\ gPos' = gPos
        /\ gBuffer' = [gBuffer EXCEPT ![gPos % Size] = G!Torn] /\ UNCHANGED <<gRead, gCpc, gData>>
    BY <1>5 DEF G!TryEnqueue, G!Slot, G!Torn
  <2>2. Reached = gPos /\ Reached' = gPos + 1
    BY <1>1, <2>1 DEF Reached
  <2>3. MessagesInv'
    <3>1. ASSUME NEW pos \in 0..(gPos - 1)
          PROVE  /\ pos + Size >= gPos + 1 => gBuffer'[pos % Size] = pos
                 /\ gBuffer'[pos % Size] = G!Torn \/ gBuffer'[pos % Size] >= pos
      <4>1. pos % Size \in 0..Size-1 /\ gPos % Size \in 0..Size-1 /\ pos \in Int
        BY <1>1, <1>2
      <4>2. CASE pos % Size = gPos % Size
        BY <1>1, <1>3, <2>1, <4>1, <4>2
      <4>3. CASE pos % Size # gPos % Size
        BY <1>1, <1>4, <2>1, <2>2, <4>1, <4>3 DEF MessagesInv
      <4>. QED  BY <4>2, <4>3
    <3>. QED  BY <2>1, <2>2, <3>1 DEF MessagesInv
  <2>4. CopiesInv'
    BY <1>1, <2>1, <2>2, OvertakenStays
  <2>5. G!TypeOK'
    <3>1. gBuffer' \in [0..Size-1 -> G!Torn..MaxPos]
      BY <1>1, <2>1 DEF G!Torn
    <3>. QED  BY <2>1, <3>1 DEF BroadcastInv, G!TypeOK, G!Torn
  <2>. QED  BY <2>3, <2>4, <2>5 DEF BroadcastInv
<1>6. CASE G!Written
  <2>1. /\ gWpc = "write" /\ gWpc' = "store" /\ gPos' = gPos
        /\ gBuffer' = [gBuffer EXCEPT ![gPos % Size] = gPos] /\ UNCHANGED <<gRead, gCpc, gData>>
    BY <1>6 DEF G!Written, G!Slot, G!Torn
  <2>2. Reached = gPos + 1 /\ Reached' = gPos + 1
    BY <1>1, <2>1 DEF Reached
  <2>3. MessagesInv'
    <3>1. ASSUME NEW pos \in 0..(gPos - 1)
          PROVE  /\ pos + Size >= gPos + 1 => gBuffer'[pos % Size] = pos
                 /\ gBuffer'[pos % Size] = G!Torn \/ gBuffer'[pos % Size] >= pos
      <4>1. pos % Size \in 0..Size-1 /\ gPos % Size \in 0..Size-1 /\ pos \in Int
        BY <1>1, <1>2
      <4>2. CASE pos % Size = gPos % Size
        BY <1>1, <1>3, <2>1, <4>1, <4>2
      <4>3. CASE pos % Size # gPos % Size
        BY <1>1, <1>4, <2>1, <2>2, <4>1, <4>3 DEF MessagesInv
      <4>. QED  BY <4>2, <4>3
    <3>2. gBuffer'[gPos % Size] = gPos /\ gPos < MaxPos
      BY <1>1, <1>2, <1>4, <2>1 DEF MessagesInv
    <3>. QED  BY <2>1, <2>2, <3>1, <3>2 DEF MessagesInv
  <2>4. CopiesInv'
    BY <1>1, <2>1, <2>2, OvertakenStays
  <2>5. G!TypeOK'
    <3>1. gBuffer' \in [0..Size-1 -> G!Torn..MaxPos]
      BY <1>1, <2>1 DEF G!Torn
    <3>. QED  BY <2>1, <3>1 DEF BroadcastInv, G!TypeOK, G!Torn
  <2>. QED  BY <2>3, <2>4, <2>5 DEF BroadcastInv
<1>7. CASE G!Store
  <2>1. /\ gWpc = "store" /\ gWpc' = "idle" /\ gPos' = gPos + 1 /\ gBuffer' = gBuffer
        /\ UNCHANGED <<gRead, gCpc, gData>>
    BY <1>7 DEF G!Store
  <2>2. Reached = gPos + 1 /\ Reached' = gPos + 1
    BY <1>1, <2>1 DEF Reached
  <2>3. gPos < MaxPos /\ gBuffer[gPos % Size] = gPos
    BY <1>4, <2>1 DEF MessagesInv
  <2>4. MessagesInv'
    <3>1. ASSUME NEW pos \in 0..gPos
          PROVE  /\ pos + Size >= gPos + 1 => gBuffer[pos % Size] = pos
                 /\ gBuffer[pos % Size] = G!Torn \/ gBuffer[pos % Size] >= pos
      <4>1. CASE pos = gPos
        BY <1>1, <2>3, <4>1
      <4>2. CASE pos # gPos
        <5>1. pos \in 0..(gPos - 1)
          BY <1>1, <4>2
        <5>. QED  BY <1>4, <2>2, <5>1 DEF MessagesInv
      <4>. QED  BY <4>1, <4>2
    <3>2. 0..(gPos' - 1) = 0..gPos
      BY <1>1, <2>1
    <3>. QED  BY <2>1, <2>2, <3>1, <3>2 DEF MessagesInv
  <2>5. CopiesInv'
    BY <1>1, <2>1, <2>2, OvertakenStays
  <2>6. G!TypeOK'
    <3>1. gPos' \in 0..MaxPos
      BY <1>1, <2>1, <2>3
    <3>. QED  BY <2>1, <3>1 DEF BroadcastInv, G!TypeOK
  <2>. QED  BY <2>4, <2>5, <2>6 DEF BroadcastInv
<1>. QED  BY <1>5, <1>6, <1>7

\* The slot of a message holds it, or the consumer that is to read it was
\* overtaken.
LEMMA SlotOfMessage ==
  ASSUME BroadcastInv, NEW c \in Consumers, gRead[c] < gPos
  PROVE  LET now == gBuffer[gRead[c] % Size]
         IN  /\ now \in G!Torn..MaxPos
             /\ now = gRead[c] \/ (Passed(gRead[c]) /\ (now = G!Torn \/ now > gRead[c]))
<1>. USE SizeNat
<1>1. gPos \in Nat /\ gRead[c] \in 0..(gPos - 1) /\ gRead[c] \in Int /\ Reached \in Nat
  <2>1. gPos \in Nat /\ gRead[c] \in Nat
    BY DEF BroadcastInv, G!TypeOK
  <2>. QED  BY <2>1 DEF Reached
<1>2. gBuffer[gRead[c] % Size] \in G!Torn..MaxPos
  <2>1. gRead[c] % Size \in 0..Size-1
    BY <1>1, SlotType
  <2>. QED  BY <2>1 DEF BroadcastInv, G!TypeOK, G!Torn
<1>4. /\ gRead[c] + Size >= Reached => gBuffer[gRead[c] % Size] = gRead[c]
      /\ gBuffer[gRead[c] % Size] = G!Torn \/ gBuffer[gRead[c] % Size] >= gRead[c]
  BY <1>1 DEF BroadcastInv, MessagesInv
<1>5. gBuffer[gRead[c] % Size] \in Int
  BY <1>2 DEF G!Torn
<1>6. gBuffer[gRead[c] % Size] = gRead[c] \/ Passed(gRead[c])
  BY <1>1, <1>4 DEF Passed
<1>7. \/ gBuffer[gRead[c] % Size] = gRead[c] \/ gBuffer[gRead[c] % Size] = G!Torn
      \/ gBuffer[gRead[c] % Size] > gRead[c]
  BY <1>1, <1>4, <1>5
<1>. QED  BY <1>2, <1>6, <1>7, Zenon

\* What EndCopy delivers.
LEMMA Delivery ==
  ASSUME BroadcastInv, NEW c \in Consumers, G!EndCopy(c)
  PROVE  /\ gData' = [gData EXCEPT ![c] = gData'[c]] /\ gData'[c] \in G!Torn..MaxPos
         /\ gData'[c] = gRead[c] \/ (Passed(gRead[c]) /\ (gData'[c] = G!Torn \/ gData'[c] > gRead[c]))
<1>. DEFINE now == gBuffer[gRead[c] % Size]
<1>1. gRead[c] < gPos /\ (gData[c] = gRead[c] \/ (Passed(gRead[c]) /\ (gData[c] = G!Torn \/ gData[c] > gRead[c])))
  <2>1. gCpc[c] = "copy"
    BY DEF G!EndCopy
  <2>. QED  BY <2>1 DEF BroadcastInv, CopiesInv
<1>2. /\ now \in G!Torn..MaxPos
      /\ now = gRead[c] \/ (Passed(gRead[c]) /\ (now = G!Torn \/ now > gRead[c]))
  BY <1>1, SlotOfMessage
<1>3. gData \in [Consumers -> G!Torn..MaxPos]
  BY DEF BroadcastInv, G!TypeOK, G!Torn
<1>4. PICK d \in IF gData[c] = now THEN {now} ELSE {gData[c], now, G!Torn} : gData' = [gData EXCEPT ![c] = d]
  BY DEF G!EndCopy, G!Slot, G!Torn
<1>. HIDE DEF now
<1>5. d \in {gData[c], now} \/ (gData[c] # now /\ d = G!Torn)
  BY <1>4
<1>6. G!Torn \in G!Torn..MaxPos
  BY SizeNat DEF G!Torn
<1>7. gData'[c] = d
  BY <1>3, <1>4
<1>8. d \in G!Torn..MaxPos
  BY <1>2, <1>3, <1>5, <1>6
<1>9. d = gRead[c] \/ (Passed(gRead[c]) /\ (d = G!Torn \/ d > gRead[c]))
  BY <1>1, <1>2, <1>5
<1>. QED  BY <1>4, <1>7, <1>8, <1>9

LEMMA BroadcastStep == BroadcastInv /\ [G!Next]_gVars => BroadcastInv'
<1>. SUFFICES ASSUME BroadcastInv, [G!Next]_gVars PROVE BroadcastInv'
  OBVIOUS
<1>. USE SizeNat
<1>1. gPos \in Nat /\ gPos \in 0..MaxPos /\ gRead \in [Consumers -> 0..MaxPos]
  BY DEF BroadcastInv, G!TypeOK
<1>2. ASSUME UNCHANGED <<gPos, gBuffer, gWpc>> PROVE MessagesInv'
  BY <1>2 DEF BroadcastInv, MessagesInv, Reached
<1>3. ASSUME NEW c \in Consumers, G!CreateConsumer(c) PROVE BroadcastInv'
  BY <1>1, <1>2, <1>3 DEF G!CreateConsumer, G!writerVars, BroadcastInv, G!TypeOK, CopiesInv, Passed, Reached
<1>4. ASSUME NEW c \in Consumers, G!TryDequeue(c) PROVE BroadcastInv'
  <2>1. gRead[c] < gPos
    BY <1>1, <1>4 DEF G!TryDequeue, BroadcastInv, CopiesInv
  <2>. QED  BY <1>1, <1>2, <1>4, <2>1 DEF G!TryDequeue, G!writerVars, BroadcastInv, G!TypeOK, CopiesInv, Passed, Reached
<1>5. ASSUME NEW c \in Consumers, G!BeginCopy(c) PROVE BroadcastInv'
  <2>1. gRead[c] < gPos
    BY <1>5 DEF G!BeginCopy, BroadcastInv, CopiesInv
  <2>. DEFINE now == gBuffer[gRead[c] % Size]
  <2>3. /\ gCpc' = [gCpc EXCEPT ![c] = "copy"] /\ gData' = [gData EXCEPT ![c] = now]
        /\ UNCHANGED <<gPos, gBuffer, gWpc, gRead>>
    BY <1>5 DEF G!BeginCopy, G!Slot, G!writerVars
  <2>4. now \in G!Torn..MaxPos /\ (now = gRead[c] \/ (Passed(gRead[c]) /\ (now = G!Torn \/ now > gRead[c])))
    BY <2>1, SlotOfMessage
  <2>. HIDE DEF now
  <2>5. G!TypeOK'
    BY <2>3, <2>4 DEF BroadcastInv, G!TypeOK, G!Torn
  <2>6. \A u \in Consumers : Passed(gRead[u])' <=> Passed(gRead[u])
    BY <2>3 DEF Passed, Reached
  <2>7. CopiesInv'
    <3>. SUFFICES ASSUME NEW u \in Consumers PROVE CopiesInv!(u)'
      BY DEF CopiesInv
    <3>1. CASE u = c
      BY <1>1, <2>1, <2>3, <2>4, <2>6, <3>1 DEF BroadcastInv, CopiesInv, G!TypeOK
    <3>2. CASE u # c
      BY <2>3, <2>6, <3>2 DEF BroadcastInv, CopiesInv, G!TypeOK
    <3>. QED  BY <3>1, <3>2
  <2>. QED  BY <1>2, <2>3, <2>5, <2>7 DEF BroadcastInv
<1>6. ASSUME NEW c \in Consumers, G!EndCopy(c) PROVE BroadcastInv'
  <2>1. gRead[c] < gPos /\ gRead[c] \in Nat
    BY <1>1, <1>6 DEF G!EndCopy, BroadcastInv, CopiesInv
  <2>2. gData' = [gData EXCEPT ![c] = gData'[c]] /\ gData'[c] \in G!Torn..MaxPos
    BY <1>6, Delivery
  <2>. DEFINE d == gData'[c]
              r == gRead[c] + 1
  <2>3. /\ gCpc' = [gCpc EXCEPT ![c] = "idle"] /\ gRead' = [gRead EXCEPT ![c] = r]
        /\ UNCHANGED <<gPos, gBuffer, gWpc>>
    BY <1>6 DEF G!EndCopy, G!writerVars
  <2>4. r \in 0..MaxPos /\ r <= gPos
    BY <1>1, <2>1
  <2>5. d \in G!Torn..MaxPos /\ gData' = [gData EXCEPT ![c] = d]
    BY <2>2
  <2>. HIDE DEF d, r
  <2>6. G!TypeOK'
    BY <2>3, <2>4, <2>5 DEF BroadcastInv, G!TypeOK, G!Torn
  <2>7. CopiesInv'
    <3>. SUFFICES ASSUME NEW u \in Consumers PROVE CopiesInv!(u)'
      BY DEF CopiesInv
    <3>1. CASE u = c
      BY <1>1, <2>3, <2>4, <3>1 DEF BroadcastInv, CopiesInv, G!TypeOK
    <3>2. CASE u # c
      <4>1. gRead'[u] = gRead[u] /\ gCpc'[u] = gCpc[u] /\ gData'[u] = gData[u]
        BY <2>3, <2>5, <3>2 DEF BroadcastInv, G!TypeOK
      <4>2. Passed(gRead[u])' <=> Passed(gRead[u])
        BY <2>3, <4>1 DEF Passed, Reached
      <4>. QED  BY <2>3, <4>1, <4>2 DEF BroadcastInv, CopiesInv
    <3>. QED  BY <3>1, <3>2
  <2>. QED  BY <1>2, <2>3, <2>6, <2>7 DEF BroadcastInv
<1>7. ASSUME UNCHANGED gVars PROVE BroadcastInv'
  BY <1>2, <1>7 DEF gVars, BroadcastInv, G!TypeOK, CopiesInv, Passed, Reached
<1>. QED  BY <1>3, <1>4, <1>5, <1>6, <1>7, WriterSteps DEF G!Next

\* A behaviour of MCQueues is one of the message queue.
LEMMA BroadcastBehaviour == MCSpec => G!Init /\ [][G!Next]_gVars
<1>1. MCInit => G!Init
  BY DEF MCInit
<1>2. [MCNext]_mcVars => [G!Next]_gVars
  BY DEF MCNext, mcVars
<1>. QED  BY <1>1, <1>2, PTL DEF MCSpec

\* The ring of spmc_bounded_message_queue holds the last Size messages, but for
\* the one being written, and no consumer runs ahead of the writer.
THEOREM RingHoldsTheLast == MCSpec => []G!RingHolds
<1>1. BroadcastInv => G!RingHolds
  BY DEF BroadcastInv, MessagesInv, CopiesInv, G!TypeOK, G!RingHolds, G!Slot, Reached
<1>. QED  BY <1>1, BroadcastBehaviour, BroadcastInit, BroadcastStep, PTL

\* spmc_bounded_message_queue: a consumer gets exactly the message that is its
\* turn unless the writer has overtaken it, and then never an older one.
THEOREM MessagesAreDelivered == MCSpec => DeliveredExact
<1>1. BroadcastInv /\ [G!Next]_gVars => [\A c \in Consumers : G!Delivers(c)]_gVars
  <2>. SUFFICES ASSUME BroadcastInv, G!Next, NEW c \in Consumers, gCpc[c] = "copy", gCpc'[c] = "idle"
                PROVE  \/ gData'[c] = gRead[c]
                       \/ G!Overtaken(c) /\ (gData'[c] = G!Torn \/ gData'[c] > gRead[c])
    BY DEF G!Delivers
  <2>1. gCpc \in [Consumers -> {"none", "idle", "begin", "copy"}] /\ gPos \in Nat
    BY SizeNat DEF BroadcastInv, G!TypeOK
  <2>2. G!EndCopy(c)
    BY <2>1 DEF G!Next, G!TryEnqueue, G!Written, G!Store, G!CreateConsumer, G!TryDequeue, G!BeginCopy, G!EndCopy
  <2>3. Passed(gRead[c]) => G!Overtaken(c)
    BY <2>1 DEF Passed, Reached, G!Overtaken
  <2>. QED  BY <2>2, <2>3, Delivery, Zenon
<1>. QED  BY <1>1, BroadcastBehaviour, BroadcastInit, BroadcastStep, PTL
          DEF DeliveredExact, G!DeliveredExact, G!vars, gVars

-----------------------------------------------------------------------------
(* MpscBoundedQueue *)

\* Positions are claimed in order and at most Size + 1 ahead of the consumer.
CountsInv ==
  /\ mTail <= mHead /\ mHead <= mTail + Size + 1
  /\ mCpc # "idle" => mTail < mHead
  /\ \A p \in Producers : /\ mPc[p] # "idle" => mCur[p] <= mHead /\ mItem[p] \in Values
                          /\ mPc[p] = "cas" => mCur[p] <= mTail + Size

\* Until the ring is overrun, every producer that fills a slot has a position
\* of its own among those claimed, and the consumer is at none of them.
OwnersInv == ~mOver =>
  /\ mHead <= mTail + Size
  /\ \A p \in Producers : M!Filling(p) => mTail <= mCur[p] /\ mCur[p] < mHead
  /\ \A p, q \in Producers : M!Filling(p) /\ M!Filling(q) /\ mCur[p] = mCur[q] => p = q
  /\ mCpc # "idle" => \A p \in Producers : M!Filling(p) => mCur[p] # mTail

Filled(pos) == \E p \in Producers : M!Filling(p) /\ mCur[p] = pos

\* And a slot is ready exactly if its item is complete and not yet taken.
ReadyInv == ~mOver =>
  /\ \A pos \in mTail..(mHead - 1) :
       mReady[pos % Size] = TRUE <=> ~Filled(pos) /\ ~(pos = mTail /\ mCpc = "advance")
  /\ \A pos \in mHead..(mTail + Size - 1) : mReady[pos % Size] = FALSE

ClaimsInv == M!TypeOK /\ CountsInv /\ OwnersInv /\ ReadyInv

LEMMA ClaimsInit == M!Init => ClaimsInv
<1>. SUFFICES ASSUME M!Init PROVE ClaimsInv
  OBVIOUS
<1>1. mReady = [s \in 0..Size-1 |-> FALSE] /\ mOver = FALSE /\ mHead = 0 /\ mTail = 0
  BY DEF M!Init, M!Slots
<1>2. M!TypeOK
  <2>1. mReady \in [0..Size-1 -> BOOLEAN] /\ mOver \in BOOLEAN
    BY <1>1, Zenon
  <2>2. 0 \in 0..MaxPos
    BY SizeNat
  <2>. QED  BY <2>1, <2>2 DEF M!Init, M!TypeOK, M!Slots
<1>3. CountsInv /\ OwnersInv
  BY SizeNat DEF M!Init, CountsInv, OwnersInv, M!Filling
<1>4. ReadyInv
  <2>1. \A pos \in mTail..(mHead - 1) : FALSE
    BY <1>1
  <2>2. \A pos \in mHead..(mTail + Size - 1) : pos % Size \in 0..Size-1
    BY <1>1, SlotType
  <2>. QED  BY <1>1, <2>1, <2>2, Zenon DEF ReadyInv
<1>. QED  BY <1>2, <1>3, <1>4 DEF ClaimsInv

\* What the proofs of the steps need to know of the types.
LEMMA ClaimsType ==
  ASSUME ClaimsInv
  PROVE  /\ mHead \in Nat /\ mTail \in Nat /\ mHead <= MaxPos
         /\ mCur \in [Producers -> 0..MaxPos] /\ \A p \in Producers : mCur[p] \in Nat
         /\ mPc \in [Producers -> {"idle", "check", "cas", "write", "ready"}]
         /\ mReady \in [0..Size-1 -> BOOLEAN]
BY SizeNat DEF ClaimsInv, M!TypeOK, M!Slots

\* Two positions within a lap are in different slots.
LEMMA OneLap ==
  ASSUME NEW first \in Nat, NEW a \in first..(first + Size - 1), NEW b \in first..(first + Size - 1),
         a % Size = b % Size
  PROVE  a = b
<1>1. a \in Int /\ b \in Int /\ Size \in Nat /\ Size > 0
  BY SizeNat
<1>2. a < b => a + Size <= b
  BY <1>1, LapApart
<1>3. b < a => b + Size <= a
  BY <1>1, LapApart
<1>. QED  BY <1>1, <1>2, <1>3

\* Steps that neither claim nor fill.
LEMMA LookSteps ==
  ASSUME ClaimsInv, NEW p \in Producers,
         M!Check(p) \/ M!Retry(p) \/ \E v \in Values : M!TryEnqueue(p, v)
  PROVE  ClaimsInv'
<1>. USE ClaimsType, SizeNat
<1>1. /\ UNCHANGED <<mHead, mTail, mData, mReady, mOver, mCpc, mOut>>
      /\ mPc[p] \notin {"write", "ready"} /\ mPc'[p] \notin {"write", "ready"}
      /\ \A u \in Producers \ {p} : mPc'[u] = mPc[u] /\ mCur'[u] = mCur[u] /\ mItem'[u] = mItem[u]
  BY DEF M!Check, M!Retry, M!TryEnqueue, M!GoTo, M!Return, M!ring, ClaimsInv, M!TypeOK
<1>2. \A u \in Producers : /\ M!Filling(u)' <=> M!Filling(u)
                           /\ M!Filling(u) => mCur'[u] = mCur[u]
  BY <1>1 DEF M!Filling
<1>3. M!TypeOK'
  <2>1. /\ mPc' \in [Producers -> {"idle", "check", "cas", "write", "ready"}]
        /\ mItem' \in [Producers -> Values \cup {None}]
    BY DEF M!Check, M!Retry, M!TryEnqueue, M!GoTo, M!Return, ClaimsInv, M!TypeOK
  <2>2. mHead \in 0..MaxPos /\ 0 \in 0..MaxPos
    OBVIOUS
  <2>3. mCur' \in [Producers -> 0..MaxPos]
    BY <2>2 DEF M!Check, M!Retry, M!TryEnqueue, M!GoTo, M!Return
  <2>. QED  BY <1>1, <2>1, <2>3 DEF ClaimsInv, M!TypeOK
<1>4. OwnersInv'
  BY <1>1, <1>2 DEF ClaimsInv, OwnersInv
<1>5. \A pos : Filled(pos)' <=> Filled(pos)
  BY <1>2 DEF Filled
<1>6. ReadyInv'
  BY <1>1, <1>5 DEF ClaimsInv, ReadyInv
<1>7. CountsInv'
  <2>1. ASSUME mPc'[p] # "idle" PROVE mCur'[p] <= mHead /\ mItem'[p] \in Values
    BY <2>1 DEF M!Check, M!Retry, M!TryEnqueue, M!GoTo, M!Return, M!ring, ClaimsInv, CountsInv, M!TypeOK
  <2>2. ASSUME mPc'[p] = "cas" PROVE mCur'[p] <= mTail + Size
    <3>1. M!Check(p) /\ ~M!Full(mCur[p]) /\ mCur'[p] = mCur[p]
      BY <2>2 DEF M!Check, M!Retry, M!TryEnqueue, M!GoTo, M!Return
    <3>2. (mCur[p] - mTail) % Modulus <= Size
      <4>1. (mCur[p] - mTail) % Modulus \in Nat
        BY DivMod
      <4>. QED  BY <3>1, <4>1 DEF M!Full
    <3>3. mCur[p] >= mTail => mCur[p] - mTail = (mCur[p] - mTail) % Modulus
      <4>1. mCur[p] \in Nat /\ mCur[p] <= MaxPos /\ mTail \in Nat
        OBVIOUS
      <4>. QED  BY <4>1, SmallMod
    <3>. QED  BY <3>1, <3>2, <3>3
  <2>. QED  BY <1>1, <2>1, <2>2 DEF ClaimsInv, CountsInv
<1>. QED  BY <1>3, <1>4, <1>6, <1>7 DEF ClaimsInv

\* A position is claimed: it is in nobody else's hands and its slot not ready.
LEMMA ClaimStep ==
  ASSUME ClaimsInv, NEW p \in Producers, M!Claim(p)
  PROVE  ClaimsInv'
<1>. USE ClaimsType, SizeNat
<1>1. /\ mPc[p] = "cas" /\ mCur[p] = mHead /\ mHead < MaxPos /\ mHead' = mHead + 1
      /\ mOver' = (mOver \/ mHead - mTail >= Size) /\ mPc' = [mPc EXCEPT ![p] = "write"]
      /\ UNCHANGED <<mTail, mData, mReady, mCur, mItem, mCpc, mOut>>
  BY DEF M!Claim, M!GoTo
<1>2. M!TypeOK'
  BY <1>1 DEF ClaimsInv, M!TypeOK
<1>3. CountsInv'
  <2>1. mHead <= mTail + Size
    BY <1>1 DEF ClaimsInv, CountsInv
  <2>. QED  BY <1>1, <2>1 DEF ClaimsInv, CountsInv
<1>4. ASSUME ~mOver' PROVE ~mOver /\ mHead < mTail + Size
  <2>1. ~mOver /\ ~(mHead - mTail >= Size)
    BY <1>1, <1>4, Zenon
  <2>. QED  BY <2>1
<1>5. M!Filling(p)' /\ ~M!Filling(p) /\ \A u \in Producers \ {p} : M!Filling(u)' <=> M!Filling(u)
  BY <1>1 DEF M!Filling
<1>6. OwnersInv'
  <2>. SUFFICES ASSUME ~mOver' PROVE OwnersInv!2'
    BY DEF OwnersInv
  <2>1. ~mOver /\ mHead < mTail + Size
    BY <1>4
  <2>2. /\ \A u \in Producers : M!Filling(u) => mTail <= mCur[u] /\ mCur[u] < mHead
        /\ \A u, v \in Producers : M!Filling(u) /\ M!Filling(v) /\ mCur[u] = mCur[v] => u = v
        /\ mCpc # "idle" => \A u \in Producers : M!Filling(u) => mCur[u] # mTail
    BY <2>1 DEF ClaimsInv, OwnersInv
  <2>3. mTail <= mHead /\ (mCpc # "idle" => mTail < mHead)
    BY DEF ClaimsInv, CountsInv
  <2>4. \A u \in Producers : M!Filling(u)' => mTail <= mCur[u] /\ mCur[u] < mHead + 1
    BY <1>1, <1>5, <2>2, <2>3
  <2>5. \A u \in Producers \ {p} : M!Filling(u) => mCur[u] # mCur[p]
    BY <1>1, <2>2
  <2>6. \A u, v \in Producers : M!Filling(u)' /\ M!Filling(v)' /\ mCur[u] = mCur[v] => u = v
    BY <1>5, <2>2, <2>5
  <2>7. mCpc # "idle" => mCur[p] # mTail
    BY <1>1, <2>3
  <2>8. mCpc # "idle" => \A u \in Producers : M!Filling(u)' => mCur[u] # mTail
    BY <1>5, <2>2, <2>7
  <2>9. mHead' <= mTail + Size
    BY <1>1, <2>1
  <2>. QED  BY <1>1, <2>4, <2>6, <2>8, <2>9
<1>7. ReadyInv'
  <2>. SUFFICES ASSUME ~mOver' PROVE ReadyInv!2'
    BY DEF ReadyInv
  <2>. PICK h \in Nat : h = mHead
    OBVIOUS
  <2>1. ~mOver /\ h < mTail + Size /\ mTail <= h
    BY <1>4 DEF ClaimsInv, CountsInv
  <2>2. Filled(h)' /\ \A pos : pos # h => (Filled(pos)' <=> Filled(pos))
    <3>1. mCur'[p] = h /\ \A u \in Producers : mCur'[u] = mCur[u]
      BY <1>1
    <3>. QED  BY <1>5, <3>1 DEF Filled
  <2>3. /\ \A pos \in mTail..(h - 1) :
             mReady[pos % Size] = TRUE <=> ~Filled(pos) /\ ~(pos = mTail /\ mCpc = "advance")
        /\ \A pos \in h..(mTail + Size - 1) : mReady[pos % Size] = FALSE
    BY <2>1, Zenon DEF ClaimsInv, ReadyInv
  <2>4. h \in h..(mTail + Size - 1) /\ \A pos \in (h + 1)..(mTail + Size - 1) : pos \in h..(mTail + Size - 1)
    BY <2>1
  <2>5. mReady[h % Size] = FALSE /\ \A pos \in (h + 1)..(mTail + Size - 1) : mReady[pos % Size] = FALSE
    BY <2>3, <2>4, Zenon
  <2>6. \A pos \in mTail..h : pos = h \/ (pos # h /\ pos \in mTail..(h - 1))
    OBVIOUS
  <2>7. \A pos \in mTail..h :
          mReady[pos % Size] = TRUE <=> ~Filled(pos)' /\ ~(pos = mTail /\ mCpc = "advance")
    BY <2>2, <2>3, <2>5, <2>6, Zenon
  <2>8. mTail..(mHead' - 1) = mTail..h /\ mHead' = h + 1
    BY <1>1
  <2>. QED  BY <1>1, <2>5, <2>7, <2>8, Zenon
<1>. QED  BY <1>2, <1>3, <1>6, <1>7 DEF ClaimsInv

\* A step changes no claim if it leaves the producers that fill and the flags.
LEMMA SameClaims ==
  ASSUME ClaimsInv, UNCHANGED <<mHead, mTail, mReady, mOver, mCur>>,
         \A u \in Producers : M!Filling(u)' <=> M!Filling(u),
         mCpc # "advance", mCpc' # "advance",
         mCpc' # "idle" => mCpc # "idle" \/ (~mOver => ~Filled(mTail))
  PROVE  OwnersInv' /\ ReadyInv'
<1>1. \A pos : Filled(pos)' <=> Filled(pos)
  BY DEF Filled
<1>2. ReadyInv'
  BY <1>1, Zenon DEF ClaimsInv, ReadyInv
<1>3. ~mOver /\ ~Filled(mTail) => \A p \in Producers : M!Filling(p) => mCur[p] # mTail
  BY DEF Filled
<1>4. OwnersInv'
  BY <1>3 DEF ClaimsInv, OwnersInv
<1>. QED  BY <1>2, <1>4

\* The item is written, or the consumer finds a slot ready or moves the item
\* out of it.
LEMMA DataSteps ==
  ASSUME ClaimsInv, (\E p \in Producers : M!Write(p)) \/ M!Move \/ M!TryDequeue
  PROVE  ClaimsInv'
<1>. USE ClaimsType, SizeNat
<1>1. ASSUME NEW p \in Producers, M!Write(p) PROVE ClaimsInv'
  <2>1. /\ mPc[p] = "write" /\ mPc' = [mPc EXCEPT ![p] = "ready"]
        /\ mData' = [mData EXCEPT ![mCur[p] % Size] = mItem[p]]
        /\ UNCHANGED <<mHead, mTail, mReady, mOver, mCur, mItem, mCpc, mOut>>
    BY <1>1 DEF M!Write, M!GoTo, M!Slot
  <2>2. M!TypeOK'
    BY <2>1 DEF ClaimsInv, M!TypeOK
  <2>3. CountsInv'
    BY <2>1 DEF ClaimsInv, CountsInv
  <2>4. \A u \in Producers : M!Filling(u)' <=> M!Filling(u)
    BY <2>1 DEF M!Filling
  <2>5. \A pos : Filled(pos)' <=> Filled(pos)
    BY <2>1, <2>4 DEF Filled
  <2>6. ReadyInv'
    BY <2>1, <2>5, Zenon DEF ClaimsInv, ReadyInv
  <2>7. OwnersInv'
    BY <2>1, <2>4 DEF ClaimsInv, OwnersInv
  <2>. QED  BY <2>2, <2>3, <2>6, <2>7 DEF ClaimsInv
<1>2. ASSUME M!Move PROVE ClaimsInv'
  <2>1. /\ mCpc = "move" /\ mCpc' = "clear" /\ mOut' = mData[mTail % Size]
        /\ mData' = [mData EXCEPT ![mTail % Size] = None]
        /\ UNCHANGED <<mHead, mTail, mReady, mOver, mPc, mCur, mItem>>
    BY <1>2 DEF M!Move, M!producerVars, M!Slot
  <2>2. M!TypeOK'
    <3>1. mTail % Size \in 0..Size-1
      BY SlotType
    <3>. QED  BY <2>1, <3>1 DEF ClaimsInv, M!TypeOK, M!Slots
  <2>3. CountsInv'
    BY <2>1 DEF ClaimsInv, CountsInv
  <2>4. OwnersInv' /\ ReadyInv'
    BY <2>1, SameClaims DEF M!Filling
  <2>. QED  BY <2>2, <2>3, <2>4 DEF ClaimsInv
<1>3. ASSUME M!TryDequeue PROVE ClaimsInv'
  <2>1. /\ mCpc = "idle" /\ mCpc' = "move" /\ mReady[mTail % Size] /\ mHead # mTail
        /\ UNCHANGED <<mHead, mTail, mReady, mData, mOver, mPc, mCur, mItem, mOut>>
    BY <1>3 DEF M!TryDequeue, M!ring, M!producerVars, M!Slot
  <2>2. M!TypeOK'
    BY <2>1 DEF ClaimsInv, M!TypeOK
  <2>3. mTail < mHead
    BY <2>1 DEF ClaimsInv, CountsInv
  <2>4. CountsInv'
    BY <2>1, <2>3 DEF ClaimsInv, CountsInv
  <2>5. mTail \in mTail..(mHead - 1)
    BY <2>3
  <2>6. mReady[mTail % Size] = TRUE
    <3>1. mTail % Size \in 0..Size-1
      BY SlotType
    <3>. QED  BY <2>1, <3>1, Zenon
  <2>7. ~mOver => ~Filled(mTail)
    BY <2>5, <2>6, Zenon DEF ClaimsInv, ReadyInv
  <2>8. OwnersInv' /\ ReadyInv'
    BY <2>1, <2>7, SameClaims DEF M!Filling
  <2>. QED  BY <2>2, <2>4, <2>8 DEF ClaimsInv
<1>. QED  BY <1>1, <1>2, <1>3

\* A slot becomes ready as its producer leaves it.
LEMMA ReadyStep ==
  ASSUME ClaimsInv, NEW p \in Producers, M!SetReady(p)
  PROVE  ClaimsInv'
<1>. USE ClaimsType, SizeNat
<1>. PICK c \in Nat : c = mCur[p]
  OBVIOUS
<1>1. /\ mPc[p] = "ready" /\ mPc' = [mPc EXCEPT ![p] = "idle"] /\ mCur' = [mCur EXCEPT ![p] = 0]
      /\ mItem' = [mItem EXCEPT ![p] = None] /\ mReady' = [mReady EXCEPT ![c % Size] = TRUE]
      /\ UNCHANGED <<mHead, mTail, mData, mOver, mCpc, mOut>>
  BY DEF M!SetReady, M!Return, M!GoTo, M!Slot
<1>2. c % Size \in 0..Size-1 /\ \A pos \in Int : pos % Size \in 0..Size-1
  BY SlotType
<1>3. M!TypeOK'
  <2>1. mReady' \in [0..Size-1 -> BOOLEAN]
    BY <1>1, <1>2, Zenon
  <2>2. mCur' \in [Producers -> 0..MaxPos]
    BY <1>1
  <2>. QED  BY <1>1, <2>1, <2>2 DEF ClaimsInv, M!TypeOK, M!Slots
<1>4. CountsInv'
  BY <1>1 DEF ClaimsInv, CountsInv
<1>5. M!Filling(p) /\ ~M!Filling(p)' /\ \A u \in Producers \ {p} : M!Filling(u)' <=> M!Filling(u)
  BY <1>1 DEF M!Filling
<1>6. \A u \in Producers \ {p} : mCur'[u] = mCur[u]
  BY <1>1
<1>7. OwnersInv'
  <2>. SUFFICES ASSUME ~mOver PROVE OwnersInv!2'
    BY <1>1 DEF OwnersInv
  <2>1. OwnersInv!2
    BY DEF ClaimsInv, OwnersInv
  <2>2. \A u \in Producers : M!Filling(u)' => M!Filling(u) /\ mCur'[u] = mCur[u]
    BY <1>5, <1>6
  <2>. QED  BY <1>1, <2>1, <2>2
<1>8. ReadyInv'
  <2>. SUFFICES ASSUME ~mOver PROVE ReadyInv!2'
    BY <1>1 DEF ReadyInv
  <2>1. /\ mTail <= c /\ c < mHead /\ mHead <= mTail + Size /\ (mCpc # "idle" => c # mTail)
        /\ \A u \in Producers \ {p} : M!Filling(u) => mCur[u] # c
    BY <1>5 DEF ClaimsInv, OwnersInv
  <2>2. ~Filled(c)' /\ \A pos : pos # c => (Filled(pos)' <=> Filled(pos))
    BY <1>5, <1>6, <2>1 DEF Filled
  <2>3. \A pos \in mTail..(mTail + Size - 1) : pos % Size = c % Size => pos = c
    <3>1. c \in mTail..(mTail + Size - 1)
      BY <2>1
    <3>2. mTail \in Nat
      OBVIOUS
    <3>. HIDE ClaimsType, SizeNat
    <3>. QED  BY <3>1, <3>2, OneLap
  <2>4. \A pos \in mTail..(mHead - 1) : pos \in mTail..(mTail + Size - 1) /\ pos % Size \in 0..Size-1
    BY <1>2, <2>1
  <2>5. \A pos \in mHead..(mTail + Size - 1) :
          pos \in mTail..(mTail + Size - 1) /\ pos # c /\ pos % Size \in 0..Size-1
    BY <1>2, <2>1
  <2>6. c = mTail => mCpc # "advance"
    BY <2>1
  <2>7. /\ \A pos \in mTail..(mHead - 1) :
             mReady[pos % Size] = TRUE <=> ~Filled(pos) /\ ~(pos = mTail /\ mCpc = "advance")
        /\ \A pos \in mHead..(mTail + Size - 1) : mReady[pos % Size] = FALSE
    BY Zenon DEF ClaimsInv, ReadyInv
  <2>8. mReady'[c % Size] = TRUE /\ \A s \in 0..Size-1 : s # c % Size => mReady'[s] = mReady[s]
    BY <1>1, <1>2, Zenon
  <2>9. ASSUME NEW pos \in mTail..(mHead - 1)
        PROVE  mReady'[pos % Size] = TRUE <=> ~Filled(pos)' /\ ~(pos = mTail /\ mCpc = "advance")
    <3>1. CASE pos = c
      BY <2>2, <2>6, <2>8, <3>1, Zenon
    <3>2. CASE pos # c
      <4>1. mReady'[pos % Size] = mReady[pos % Size]
        BY <2>3, <2>4, <2>8, <3>2, Zenon
      <4>2. Filled(pos)' <=> Filled(pos)
        BY <2>2, <3>2, Zenon
      <4>3. mReady[pos % Size] = TRUE <=> ~Filled(pos) /\ ~(pos = mTail /\ mCpc = "advance")
        BY <2>7, Zenon
      <4>. QED  BY <4>1, <4>2, <4>3, Zenon
    <3>. QED  BY <3>1, <3>2
  <2>10. ASSUME NEW pos \in mHead..(mTail + Size - 1) PROVE mReady'[pos % Size] = FALSE
    BY <2>3, <2>5, <2>7, <2>8, Zenon
  <2>. QED  BY <1>1, <2>9, <2>10, Zenon
<1>. QED  BY <1>3, <1>4, <1>7, <1>8 DEF ClaimsInv

\* The consumer clears the flag and moves on to the next position.
LEMMA ConsumedSteps ==
  ASSUME ClaimsInv, M!Clear \/ M!Advance
  PROVE  ClaimsInv'
<1>. USE ClaimsType, SizeNat
<1>. PICK t \in Nat : t = mTail
  OBVIOUS
<1>0. t % Size \in 0..Size-1 /\ (t + Size) % Size = t % Size /\ \A pos \in Int : pos % Size \in 0..Size-1
  <2>1. t \in Int /\ Size \in Nat /\ Size > 0
    OBVIOUS
  <2>2. (t + Size) % Size = t % Size
    BY <2>1, LapLater
  <2>. QED  BY <2>1, <2>2, SlotType
<1>1. CASE M!Clear
  <2>1. /\ mCpc = "clear" /\ mCpc' = "advance" /\ mReady' = [mReady EXCEPT ![t % Size] = FALSE]
        /\ UNCHANGED <<mHead, mTail, mData, mOver, mPc, mCur, mItem, mOut>>
    BY <1>1 DEF M!Clear, M!producerVars, M!Slot
  <2>2. M!TypeOK'
    <3>1. mReady' \in [0..Size-1 -> BOOLEAN]
      BY <1>0, <2>1, Zenon
    <3>. QED  BY <2>1, <3>1 DEF ClaimsInv, M!TypeOK, M!Slots
  <2>3. CountsInv'
    BY <2>1 DEF ClaimsInv, CountsInv
  <2>4. \A u \in Producers : M!Filling(u)' <=> M!Filling(u)
    BY <2>1 DEF M!Filling
  <2>5. OwnersInv'
    BY <2>1, <2>4 DEF ClaimsInv, OwnersInv
  <2>6. \A pos : Filled(pos)' <=> Filled(pos)
    BY <2>1, <2>4 DEF Filled
  <2>7. ReadyInv'
    <3>. SUFFICES ASSUME ~mOver PROVE ReadyInv!2'
      BY <2>1 DEF ReadyInv
    <3>1. t < mHead /\ mHead <= t + Size
      BY <2>1 DEF ClaimsInv, CountsInv, OwnersInv
    <3>2. \A pos \in t..(t + Size - 1) : pos % Size = t % Size => pos = t
      <4>1. t \in t..(t + Size - 1)
        OBVIOUS
      <4>. HIDE ClaimsType, SizeNat
      <4>. QED  BY <4>1, OneLap
    <3>3. \A pos \in t..(mHead - 1) : pos \in t..(t + Size - 1) /\ pos % Size \in 0..Size-1
      BY <1>0, <3>1
    <3>4. \A pos \in mHead..(t + Size - 1) : pos % Size \in 0..Size-1
      BY <1>0
    <3>5. /\ \A pos \in t..(mHead - 1) :
               mReady[pos % Size] = TRUE <=> ~Filled(pos) /\ ~(pos = t /\ mCpc = "advance")
          /\ \A pos \in mHead..(t + Size - 1) : mReady[pos % Size] = FALSE
      BY Zenon DEF ClaimsInv, ReadyInv
    <3>6. mReady'[t % Size] = FALSE /\ \A s \in 0..Size-1 : s # t % Size => mReady'[s] = mReady[s]
      BY <1>0, <2>1, Zenon
    <3>7. ASSUME NEW pos \in t..(mHead - 1)
          PROVE  mReady'[pos % Size] = TRUE <=> ~Filled(pos)' /\ ~(pos = t /\ mCpc' = "advance")
      <4>1. CASE pos = t
        BY <2>1, <3>6, <4>1, Zenon
      <4>2. CASE pos # t
        <5>1. mReady'[pos % Size] = mReady[pos % Size]
          BY <3>2, <3>3, <3>6, <4>2, Zenon
        <5>. QED  BY <2>6, <3>5, <4>2, <5>1, Zenon
      <4>. QED  BY <4>1, <4>2
    <3>8. ASSUME NEW pos \in mHead..(t + Size - 1) PROVE mReady'[pos % Size] = FALSE
      <4>1. CASE pos % Size = t % Size
        BY <3>6, <4>1, Zenon
      <4>2. CASE pos % Size # t % Size
        BY <3>4, <3>5, <3>6, <4>2, Zenon
      <4>. QED  BY <4>1, <4>2
    <3>. QED  BY <2>1, <3>7, <3>8, Zenon
  <2>. QED  BY <2>2, <2>3, <2>5, <2>7 DEF ClaimsInv
<1>2. CASE M!Advance
  <2>1. /\ mCpc = "advance" /\ mCpc' = "idle" /\ mTail' = t + 1 /\ mOut' = None
        /\ UNCHANGED <<mHead, mReady, mData, mOver, mPc, mCur, mItem>>
    BY <1>2 DEF M!Advance, M!producerVars
  <2>2. t < mHead /\ mHead <= t + Size + 1
    BY <2>1 DEF ClaimsInv, CountsInv
  <2>3. M!TypeOK'
    <3>1. mTail' \in 0..MaxPos
      BY <2>1, <2>2
    <3>. QED  BY <2>1, <3>1 DEF ClaimsInv, M!TypeOK
  <2>4. CountsInv'
    BY <2>1, <2>2 DEF ClaimsInv, CountsInv
  <2>5. \A u \in Producers : M!Filling(u)' <=> M!Filling(u)
    BY <2>1 DEF M!Filling
  <2>6. \A pos : Filled(pos)' <=> Filled(pos)
    BY <2>1, <2>5 DEF Filled
  <2>7. OwnersInv'
    <3>. SUFFICES ASSUME ~mOver PROVE OwnersInv!2'
      BY <2>1 DEF OwnersInv
    <3>1. /\ mHead <= t + Size
          /\ \A u \in Producers : M!Filling(u) => t <= mCur[u] /\ mCur[u] < mHead /\ mCur[u] # t
          /\ \A u, v \in Producers : M!Filling(u) /\ M!Filling(v) /\ mCur[u] = mCur[v] => u = v
      BY <2>1 DEF ClaimsInv, OwnersInv
    <3>2. \A u \in Producers : M!Filling(u) => t + 1 <= mCur[u]
      BY <3>1
    <3>. QED  BY <2>1, <2>5, <3>1, <3>2
  <2>8. ReadyInv'
    <3>. SUFFICES ASSUME ~mOver PROVE ReadyInv!2'
      BY <2>1 DEF ReadyInv
    <3>1. t \in t..(mHead - 1) /\ mHead <= t + Size
      BY <2>2 DEF ClaimsInv, OwnersInv
    <3>2. /\ \A pos \in t..(mHead - 1) :
               mReady[pos % Size] = TRUE <=> ~Filled(pos) /\ ~(pos = t /\ mCpc = "advance")
          /\ \A pos \in mHead..(t + Size - 1) : mReady[pos % Size] = FALSE
      BY Zenon DEF ClaimsInv, ReadyInv
    <3>3. mReady[(t + Size) % Size] = FALSE
      <4>1. mReady[t % Size] \in BOOLEAN /\ mReady[t % Size] # TRUE
        BY <1>0, <2>1, <3>1, <3>2, Zenon
      <4>2. mReady[t % Size] = FALSE
        BY <4>1, Zenon
      <4>. QED  BY <1>0, <4>2
    <3>4. \A pos \in (t + 1)..(mHead - 1) : pos \in t..(mHead - 1) /\ pos # t
      OBVIOUS
    <3>5. \A pos \in mHead..(t + 1 + Size - 1) : pos \in mHead..(t + Size - 1) \/ pos = t + Size
      OBVIOUS
    <3>6. \A pos \in (t + 1)..(mHead - 1) :
            mReady[pos % Size] = TRUE <=> ~Filled(pos)' /\ ~(pos = t + 1 /\ mCpc' = "advance")
      <4>1. mCpc' # "advance"
        BY <2>1
      <4>. QED  BY <2>6, <3>2, <3>4, <4>1, Zenon
    <3>7. \A pos \in mHead..(t + 1 + Size - 1) : mReady[pos % Size] = FALSE
      BY <3>2, <3>3, <3>5, Zenon
    <3>. QED  BY <2>1, <3>6, <3>7, Zenon
  <2>. QED  BY <2>3, <2>4, <2>7, <2>8 DEF ClaimsInv
<1>. QED  BY <1>1, <1>2

LEMMA ClaimsStep == ClaimsInv /\ [M!Next]_mVars => ClaimsInv'
<1>. SUFFICES ASSUME ClaimsInv, [M!Next]_mVars PROVE ClaimsInv'
  OBVIOUS
<1>1. ASSUME UNCHANGED mVars PROVE ClaimsInv'
  <2>1. \A u \in Producers : M!Filling(u)' <=> M!Filling(u)
    BY <1>1 DEF mVars, M!Filling
  <2>2. \A pos : Filled(pos)' <=> Filled(pos)
    BY <1>1, <2>1 DEF mVars, Filled
  <2>3. M!TypeOK' /\ CountsInv' /\ OwnersInv'
    BY <1>1, <2>1 DEF mVars, ClaimsInv, M!TypeOK, CountsInv, OwnersInv
  <2>4. ReadyInv'
    BY <1>1, <2>2, Zenon DEF mVars, ClaimsInv, ReadyInv
  <2>. QED  BY <2>3, <2>4 DEF ClaimsInv
<1>. QED  BY <1>1, LookSteps, ClaimStep, DataSteps, ReadyStep, ConsumedSteps
          DEF M!Next, M!EnqueueStep, M!DequeueStep

\* A behaviour of MCQueues is one of mpsc_bounded_queue.
LEMMA ClaimsBehaviour == MCSpec => M!Init /\ [][M!Next]_mVars
<1>1. MCInit => M!Init
  BY DEF MCInit
<1>2. [MCNext]_mcVars => [M!Next]_mVars
  BY DEF MCNext, mcVars
<1>. QED  BY <1>1, <1>2, PTL DEF MCSpec

\* mpsc_bounded_queue: until a slot is claimed that was not yet read, every slot
\* has one user and is ready exactly if its item is complete.
THEOREM SlotsAreOwned == MCSpec => []SlotsOwned
<1>1. ClaimsInv => SlotsOwned
  <2>. SUFFICES ASSUME ClaimsInv PROVE SlotsOwned
    OBVIOUS
  <2>. USE ClaimsType, SizeNat
  <2>1. M!TypeOK /\ mHead <= mTail + Size + 1
    BY DEF ClaimsInv, CountsInv
  <2>2. ASSUME ~mOver, NEW p \in Producers, NEW q \in Producers, M!Filling(p), M!Filling(q), p # q
        PROVE  mCur[p] % Size # mCur[q] % Size
    <3>1. /\ mCur[p] \in mTail..(mTail + Size - 1) /\ mCur[q] \in mTail..(mTail + Size - 1)
          /\ mCur[p] # mCur[q]
      BY <2>2 DEF ClaimsInv, OwnersInv
    <3>. QED  BY <3>1, OneLap
  <2>3. ASSUME ~mOver, NEW p \in Producers, M!Filling(p), mCpc # "idle"
        PROVE  mCur[p] % Size # mTail % Size
    <3>1. /\ mCur[p] \in mTail..(mTail + Size - 1) /\ mTail \in mTail..(mTail + Size - 1)
          /\ mCur[p] # mTail
      BY <2>3 DEF ClaimsInv, OwnersInv
    <3>. QED  BY <3>1, OneLap
  <2>4. ASSUME ~mOver, NEW pos \in mTail..(mHead - 1), ~mReady[pos % Size]
        PROVE  (\E p \in Producers : M!Filling(p) /\ mCur[p] = pos) \/ (pos = mTail /\ mCpc = "advance")
    BY <2>4, Zenon DEF ClaimsInv, ReadyInv, Filled
  <2>. QED  BY <2>1, <2>2, <2>3, <2>4, Zenon DEF SlotsOwned, M!SlotsOwned, M!Slot
<1>. QED  BY <1>1, ClaimsBehaviour, ClaimsInit, ClaimsStep, PTL

-----------------------------------------------------------------------------
(* Sequences as functions *)

LEMMA FunctionIsSeq ==
  ASSUME NEW T, NEW n \in Nat, NEW q \in [1..n -> T]
  PROVE  q \in Seq(T) /\ Len(q) = n
OBVIOUS

LEMMA AppendIs ==
  ASSUME NEW T, NEW n \in Nat, NEW q \in [1..n -> T], NEW v \in T, NEW r \in [1..(n + 1) -> T],
         \A i \in 1..n : r[i] = q[i], r[n + 1] = v
  PROVE  r = Append(q, v)
<1>1. q \in Seq(T) /\ Len(q) = n
  BY FunctionIsSeq
<1>2. Append(q, v) \in [1..(n + 1) -> T]
  <2>1. Append(q, v) \in Seq(T) /\ Len(Append(q, v)) = n + 1
    BY <1>1
  <2>2. \A s \in Seq(T) : s \in [1..Len(s) -> T]
    OBVIOUS
  <2>. QED  BY <2>1, <2>2
<1>3. \A i \in 1..(n + 1) : Append(q, v)[i] = IF i = n + 1 THEN v ELSE q[i]
  BY <1>1
<1>4. \A i \in 1..(n + 1) : i = n + 1 \/ i \in 1..n
  OBVIOUS
<1>5. \A i \in 1..(n + 1) : Append(q, v)[i] = r[i]
  BY <1>3, <1>4
<1>. QED  BY <1>2, <1>5

LEMMA TailIs ==
  ASSUME NEW T, NEW n \in Nat, n > 0, NEW q \in [1..n -> T], NEW r \in [1..(n - 1) -> T],
         \A i \in 1..(n - 1) : r[i] = q[i + 1]
  PROVE  r = Tail(q) /\ q # << >> /\ Head(q) = q[1]
<1>1. q \in Seq(T) /\ Len(q) = n
  BY FunctionIsSeq
<1>2. q # << >> /\ Head(q) = q[1]
  BY <1>1
<1>3. Tail(q) \in [1..(n - 1) -> T]
  <2>1. Tail(q) \in Seq(T) /\ Len(Tail(q)) = n - 1
    BY <1>1
  <2>2. \A s \in Seq(T) : s \in [1..Len(s) -> T]
    OBVIOUS
  <2>. QED  BY <2>1, <2>2
<1>4. \A i \in 1..(n - 1) : Tail(q)[i] = q[i + 1]
  BY <1>1
<1>. QED  BY <1>2, <1>3, <1>4

-----------------------------------------------------------------------------
(* SpscBoundedQueue *)

LEMMA ModulusNat == /\ Size \in Nat /\ Size > 0 /\ Modulus \in Nat /\ 2 * Size < Modulus
                    /\ PowerOfTwo(Size) /\ PowerOfTwo(Modulus) /\ None \notin Values
BY RingAssumption

\* A proper divisor of a power of two is at most half of it.
LEMMA Halves ==
  ASSUME NEW n \in Nat, PowerOfTwo(n), NEW d \in Nat, d > 0, n % d = 0, n > 0
  PROVE  d = n \/ (2 * d <= n /\ n % (2 * d) = 0)
<1>1. d <= n
  <2>. SUFFICES ASSUME n < d PROVE FALSE
    OBVIOUS
  <2>. QED  BY SmallMod
<1>2. CASE d # n
  <2>1. n % (2 * d) = 0
    BY <1>1, <1>2 DEF PowerOfTwo
  <2>2. ~(n < 2 * d)
    <3>. SUFFICES ASSUME n < 2 * d PROVE FALSE
      OBVIOUS
    <3>1. 2 * d \in Nat
      OBVIOUS
    <3>. QED  BY <2>1, <3>1, SmallMod
  <2>. QED  BY <2>1, <2>2
<1>. QED  BY <1>2

\* The position after pos: twice as far, and at the end for ever.
LEMMA NextPosition ==
  ASSUME NEW pos \in Nat, pos < Modulus, Modulus % (pos + 1) = 0
  PROVE  LET q == B!NextPos(pos)
         IN  /\ q \in Nat /\ q < Modulus /\ Modulus % (q + 1) = 0
             /\ q = pos + pos + 1 \/ (q = pos /\ pos + 1 = Modulus)
<1>. USE ModulusNat
<1>1. pos + 1 = Modulus \/ (2 * (pos + 1) <= Modulus /\ Modulus % (2 * (pos + 1)) = 0)
  <2>1. pos + 1 \in Nat /\ pos + 1 > 0 /\ Modulus > 0
    OBVIOUS
  <2>. HIDE ModulusNat
  <2>. QED  BY <2>1, ModulusNat, Halves
<1>2. CASE pos + 1 = Modulus
  <2>1. pos + pos + 1 = pos + Modulus
    BY <1>2
  <2>2. (pos + Modulus) % Modulus = pos % Modulus
    BY LapLater
  <2>3. pos % Modulus = pos
    BY SmallMod
  <2>. QED  BY <1>2, <2>1, <2>2, <2>3 DEF B!NextPos
<1>3. CASE 2 * (pos + 1) <= Modulus /\ Modulus % (2 * (pos + 1)) = 0
  <2>1. pos + pos + 1 \in Nat /\ pos + pos + 1 < Modulus /\ pos + pos + 1 + 1 = 2 * (pos + 1)
    BY <1>3
  <2>2. (pos + pos + 1) % Modulus = pos + pos + 1
    BY <2>1, SmallMod
  <2>. QED  BY <1>3, <2>1, <2>2 DEF B!NextPos
<1>. QED  BY <1>1, <1>2, <1>3

\* The producer's position is one less than a power of two.
PositionInv ==
  /\ bHead \in Nat /\ bHead < Modulus /\ Modulus % (bHead + 1) = 0
  /\ Size % (bHead + 1) = 0 \/ bHead + 1 >= 2 * Size
  /\ bTail \in Nat
  /\ bPc \in {"idle", "write", "advance"} /\ bCpc \in {"idle", "move", "advance"}
  /\ bPc # "idle" => bItem \in Values
  /\ bBuffer \in [0..(Size - 1) -> Values \cup {None}]

\* As long as the ring is not wrapped, a position is its own slot, the
\* positions between the consumer's and the producer's hold items, and each is
\* followed by the one twice as far.
FollowedInv ==
  /\ bPath \in Seq(Nat) /\ Len(bPath) >= 1 /\ bPath[Len(bPath)] = bHead /\ Len(bPath) <= bHead + 1
  /\ \A i \in 1..(Len(bPath) - 1) : /\ bPath[i + 1] = bPath[i] + bPath[i] + 1
                                    /\ bPath[i] < Size /\ bPath[i] < bHead
                                    /\ bBuffer[bPath[i]] \in Values
  /\ \A i, j \in 1..Len(bPath) : bPath[i] = bPath[j] => i = j
  /\ bCpc = "advance" => bPath[1] = bTail + bTail + 1 /\ bOut \in Values
  /\ bCpc # "advance" => bPath[1] = bTail
  /\ bCpc = "move" => Len(bPath) >= 2
  /\ bPc = "advance" => bBuffer[bHead] = bItem

PathInv == PositionInv /\ (~B!Wrapped => FollowedInv)

LEMMA PathInit == B!Init => PathInv
<1>. SUFFICES ASSUME B!Init PROVE PathInv
  OBVIOUS
<1>. USE ModulusNat
<1>1. Modulus % 1 = 0 /\ Size % 1 = 0 /\ 0 + 1 = 1
  OBVIOUS
<1>2. PositionInv
  BY <1>1 DEF B!Init, PositionInv
<1>3. bPath = <<0>> /\ bPath \in Seq(Nat) /\ Len(bPath) = 1 /\ bPath[1] = 0
  BY DEF B!Init
<1>4. FollowedInv
  BY <1>3 DEF B!Init, FollowedInv
<1>. QED  BY <1>2, <1>4 DEF PathInv

\* Where the ring is not wrapped, what the producer writes is below Size.
LEMMA BelowSize ==
  ASSUME PositionInv, Size % (bHead + 1) = 0
  PROVE  bHead < Size
<1>. USE ModulusNat
<1>1. bHead \in Nat /\ bHead + 1 \in Nat
  BY DEF PositionInv
<1>2. ASSUME Size < bHead + 1 PROVE FALSE
  BY <1>1, <1>2, SmallMod
<1>. QED  BY <1>1, <1>2

LEMMA Unwrapped ==
  ASSUME PathInv, ~B!Wrapped, bPc # "idle"
  PROVE  bHead < Size /\ Size % (bHead + 1) = 0 /\ B!Slot(bHead) = bHead
<1>. USE ModulusNat
<1>1. bHead \in Nat /\ bHead + 1 < 2 * Size
  BY DEF PathInv, PositionInv, B!Wrapped
<1>2. Size % (bHead + 1) = 0
  BY <1>1 DEF PathInv, PositionInv
<1>3. bHead < Size
  BY <1>2, BelowSize DEF PathInv
<1>. QED  BY <1>1, <1>2, <1>3, SmallMod DEF B!Slot

\* The last position is the farthest.
LEMMA PathBelow ==
  ASSUME FollowedInv, bHead \in Nat
  PROVE  /\ Len(bPath) \in Nat /\ \A i \in 1..Len(bPath) : bPath[i] \in Nat /\ bPath[i] <= bHead
         /\ bPath[1] <= bHead
<1>1. Len(bPath) \in Nat /\ Len(bPath) >= 1 /\ \A i \in 1..Len(bPath) : bPath[i] \in Nat
  BY DEF FollowedInv
<1>2. \A i \in 1..Len(bPath) : i = Len(bPath) \/ i \in 1..(Len(bPath) - 1)
  BY <1>1
<1>3. \A i \in 1..Len(bPath) : bPath[i] <= bHead
  BY <1>1, <1>2 DEF FollowedInv
<1>. QED  BY <1>1, <1>3

LEMMA TryEnqueueStep ==
  ASSUME PathInv, NEW v \in Values, B!TryEnqueue(v)
  PROVE  PathInv'
<1>. USE DEF B!TryEnqueue
<1>1. PositionInv'
  BY DEF PathInv, PositionInv
<1>2. ASSUME ~(B!Wrapped') PROVE ~B!Wrapped
  BY <1>2, ModulusNat DEF PathInv, PositionInv, B!Wrapped
<1>3. ASSUME FollowedInv PROVE FollowedInv'
  BY <1>3 DEF FollowedInv
<1>. QED  BY <1>1, <1>2, <1>3 DEF PathInv

LEMMA WriteStep ==
  ASSUME PathInv, B!Write
  PROVE  PathInv'
<1>. USE DEF B!Write
<1>. USE ModulusNat
<1>0. bHead \in Nat /\ bHead % Size \in 0..(Size - 1) /\ bItem \in Values
  BY SlotType DEF PathInv, PositionInv
<1>1. PositionInv'
  BY <1>0 DEF PathInv, PositionInv, B!Slot
<1>2. ASSUME ~(B!Wrapped') PROVE ~B!Wrapped
  BY <1>2 DEF B!Wrapped
<1>3. ASSUME ~B!Wrapped PROVE FollowedInv'
  <2>1. bHead < Size /\ B!Slot(bHead) = bHead /\ FollowedInv
    BY <1>3, Unwrapped DEF PathInv
  <2>2. \A i \in 1..(Len(bPath) - 1) : bBuffer'[bPath[i]] = bBuffer[bPath[i]]
    BY <1>0, <2>1, PathBelow DEF PathInv, PositionInv, FollowedInv
  <2>3. bBuffer'[bHead] = bItem
    BY <1>0, <2>1 DEF PathInv, PositionInv
  <2>. QED  BY <2>1, <2>2, <2>3 DEF FollowedInv
<1>. QED  BY <1>1, <1>2, <1>3 DEF PathInv

\* Before and after the producer advances within the ring.
LEMMA AdvancedHead ==
  ASSUME PathInv, B!AdvanceHead, ~(B!Wrapped')
  PROVE  /\ ~B!Wrapped /\ bHead' = bHead + bHead + 1 /\ bHead < Size /\ bPath' = Append(bPath, bHead')
         /\ bBuffer[bHead] = bItem
<1>. USE ModulusNat
<1>1. bHead \in Nat /\ bHead < Modulus /\ Modulus % (bHead + 1) = 0
  BY DEF PathInv, PositionInv
<1>2. bHead' = B!NextPos(bHead) /\ bPc' = "idle" /\ bPath' = Append(bPath, bHead') /\ bPc = "advance"
  BY DEF B!AdvanceHead, B!FollowPath
<1>3. bHead' < 2 * Size /\ bHead' \in Nat
  BY <1>1, <1>2, NextPosition DEF B!Wrapped
<1>4. bHead' = bHead + bHead + 1
  BY <1>1, <1>2, <1>3, NextPosition
<1>5. bHead < Size
  BY <1>1, <1>3, <1>4
<1>6. ~B!Wrapped
  BY <1>1, <1>5 DEF B!Wrapped
<1>. QED  BY <1>2, <1>4, <1>5, <1>6 DEF PathInv, FollowedInv

LEMMA AdvanceHeadStep ==
  ASSUME PathInv, B!AdvanceHead
  PROVE  PathInv'
<1>. USE ModulusNat
<1>1. bHead \in Nat /\ bHead < Modulus /\ Modulus % (bHead + 1) = 0
  BY DEF PathInv, PositionInv
<1>2. /\ bHead' \in Nat /\ bHead' < Modulus /\ Modulus % (bHead' + 1) = 0
      /\ (bHead' = bHead + bHead + 1 \/ (bHead' = bHead /\ bHead + 1 = Modulus))
  BY <1>1, NextPosition DEF B!AdvanceHead
<1>6. bHead \in Nat /\ bHead' \in Nat /\ bHead' >= bHead /\ (bHead + 1 <= Size => bHead' = bHead + bHead + 1)
  <2>1. bHead + 1 = Modulus => bHead + 1 > Size
    OBVIOUS
  <2>2. bHead' >= bHead
    <3>1. CASE bHead' = bHead
      BY <1>1, <3>1
    <3>2. CASE bHead' = bHead + bHead + 1
      <4>. HIDE ModulusNat
      <4>. QED  BY <1>1, <3>2
    <3>. QED  BY <1>2, <3>1, <3>2
  <2>. QED  BY <1>1, <1>2, <2>1, <2>2
<1>3. Size % (bHead' + 1) = 0 \/ bHead' + 1 >= 2 * Size
  <2>1. CASE bHead + 1 >= 2 * Size
    <3>1. 2 * Size \in Nat
      OBVIOUS
    <3>. HIDE ModulusNat
    <3>2. \A x, y, z \in Nat : y >= x /\ x + 1 >= z => y + 1 >= z
      OBVIOUS
    <3>3. bHead' + 1 >= 2 * Size
      BY <1>6, <2>1, <3>1, <3>2, Zenon
    <3>. QED  BY <3>3, Zenon
  <2>2. CASE Size % (bHead + 1) = 0
    <3>1. bHead + 1 \in Nat /\ bHead + 1 > 0
      BY <1>1
    <3>2. bHead + 1 = Size \/ Size % (2 * (bHead + 1)) = 0
      BY <2>2, <3>1, Halves
    <3>3. bHead' = bHead + bHead + 1 => bHead' + 1 = 2 * (bHead + 1)
      BY <1>1
    <3>4. bHead + 1 <= Size
      BY <1>6, <2>2, BelowSize DEF PathInv
    <3>. QED  BY <1>6, <3>2, <3>3, <3>4
  <2>. QED  BY <2>1, <2>2 DEF PathInv, PositionInv
<1>4. PositionInv'
  BY <1>2, <1>3 DEF PathInv, PositionInv, B!AdvanceHead
<1>5. ASSUME ~(B!Wrapped') PROVE FollowedInv'
  <2>1. /\ ~B!Wrapped /\ bHead' = bHead + bHead + 1 /\ bHead < Size /\ bPath' = Append(bPath, bHead')
        /\ bBuffer[bHead] = bItem
    BY <1>5, AdvancedHead
  <2>2. FollowedInv
    BY <2>1 DEF PathInv
  <2>3. /\ bPath \in Seq(Nat) /\ Len(bPath) \in Nat /\ Len(bPath) >= 1 /\ bPath[Len(bPath)] = bHead
        /\ Len(bPath) <= bHead + 1
    BY <2>2 DEF FollowedInv
  <2>4. \A s \in Seq(Nat), x \in Nat : /\ Append(s, x) \in Seq(Nat) /\ Len(Append(s, x)) = Len(s) + 1
                                       /\ \A i \in 1..Len(s) : Append(s, x)[i] = s[i]
                                       /\ Append(s, x)[Len(s) + 1] = x
    OBVIOUS
  <2>5. /\ bPath' \in Seq(Nat) /\ Len(bPath') = Len(bPath) + 1
        /\ \A i \in 1..Len(bPath) : bPath'[i] = bPath[i]
        /\ bPath'[Len(bPath) + 1] = bHead'
    BY <1>2, <2>1, <2>3, <2>4
  <2>6. \A i \in 1..Len(bPath) : bPath[i] \in Nat /\ bPath[i] <= bHead
    BY <1>1, <2>2, PathBelow
  <2>7. bItem \in Values /\ bBuffer' = bBuffer /\ bPc' = "idle" /\ bCpc' = bCpc /\ bOut' = bOut /\ bTail' = bTail
    BY DEF PathInv, PositionInv, B!AdvanceHead
  <2>8. ASSUME NEW i \in 1..(Len(bPath') - 1)
        PROVE  /\ bPath'[i + 1] = bPath'[i] + bPath'[i] + 1
               /\ bPath'[i] < Size /\ bPath'[i] < bHead' /\ bBuffer'[bPath'[i]] \in Values
    <3>1. CASE i = Len(bPath)
      <4>1. bPath'[i] = bHead /\ bPath'[i + 1] = bHead'
        BY <2>3, <2>5, <3>1
      <4>. QED  BY <1>6, <2>1, <2>7, <4>1
    <3>2. CASE i \in 1..(Len(bPath) - 1)
      <4>1. i \in 1..Len(bPath) /\ i + 1 \in 1..Len(bPath)
        BY <2>3, <3>2
      <4>2. bPath'[i] = bPath[i] /\ bPath'[i + 1] = bPath[i + 1]
        BY <2>5, <4>1
      <4>. QED  BY <1>1, <2>1, <2>2, <2>6, <2>7, <3>2, <4>1, <4>2 DEF FollowedInv
    <3>. QED  BY <2>3, <2>5, <3>1, <3>2
  <2>9. ASSUME NEW i \in 1..Len(bPath'), NEW j \in 1..Len(bPath'), bPath'[i] = bPath'[j]
        PROVE  i = j
    <3>1. \A k \in 1..Len(bPath') : k = Len(bPath) + 1 \/ k \in 1..Len(bPath)
      BY <2>3, <2>5
    <3>2. \A k \in 1..Len(bPath) : bPath'[k] # bHead'
      BY <1>1, <2>1, <2>5, <2>6
    <3>3. CASE i \in 1..Len(bPath) /\ j \in 1..Len(bPath)
      BY <2>2, <2>5, <2>9, <3>3 DEF FollowedInv
    <3>. QED  BY <2>5, <2>9, <3>1, <3>2, <3>3
  <2>10. bPath'[1] = bPath[1] /\ Len(bPath') >= 2 /\ Len(bPath') <= bHead' + 1
    BY <1>1, <2>1, <2>3, <2>5
  <2>. QED  BY <2>2, <2>3, <2>5, <2>7, <2>8, <2>9, <2>10 DEF FollowedInv
<1>. QED  BY <1>4, <1>5 DEF PathInv

LEMMA TryDequeueStep ==
  ASSUME PathInv, B!TryDequeue
  PROVE  PathInv'
<1>. USE DEF B!TryDequeue
<1>1. PositionInv'
  BY DEF PathInv, PositionInv
<1>2. ASSUME ~(B!Wrapped') PROVE ~B!Wrapped
  BY <1>2 DEF B!Wrapped
<1>3. ASSUME FollowedInv PROVE FollowedInv'
  <2>1. Len(bPath) >= 2
    BY <1>3 DEF FollowedInv
  <2>. QED  BY <1>3, <2>1 DEF FollowedInv
<1>. QED  BY <1>1, <1>2, <1>3 DEF PathInv

\* What the consumer moves out is the first item.
LEMMA Moved ==
  ASSUME PathInv, B!Move, ~(B!Wrapped')
  PROVE  /\ ~B!Wrapped /\ FollowedInv /\ bPath' = Tail(bPath) /\ Len(bPath) >= 2
         /\ B!Slot(bTail) = bTail /\ bPath[1] = bTail /\ bTail \in 0..(Size - 1)
         /\ bOut' = bBuffer[bTail] /\ bOut' \in Values
<1>. USE ModulusNat
<1>1. ~B!Wrapped /\ bPath' = Tail(bPath) /\ bCpc = "move"
  BY DEF B!Move, B!FollowPath, B!Wrapped
<1>2. FollowedInv
  BY <1>1 DEF PathInv
<1>3. Len(bPath) \in Nat /\ Len(bPath) >= 2 /\ bPath[1] = bTail
  BY <1>1, <1>2 DEF FollowedInv
<1>4. 1 \in 1..(Len(bPath) - 1)
  BY <1>3
<1>5. bPath[1] < Size /\ bBuffer[bPath[1]] \in Values
  BY <1>2, <1>4 DEF FollowedInv
<1>6. bTail \in Nat
  BY DEF PathInv, PositionInv
<1>7. B!Slot(bTail) = bTail
  BY <1>3, <1>5, <1>6, SmallMod DEF B!Slot
<1>. QED  BY <1>1, <1>2, <1>3, <1>5, <1>6, <1>7 DEF B!Move

LEMMA MoveStep ==
  ASSUME PathInv, B!Move
  PROVE  PathInv'
<1>. USE ModulusNat
<1>1. bHead \in Nat /\ bTail \in Nat /\ bBuffer \in [0..(Size - 1) -> Values \cup {None}]
  BY DEF PathInv, PositionInv
<1>2. PositionInv'
  <2>1. bTail % Size \in 0..(Size - 1)
    BY <1>1, SlotType
  <2>. QED  BY <1>1, <2>1 DEF PathInv, PositionInv, B!Move, B!Slot
<1>3. ASSUME ~(B!Wrapped') PROVE FollowedInv'
  <2>1. /\ FollowedInv /\ bPath' = Tail(bPath) /\ Len(bPath) >= 2
        /\ B!Slot(bTail) = bTail /\ bPath[1] = bTail /\ bTail \in 0..(Size - 1)
        /\ bOut' \in Values
    BY <1>3, Moved
  <2>2. bPath \in Seq(Nat) /\ Len(bPath) \in Nat
    BY <2>1 DEF FollowedInv
  <2>3. \A s \in Seq(Nat) : Len(s) >= 2 => /\ Tail(s) \in Seq(Nat) /\ Len(Tail(s)) = Len(s) - 1
                                           /\ \A i \in 1..(Len(s) - 1) : Tail(s)[i] = s[i + 1]
    OBVIOUS
  <2>4. /\ bPath' \in Seq(Nat) /\ Len(bPath') = Len(bPath) - 1
        /\ \A i \in 1..(Len(bPath) - 1) : bPath'[i] = bPath[i + 1]
    BY <2>1, <2>2, <2>3
  <2>5. /\ bHead' = bHead /\ bTail' = bTail /\ bPc' = bPc /\ bItem' = bItem /\ bCpc' = "advance"
        /\ bBuffer' = [bBuffer EXCEPT ![bTail] = None]
    BY <2>1 DEF B!Move
  <2>6. \A i \in 1..Len(bPath) : i # 1 => bPath[i] # bTail
    <3>1. 1 \in 1..Len(bPath)
      BY <2>1, <2>2
    <3>. QED  BY <2>1, <3>1 DEF FollowedInv
  <2>7. \A i \in 1..Len(bPath) : i # 1 => bBuffer'[bPath[i]] = bBuffer[bPath[i]]
    BY <1>1, <2>5, <2>6
  <2>8. ASSUME NEW i \in 1..(Len(bPath') - 1)
        PROVE  /\ bPath'[i + 1] = bPath'[i] + bPath'[i] + 1
               /\ bPath'[i] < Size /\ bPath'[i] < bHead' /\ bBuffer'[bPath'[i]] \in Values
    <3>1. i \in 1..(Len(bPath) - 1) /\ i + 1 \in 1..(Len(bPath) - 1) /\ i + 1 \in 1..Len(bPath) /\ i + 1 # 1
      BY <2>2, <2>4
    <3>2. bPath'[i] = bPath[i + 1] /\ bPath'[i + 1] = bPath[(i + 1) + 1]
      BY <2>4, <3>1
    <3>3. /\ bPath[(i + 1) + 1] = bPath[i + 1] + bPath[i + 1] + 1
          /\ bPath[i + 1] < Size /\ bPath[i + 1] < bHead
          /\ bBuffer[bPath[i + 1]] \in Values
      BY <2>1, <3>1 DEF FollowedInv
    <3>4. bBuffer'[bPath[i + 1]] = bBuffer[bPath[i + 1]]
      BY <2>7, <3>1
    <3>. QED  BY <2>5, <3>2, <3>3, <3>4
  <2>9. ASSUME NEW i \in 1..Len(bPath'), NEW j \in 1..Len(bPath'), bPath'[i] = bPath'[j]
        PROVE  i = j
    <3>0. i \in 1..(Len(bPath) - 1) /\ j \in 1..(Len(bPath) - 1)
      BY <2>4
    <3>1. i + 1 \in 1..Len(bPath) /\ j + 1 \in 1..Len(bPath)
      BY <2>2, <3>0
    <3>2. bPath[i + 1] = bPath[j + 1]
      BY <2>4, <2>9, <3>0
    <3>3. i + 1 = j + 1
      BY <2>1, <3>1, <3>2 DEF FollowedInv
    <3>. QED  BY <3>3
  <2>10. bPath'[1] = bTail + bTail + 1
    <3>1. 1 \in 1..(Len(bPath) - 1)
      BY <2>1, <2>2
    <3>2. bPath'[1] = bPath[1 + 1] /\ bPath[1 + 1] = bPath[1] + bPath[1] + 1
      BY <2>1, <2>4, <3>1 DEF FollowedInv
    <3>. QED  BY <2>1, <3>2
  <2>11. bPath'[Len(bPath')] = bHead /\ Len(bPath') >= 1 /\ Len(bPath') <= bHead + 1
    <3>1. Len(bPath) - 1 \in 1..(Len(bPath) - 1) /\ (Len(bPath) - 1) + 1 = Len(bPath)
      BY <2>1, <2>2
    <3>2. bPath'[Len(bPath) - 1] = bPath[Len(bPath)]
      BY <2>4, <3>1
    <3>. QED  BY <1>1, <2>1, <2>2, <2>4, <3>2 DEF FollowedInv
  <2>12. bBuffer'[bHead] = bBuffer[bHead]
    <3>1. Len(bPath) \in 1..Len(bPath) /\ Len(bPath) # 1
      BY <2>1, <2>2
    <3>. QED  BY <2>1, <2>7, <3>1 DEF FollowedInv
  <2>. QED  BY <2>1, <2>4, <2>5, <2>8, <2>9, <2>10, <2>11, <2>12 DEF FollowedInv
<1>. QED  BY <1>2, <1>3 DEF PathInv

LEMMA AdvanceTailStep ==
  ASSUME PathInv, B!AdvanceTail
  PROVE  PathInv'
<1>. USE ModulusNat
<1>1. bHead \in Nat /\ bHead < Modulus /\ bTail \in Nat
  BY DEF PathInv, PositionInv
<1>2. bTail' = (bTail + bTail + 1) % Modulus /\ bTail' \in Nat
  BY <1>1 DEF B!AdvanceTail, B!NextPos
<1>3. PositionInv'
  BY <1>2 DEF PathInv, PositionInv, B!AdvanceTail
<1>4. ASSUME ~(B!Wrapped') PROVE ~B!Wrapped
  BY <1>4 DEF B!Wrapped, B!AdvanceTail
<1>5. ASSUME FollowedInv PROVE FollowedInv'
  <2>1. bPath[1] = bTail + bTail + 1 /\ bPath[1] <= bHead
    BY <1>1, <1>5, PathBelow DEF FollowedInv, B!AdvanceTail
  <2>2. bTail' = bPath[1]
    <3>1. bTail + bTail + 1 \in Nat /\ bTail + bTail + 1 < Modulus
      BY <1>1, <2>1
    <3>2. (bTail + bTail + 1) % Modulus = bTail + bTail + 1
      BY <3>1, SmallMod
    <3>. QED  BY <1>2, <2>1, <3>2
  <2>. QED  BY <1>5, <2>2 DEF FollowedInv, B!AdvanceTail
<1>. QED  BY <1>3, <1>4, <1>5 DEF PathInv

LEMMA PathStep == PathInv /\ [B!Next]_bVars => PathInv'
<1>. SUFFICES ASSUME PathInv, [B!Next]_bVars PROVE PathInv'
  OBVIOUS
<1>1. CASE UNCHANGED bVars
  BY <1>1 DEF bVars, PathInv, PositionInv, FollowedInv, B!Wrapped
<1>. QED  BY <1>1, TryEnqueueStep, WriteStep, AdvanceHeadStep, TryDequeueStep, MoveStep, AdvanceTailStep
          DEF B!Next

LEMMA PathBehaviour == MCSpec => B!Init /\ [][B!Next]_bVars
<1>1. MCInit => B!Init
  BY DEF MCInit
<1>2. [MCNext]_mcVars => [B!Next]_bVars
  BY DEF MCNext, mcVars
<1>. QED  BY <1>1, <1>2, PTL DEF MCSpec

\* What spsc_bounded_queue holds and what its consumer has taken: what Fifo's
\* variables stand for.
SpscQueued == [i \in 1..(Len(bPath) - 1) |-> bBuffer[B!Slot(bPath[i])]]
SpscTaken  == [t \in {"consumer"} |-> IF bCpc = "advance" THEN bOut ELSE None]

LEMMA SpscContent ==
  ASSUME PathInv, ~B!Wrapped
  PROVE  /\ Len(bPath) \in Nat /\ Len(bPath) >= 1 /\ Len(bPath) - 1 \in Nat
         /\ \A i \in 1..(Len(bPath) - 1) : B!Slot(bPath[i]) = bPath[i] /\ bPath[i] \in Nat
         /\ SpscQueued \in [1..(Len(bPath) - 1) -> Values]
<1>. USE ModulusNat
<1>1. FollowedInv /\ bHead \in Nat
  BY DEF PathInv, PositionInv
<1>2. Len(bPath) \in Nat /\ Len(bPath) >= 1
  BY <1>1 DEF FollowedInv
<1>3. ASSUME NEW i \in 1..(Len(bPath) - 1)
      PROVE  B!Slot(bPath[i]) = bPath[i] /\ bPath[i] \in Nat /\ bBuffer[bPath[i]] \in Values
  <2>1. i \in 1..Len(bPath)
    BY <1>2
  <2>2. bPath[i] \in Nat
    BY <1>1, <2>1, PathBelow
  <2>3. bPath[i] < Size /\ bBuffer[bPath[i]] \in Values
    BY <1>1 DEF FollowedInv
  <2>. QED  BY <2>2, <2>3, SmallMod DEF B!Slot
<1>. QED  BY <1>2, <1>3 DEF SpscQueued

LEMMA SpscEnqueues ==
  ASSUME PathInv, B!AdvanceHead, ~(B!Wrapped')
  PROVE  Len(SpscQueued) < Size /\ bItem \in Values /\ SpscQueued' = Append(SpscQueued, bItem)
<1>. USE ModulusNat
<1>1. /\ ~B!Wrapped /\ bHead' = bHead + bHead + 1 /\ bHead < Size /\ bPath' = Append(bPath, bHead')
      /\ bBuffer[bHead] = bItem
  BY AdvancedHead
<1>2. FollowedInv /\ bHead \in Nat /\ bItem \in Values /\ bBuffer' = bBuffer
  BY <1>1 DEF PathInv, PositionInv, B!AdvanceHead
<1>. DEFINE k == Len(bPath) - 1
<1>3. /\ Len(bPath) \in Nat /\ k \in Nat /\ Len(bPath) = k + 1 /\ SpscQueued \in [1..k -> Values]
      /\ \A i \in 1..k : B!Slot(bPath[i]) = bPath[i] /\ bPath[i] \in Nat
  BY <1>1, SpscContent
<1>14. SpscQueued = [i \in 1..k |-> bBuffer[B!Slot(bPath[i])]]
  BY DEF SpscQueued
<1>. HIDE DEF k
<1>4. k < Size
  BY <1>1, <1>2, <1>3 DEF FollowedInv
<1>5. bHead' \in Nat /\ bPath \in Seq(Nat)
  BY <1>1, <1>2 DEF FollowedInv
<1>6. \A s \in Seq(Nat), x \in Nat : Len(Append(s, x)) = Len(s) + 1 /\ \A i \in 1..Len(s) : Append(s, x)[i] = s[i]
  OBVIOUS
<1>7. Len(bPath') = k + 2 /\ \A i \in 1..(k + 1) : bPath'[i] = bPath[i]
  BY <1>1, <1>3, <1>5, <1>6
<1>8. bPath[k + 1] = bHead /\ B!Slot(bHead) = bHead
  BY <1>1, <1>2, <1>3, SmallMod DEF FollowedInv, B!Slot
<1>9. SpscQueued' = [i \in 1..(k + 1) |-> bBuffer[B!Slot(bPath'[i])]]
  BY <1>2, <1>3, <1>7 DEF SpscQueued, B!Slot
<1>10. \A i \in 1..k : i \in 1..(k + 1) /\ SpscQueued'[i] = SpscQueued[i]
  <2>1. \A i \in 1..k : i \in 1..(k + 1)
    BY <1>3
  <2>. QED  BY <1>7, <1>9, <1>14, <2>1
<1>11. SpscQueued'[k + 1] = bItem
  BY <1>1, <1>3, <1>7, <1>8, <1>9
<1>12. SpscQueued' \in [1..(k + 1) -> Values]
  <2>1. \A i \in 1..(k + 1) : i = k + 1 \/ i \in 1..k
    BY <1>3
  <2>2. \A i \in 1..(k + 1) : SpscQueued'[i] \in Values
    BY <1>2, <1>3, <1>10, <1>11, <2>1
  <2>. QED  BY <1>9, <2>2
<1>13. SpscQueued' = Append(SpscQueued, bItem)
  BY <1>2, <1>3, <1>10, <1>11, <1>12, AppendIs
<1>. QED  BY <1>2, <1>3, <1>4, <1>13, FunctionIsSeq

LEMMA SpscDequeues ==
  ASSUME PathInv, B!Move, ~(B!Wrapped')
  PROVE  /\ SpscQueued # << >> /\ Head(SpscQueued) = bOut' /\ SpscQueued' = Tail(SpscQueued)
         /\ bOut' \in Values
<1>. USE ModulusNat
<1>1. /\ ~B!Wrapped /\ FollowedInv /\ bPath' = Tail(bPath) /\ Len(bPath) >= 2
      /\ B!Slot(bTail) = bTail /\ bPath[1] = bTail /\ bTail \in 0..(Size - 1)
      /\ bOut' = bBuffer[bTail] /\ bOut' \in Values
  BY Moved
<1>. DEFINE k == Len(bPath) - 1
<1>2. /\ Len(bPath) \in Nat /\ k \in Nat /\ Len(bPath) = k + 1 /\ k > 0 /\ SpscQueued \in [1..k -> Values]
      /\ \A i \in 1..k : B!Slot(bPath[i]) = bPath[i] /\ bPath[i] \in Nat
  BY <1>1, SpscContent
<1>3. /\ bBuffer \in [0..(Size - 1) -> Values \cup {None}]
      /\ bBuffer' = [bBuffer EXCEPT ![bTail] = None] /\ bPath \in Seq(Nat)
  BY <1>1 DEF PathInv, PositionInv, B!Move, FollowedInv
<1>4. \A s \in Seq(Nat) : Len(s) >= 2 => /\ Len(Tail(s)) = Len(s) - 1
                                         /\ \A i \in 1..(Len(s) - 1) : Tail(s)[i] = s[i + 1]
  OBVIOUS
<1>5. Len(bPath') = k /\ \A i \in 1..k : bPath'[i] = bPath[i + 1]
  BY <1>1, <1>2, <1>3, <1>4
<1>6. SpscQueued' = [i \in 1..(k - 1) |-> bBuffer'[B!Slot(bPath'[i])]]
  BY <1>5 DEF SpscQueued, B!Slot
<1>7. ASSUME NEW i \in 1..(k - 1)
      PROVE  SpscQueued'[i] = SpscQueued[i + 1] /\ SpscQueued[i + 1] \in Values
  <2>1. i \in 1..k /\ i + 1 \in 1..k /\ i + 1 # 1 /\ 1 \in 1..Len(bPath) /\ i + 1 \in 1..Len(bPath)
    BY <1>2
  <2>2. SpscQueued'[i] = bBuffer'[bPath[i + 1]] /\ SpscQueued[i + 1] = bBuffer[bPath[i + 1]]
    BY <1>2, <1>5, <1>6, <2>1 DEF SpscQueued
  <2>3. bPath[i + 1] # bTail
    BY <1>1, <2>1 DEF FollowedInv
  <2>4. bBuffer'[bPath[i + 1]] = bBuffer[bPath[i + 1]]
    BY <1>3, <2>3
  <2>. QED  BY <1>2, <2>1, <2>2, <2>4
<1>8. SpscQueued' \in [1..(k - 1) -> Values]
  BY <1>6, <1>7
<1>9. SpscQueued[1] = bOut'
  <2>1. 1 \in 1..k
    BY <1>2
  <2>. QED  BY <1>1, <2>1 DEF SpscQueued
<1>. HIDE DEF k
<1>10. SpscQueued' = Tail(SpscQueued) /\ SpscQueued # << >> /\ Head(SpscQueued) = SpscQueued[1]
  BY <1>2, <1>7, <1>8, TailIs
<1>. QED  BY <1>1, <1>9, <1>10

\* Until the ring is wrapped, a step of spsc_bounded_queue appends the item,
\* hands the oldest to the consumer, ends its call or changes nothing that a
\* caller can see.
LEMMA SpscFifoStep == PathInv /\ [B!Next]_bVars => [B!Wrapped' \/ B!F!Next]_(B!F!vars)
<1>. SUFFICES ASSUME PathInv, [B!Next]_bVars, ~(B!Wrapped')
              PROVE  B!F!Next \/ (SpscQueued' = SpscQueued /\ SpscTaken' = SpscTaken)
  BY DEF B!F!vars, SpscQueued, SpscTaken
<1>. USE ModulusNat
<1>1. CASE UNCHANGED bVars
  BY <1>1 DEF bVars, SpscQueued, SpscTaken, B!Slot
<1>2. CASE B!TryDequeue \/ \E v \in Values : B!TryEnqueue(v)
  BY <1>2 DEF B!TryDequeue, B!TryEnqueue, SpscQueued, SpscTaken, B!Slot
<1>3. CASE B!Write
  <2>1. ~B!Wrapped /\ bPc # "idle"
    BY <1>3 DEF B!Wrapped, B!Write
  <2>2. FollowedInv /\ bHead \in Nat /\ B!Slot(bHead) = bHead
    BY <2>1, Unwrapped DEF PathInv, PositionInv
  <2>3. /\ bBuffer \in [0..(Size - 1) -> Values \cup {None}]
        /\ bBuffer' = [bBuffer EXCEPT ![bHead] = bItem]
        /\ bPath' = bPath /\ bCpc' = bCpc /\ bOut' = bOut
    BY <1>3, <2>2 DEF B!Write, PathInv, PositionInv
  <2>4. \A i \in 1..(Len(bPath) - 1) : /\ B!Slot(bPath[i]) = bPath[i] /\ bPath[i] \in Nat
                                       /\ bPath[i] < bHead
    BY <2>1, <2>2, SpscContent DEF FollowedInv
  <2>5. \A i \in 1..(Len(bPath) - 1) : bPath[i] # bHead
    BY <2>2, <2>4
  <2>6. \A i \in 1..(Len(bPath) - 1) : bBuffer'[B!Slot(bPath[i])] = bBuffer[B!Slot(bPath[i])]
    BY <2>3, <2>4, <2>5
  <2>7. SpscQueued' = [i \in 1..(Len(bPath) - 1) |-> bBuffer'[B!Slot(bPath[i])]]
    BY <2>3 DEF SpscQueued, B!Slot
  <2>8. SpscQueued' = SpscQueued
    BY <2>6, <2>7 DEF SpscQueued
  <2>. QED  BY <2>3, <2>8 DEF SpscTaken
<1>4. CASE B!AdvanceHead
  <2>1. Len(SpscQueued) < Size /\ bItem \in Values /\ SpscQueued' = Append(SpscQueued, bItem)
    BY <1>4, SpscEnqueues
  <2>2. SpscTaken' = SpscTaken
    BY <1>4 DEF B!AdvanceHead, SpscTaken
  <2>3. B!F!Enqueue(bItem)
    BY <2>1, <2>2 DEF B!F!Enqueue, SpscQueued, SpscTaken
  <2>. QED  BY <2>1, <2>3 DEF B!F!Next
<1>5. CASE B!Move
  <2>1. /\ SpscQueued # << >> /\ Head(SpscQueued) = bOut' /\ SpscQueued' = Tail(SpscQueued)
    BY <1>5, SpscDequeues
  <2>2. SpscTaken["consumer"] = None /\ SpscTaken' = [SpscTaken EXCEPT !["consumer"] = bOut']
    BY <1>5 DEF B!Move, SpscTaken
  <2>3. B!F!Dequeue("consumer")
    BY <2>1, <2>2 DEF B!F!Dequeue, SpscQueued, SpscTaken
  <2>. QED  BY <2>3 DEF B!F!Next
<1>6. CASE B!AdvanceTail
  <2>1. bCpc = "advance" /\ bCpc' = "idle" /\ bPath' = bPath /\ bBuffer' = bBuffer /\ ~B!Wrapped
    BY <1>6 DEF B!AdvanceTail, B!Wrapped
  <2>2. bOut \in Values
    BY <2>1 DEF PathInv, FollowedInv
  <2>3. SpscTaken["consumer"] # None /\ SpscTaken' = [SpscTaken EXCEPT !["consumer"] = None]
    BY <2>1, <2>2 DEF SpscTaken
  <2>4. SpscQueued' = SpscQueued
    BY <2>1 DEF SpscQueued, B!Slot
  <2>5. B!F!Return("consumer")
    BY <2>3, <2>4 DEF B!F!Return, SpscQueued, SpscTaken
  <2>. QED  BY <2>5 DEF B!F!Next
<1>. QED  BY <1>1, <1>2, <1>3, <1>4, <1>5, <1>6 DEF B!Next

LEMMA SpscFifoInit == B!Init => B!F!Init
<1>. SUFFICES ASSUME B!Init PROVE B!F!Init
  OBVIOUS
<1>1. bPath = <<0>> /\ Len(bPath) = 1 /\ bCpc = "idle"
  BY DEF B!Init
<1>2. SpscQueued = [i \in 1..0 |-> bBuffer[B!Slot(bPath[i])]]
  BY <1>1 DEF SpscQueued
<1>3. SpscQueued = << >>
  BY <1>2
<1>. QED  BY <1>1, <1>3 DEF B!F!Init, SpscQueued

\* spsc_bounded_queue: the first log2(Size) + 1 items go through the queue as
\* through a FIFO.
LEMMA SpscIsFifo == MCSpec => B!FifoUntilWrapped
BY PathBehaviour, PathInit, PathStep, SpscFifoInit, SpscFifoStep, PTL DEF B!FifoUntilWrapped

-----------------------------------------------------------------------------
(* MpscBoundedQueue is a FIFO *)

\* What mpsc_bounded_queue holds and what its consumer has taken: what Fifo's
\* variables stand for.
MpscFirst  == mTail + IF M!Taken THEN 1 ELSE 0
MpscQueued == [i \in 1..(mHead - MpscFirst) |-> M!ItemAt(MpscFirst + i - 1)]
MpscTaken  == [t \in {"consumer"} |-> IF M!Taken THEN mOut ELSE None]

Writing(p, pos) == mPc[p] = "write" /\ mCur[p] = pos

\* The item of a position is its producer's until it is written.
ItemsInv ==
  /\ ClaimsInv
  /\ ~mOver => \A pos : /\ \A p \in Producers : Writing(p, pos) => M!ItemAt(pos) = mItem[p]
                        /\ (\A p \in Producers : ~Writing(p, pos)) => M!ItemAt(pos) = mData[pos % Size]

LEMMA ClaimsGiveItems == ClaimsInv => ItemsInv
<1>. SUFFICES ASSUME ClaimsInv, ~mOver, NEW pos
              PROVE  /\ \A p \in Producers : Writing(p, pos) => M!ItemAt(pos) = mItem[p]
                     /\ (\A p \in Producers : ~Writing(p, pos)) => M!ItemAt(pos) = mData[pos % Size]
  BY DEF ItemsInv
<1>1. \A p, q \in Producers : Writing(p, pos) /\ Writing(q, pos) => p = q
  BY DEF Writing, ClaimsInv, OwnersInv, M!Filling
<1>2. ASSUME NEW p \in Producers, Writing(p, pos) PROVE M!ItemAt(pos) = mItem[p]
  <2>1. \E q \in Producers : mPc[q] = "write" /\ mCur[q] = pos
    BY <1>2 DEF Writing
  <2>. DEFINE w == CHOOSE q \in Producers : mPc[q] = "write" /\ mCur[q] = pos
  <2>2. w \in Producers /\ mPc[w] = "write" /\ mCur[w] = pos
    BY <2>1
  <2>3. M!ItemAt(pos) = mItem[w]
    BY <2>1 DEF M!ItemAt
  <2>. HIDE DEF w
  <2>4. w = p
    BY <1>1, <1>2, <2>2 DEF Writing
  <2>. QED  BY <2>3, <2>4
<1>3. ASSUME \A p \in Producers : ~Writing(p, pos) PROVE M!ItemAt(pos) = mData[pos % Size]
  BY <1>3 DEF Writing, M!ItemAt, M!Slot
<1>. QED  BY <1>2, <1>3

\* A position keeps its item if its producer and its slot do.
LEMMA SameItem ==
  ASSUME ItemsInv, ItemsInv', ~mOver, ~mOver', NEW pos,
         \A p \in Producers : Writing(p, pos)' <=> Writing(p, pos),
         \A p \in Producers : Writing(p, pos) => mItem'[p] = mItem[p],
         mData'[pos % Size] = mData[pos % Size]
  PROVE  M!ItemAt(pos)' = M!ItemAt(pos)
<1>1. CASE \E p \in Producers : Writing(p, pos)
  <2>1. PICK p \in Producers : Writing(p, pos)
    BY <1>1
  <2>2. M!ItemAt(pos) = mItem[p]
    BY <2>1 DEF ItemsInv
  <2>3. M!ItemAt(pos)' = mItem'[p]
    BY <2>1 DEF ItemsInv
  <2>. QED  BY <2>1, <2>2, <2>3
<1>2. CASE \A p \in Producers : ~Writing(p, pos)
  <2>1. M!ItemAt(pos) = mData[pos % Size]
    BY <1>2 DEF ItemsInv
  <2>2. M!ItemAt(pos)' = mData'[pos % Size]
    BY <1>2 DEF ItemsInv
  <2>. QED  BY <2>1, <2>2
<1>. QED  BY <1>1, <1>2

\* No item that is in the queue before and after a step changes.
Kept == \A pos \in MpscFirst..(mHead - 1) : pos >= MpscFirst' => M!ItemAt(pos)' = M!ItemAt(pos)

LEMMA FirstNat == ASSUME ClaimsInv
                  PROVE  MpscFirst \in Nat /\ mHead \in Nat /\ mTail <= MpscFirst /\ MpscFirst <= mHead
<1>1. mHead \in Nat /\ mTail \in Nat /\ mTail <= mHead /\ (mCpc # "idle" => mTail < mHead)
  BY ClaimsType DEF ClaimsInv, CountsInv
<1>2. M!Taken => mCpc # "idle"
  BY DEF M!Taken
<1>. QED  BY <1>1, <1>2 DEF MpscFirst

\* The consumer is where it was with what it has taken.
SameTaken == (M!Taken' <=> M!Taken) /\ mOut' = mOut

LEMMA SameTakenIs == SameTaken => MpscTaken' = MpscTaken
BY DEF SameTaken, MpscTaken

\* Steps that no caller can see: nothing is written, claimed or taken.
LEMMA QuietSteps ==
  ASSUME ItemsInv, ItemsInv', ~mOver',
         \/ \E p \in Producers : \/ M!Check(p) \/ M!Retry(p) \/ M!SetReady(p)
                                 \/ \E v \in Values : M!TryEnqueue(p, v)
         \/ M!TryDequeue \/ M!Clear \/ UNCHANGED mVars
  PROVE  ~mOver /\ mHead' = mHead /\ MpscFirst' = MpscFirst /\ SameTaken /\ Kept
<1>. USE DEF ItemsInv
<1>1. /\ UNCHANGED <<mHead, mTail, mData, mOver, mOut>>
      /\ \/ mCpc' = mCpc \/ (mCpc = "idle" /\ mCpc' = "move") \/ (mCpc = "clear" /\ mCpc' = "advance")
  BY DEF M!Check, M!Retry, M!SetReady, M!TryEnqueue, M!TryDequeue, M!Clear, M!GoTo, M!Return, M!ring,
         M!producerVars, mVars
<1>2. ASSUME NEW q \in Producers, mPc[q] = "write" \/ mPc'[q] = "write"
      PROVE  mPc'[q] = mPc[q] /\ mCur'[q] = mCur[q] /\ mItem'[q] = mItem[q]
  <2>1. /\ mPc \in [Producers -> {"idle", "check", "cas", "write", "ready"}]
        /\ mCur \in [Producers -> 0..MaxPos] /\ mItem \in [Producers -> Values \cup {None}]
    BY DEF ClaimsInv, M!TypeOK
  <2>2. CASE UNCHANGED <<mPc, mCur, mItem>>
    BY <2>2
  <2>3. ASSUME NEW p \in Producers,
               M!Check(p) \/ M!Retry(p) \/ M!SetReady(p) \/ \E v \in Values : M!TryEnqueue(p, v)
        PROVE  /\ mPc'[q] = mPc[q] /\ mCur'[q] = mCur[q] /\ mItem'[q] = mItem[q]
    <3>1. mPc[p] # "write" /\ mPc'[p] # "write"
      BY <2>1, <2>3 DEF M!Check, M!Retry, M!SetReady, M!TryEnqueue, M!GoTo, M!Return
    <3>2. q # p
      BY <1>2, <3>1
    <3>. QED  BY <2>1, <2>3, <3>2 DEF M!Check, M!Retry, M!SetReady, M!TryEnqueue, M!GoTo, M!Return
  <2>. QED  BY <2>2, <2>3 DEF M!TryDequeue, M!Clear, M!producerVars, mVars
<1>3. ASSUME NEW pos PROVE M!ItemAt(pos)' = M!ItemAt(pos)
  <2>1. \A p \in Producers : /\ Writing(p, pos)' <=> Writing(p, pos)
                             /\ Writing(p, pos) => mItem'[p] = mItem[p]
    BY <1>2 DEF Writing
  <2>2. mData'[pos % Size] = mData[pos % Size] /\ ~mOver
    BY <1>1
  <2>. QED  BY <2>1, <2>2, SameItem
<1>4. M!Taken' <=> M!Taken
  BY <1>1 DEF M!Taken
<1>5. MpscFirst' = MpscFirst /\ SameTaken
  BY <1>1, <1>4 DEF MpscFirst, SameTaken
<1>. QED  BY <1>1, <1>3, <1>5 DEF Kept

LEMMA WrittenStep ==
  ASSUME ItemsInv, ItemsInv', ~mOver', NEW p \in Producers, M!Write(p)
  PROVE  ~mOver /\ mHead' = mHead /\ MpscFirst' = MpscFirst /\ SameTaken /\ Kept
<1>. USE DEF ItemsInv
<1>0. PICK c \in Nat : c = mCur[p]
  BY ClaimsType
<1>1. /\ mPc[p] = "write" /\ mPc' = [mPc EXCEPT ![p] = "ready"]
      /\ mData' = [mData EXCEPT ![c % Size] = mItem[p]]
      /\ UNCHANGED <<mHead, mTail, mReady, mOver, mCur, mItem, mCpc, mOut>>
  BY <1>0 DEF M!Write, M!GoTo, M!Slot
<1>2. MpscFirst' = MpscFirst /\ SameTaken
  BY <1>1 DEF MpscFirst, SameTaken, M!Taken
<1>3. ~mOver
  BY <1>1
<1>4. /\ mTail <= c /\ c < mHead /\ mHead <= mTail + Size
      /\ \A q \in Producers : Writing(q, c) => q = p
  BY <1>0, <1>1, <1>3 DEF ClaimsInv, OwnersInv, M!Filling, Writing
<1>5. mHead \in Nat /\ mTail \in Nat /\ MpscFirst \in Nat /\ mTail <= MpscFirst
  BY FirstNat, ClaimsType
<1>6. /\ mPc \in [Producers -> {"idle", "check", "cas", "write", "ready"}]
      /\ mData \in [0..Size-1 -> Values \cup {None}] /\ c % Size \in 0..Size-1
  <2>1. c % Size \in 0..Size-1
    BY SlotType
  <2>. QED  BY <2>1 DEF ClaimsInv, M!TypeOK, M!Slots
<1>7. M!ItemAt(c)' = M!ItemAt(c)
  <2>1. M!ItemAt(c) = mItem[p]
    BY <1>0, <1>1, <1>3 DEF Writing
  <2>2. \A q \in Producers : ~Writing(q, c)'
    BY <1>1, <1>4, <1>6 DEF Writing
  <2>3. M!ItemAt(c)' = mData'[c % Size]
    BY <2>2
  <2>. QED  BY <1>1, <1>6, <2>1, <2>3
<1>8. ASSUME NEW pos \in MpscFirst..(mHead - 1), pos # c PROVE M!ItemAt(pos)' = M!ItemAt(pos)
  <2>1. pos % Size # c % Size
    <3>1. pos \in mTail..(mTail + Size - 1) /\ c \in mTail..(mTail + Size - 1)
      BY <1>4, <1>5, SizeNat
    <3>. QED  BY <1>5, <1>8, <3>1, OneLap
  <2>2. mData'[pos % Size] = mData[pos % Size]
    BY <1>1, <1>6, <2>1
  <2>3. \A q \in Producers : Writing(q, pos)' <=> Writing(q, pos)
    BY <1>0, <1>1, <1>6, <1>8 DEF Writing
  <2>4. \A q \in Producers : Writing(q, pos) => mItem'[q] = mItem[q]
    BY <1>1
  <2>. QED  BY <1>3, <2>2, <2>3, <2>4, SameItem
<1>. QED  BY <1>1, <1>2, <1>3, <1>7, <1>8 DEF Kept

LEMMA ClaimedStep ==
  ASSUME ItemsInv, ItemsInv', ~mOver', NEW p \in Producers, M!Claim(p)
  PROVE  /\ ~mOver /\ mHead' = mHead + 1 /\ MpscFirst' = MpscFirst /\ SameTaken /\ Kept
         /\ mHead - MpscFirst < Size /\ mItem[p] \in Values
         /\ \A pos : pos = mHead => M!ItemAt(pos)' = mItem[p]
<1>. USE DEF ItemsInv
<1>1. /\ mPc[p] = "cas" /\ mCur[p] = mHead /\ mHead' = mHead + 1
      /\ mPc' = [mPc EXCEPT ![p] = "write"]
      /\ UNCHANGED <<mTail, mData, mReady, mCur, mItem, mCpc, mOut>>
  BY DEF M!Claim, M!GoTo
<1>2. ~mOver /\ ~(mHead - mTail >= Size)
  BY DEF M!Claim
<1>3. MpscFirst' = MpscFirst /\ SameTaken
  BY <1>1 DEF MpscFirst, SameTaken, M!Taken
<1>4. mHead \in Nat /\ mTail \in Nat /\ MpscFirst \in Nat /\ mTail <= MpscFirst
  BY FirstNat, ClaimsType
<1>5. mPc \in [Producers -> {"idle", "check", "cas", "write", "ready"}] /\ mItem[p] \in Values
  BY <1>1 DEF ClaimsInv, M!TypeOK, CountsInv
<1>6. mHead - MpscFirst < Size
  BY <1>2, <1>4, SizeNat
<1>7. ASSUME NEW pos, pos = mHead PROVE M!ItemAt(pos)' = mItem[p]
  <2>1. Writing(p, pos)'
    BY <1>1, <1>5, <1>7 DEF Writing
  <2>. QED  BY <1>1, <2>1
<1>8. ASSUME NEW pos \in MpscFirst..(mHead - 1) PROVE M!ItemAt(pos)' = M!ItemAt(pos)
  <2>1. pos # mHead
    BY <1>4
  <2>2. \A q \in Producers : Writing(q, pos)' <=> Writing(q, pos)
    BY <1>1, <1>5, <2>1 DEF Writing
  <2>3. \A q \in Producers : Writing(q, pos) => mItem'[q] = mItem[q]
    BY <1>1
  <2>4. mData'[pos % Size] = mData[pos % Size]
    BY <1>1
  <2>. QED  BY <1>2, <2>2, <2>3, <2>4, SameItem
<1>. QED  BY <1>1, <1>2, <1>3, <1>5, <1>6, <1>7, <1>8 DEF Kept

LEMMA TakenStep ==
  ASSUME ItemsInv, ItemsInv', ~mOver', M!Move
  PROVE  /\ ~mOver /\ mHead' = mHead /\ MpscFirst < mHead /\ MpscFirst' = MpscFirst + 1 /\ Kept
         /\ MpscTaken["consumer"] = None /\ MpscTaken' = [MpscTaken EXCEPT !["consumer"] = mOut']
         /\ \A pos : pos = MpscFirst => mOut' = M!ItemAt(pos)
<1>. USE DEF ItemsInv
<1>0. PICK t \in Nat : t = mTail
  BY ClaimsType
<1>1. /\ mCpc = "move" /\ mCpc' = "clear" /\ mOut' = mData[t % Size]
      /\ mData' = [mData EXCEPT ![t % Size] = None]
      /\ UNCHANGED <<mHead, mTail, mReady, mOver, mPc, mCur, mItem>>
  BY <1>0 DEF M!Move, M!producerVars, M!Slot
<1>2. ~mOver /\ ~M!Taken /\ M!Taken'
  BY <1>1 DEF M!Taken
<1>3. MpscFirst = t /\ MpscFirst' = t + 1
  BY <1>0, <1>1, <1>2 DEF MpscFirst
<1>4. t < mHead /\ mHead \in Nat /\ mHead <= t + Size /\ \A q \in Producers : ~Writing(q, t)
  BY <1>0, <1>1, <1>2, ClaimsType DEF ClaimsInv, CountsInv, OwnersInv, M!Filling, Writing
<1>5. MpscTaken["consumer"] = None /\ MpscTaken' = [MpscTaken EXCEPT !["consumer"] = mOut']
  BY <1>2 DEF MpscTaken
<1>6. M!ItemAt(t) = mOut'
  BY <1>1, <1>2, <1>4
<1>7. mData \in [0..Size-1 -> Values \cup {None}] /\ t % Size \in 0..Size-1
  <2>1. t % Size \in 0..Size-1
    BY SlotType
  <2>. QED  BY <2>1 DEF ClaimsInv, M!TypeOK, M!Slots
<1>8. ASSUME NEW pos \in t..(mHead - 1), pos >= t + 1 PROVE M!ItemAt(pos)' = M!ItemAt(pos)
  <2>1. pos % Size # t % Size
    <3>1. pos \in t..(t + Size - 1) /\ t \in t..(t + Size - 1) /\ pos # t
      BY <1>4, <1>8, SizeNat
    <3>. QED  BY <3>1, OneLap
  <2>2. mData'[pos % Size] = mData[pos % Size]
    BY <1>1, <1>7, <2>1
  <2>3. \A q \in Producers : Writing(q, pos)' <=> Writing(q, pos)
    BY <1>1 DEF Writing
  <2>4. \A q \in Producers : Writing(q, pos) => mItem'[q] = mItem[q]
    BY <1>1
  <2>. QED  BY <1>1, <1>2, <2>2, <2>3, <2>4, SameItem
<1>9. Kept
  BY <1>3, <1>8 DEF Kept
<1>. QED  BY <1>1, <1>2, <1>3, <1>4, <1>5, <1>6, <1>9

LEMMA ReturnedStep ==
  ASSUME ItemsInv, ItemsInv', ~mOver', M!Advance
  PROVE  /\ ~mOver /\ mHead' = mHead /\ MpscFirst' = MpscFirst /\ Kept
         /\ M!Taken /\ ~M!Taken' /\ MpscTaken["consumer"] = mOut
         /\ MpscTaken' = [MpscTaken EXCEPT !["consumer"] = None]
<1>. USE DEF ItemsInv
<1>1. /\ mCpc = "advance" /\ mCpc' = "idle" /\ mTail' = mTail + 1
      /\ UNCHANGED <<mHead, mReady, mData, mOver, mPc, mCur, mItem>>
  BY DEF M!Advance, M!producerVars
<1>2. ~mOver /\ M!Taken /\ ~M!Taken'
  BY <1>1 DEF M!Taken
<1>3. MpscFirst' = MpscFirst
  <2>1. mTail \in Nat
    BY ClaimsType
  <2>2. MpscFirst = mTail + 1 /\ MpscFirst' = mTail' + 0
    BY <1>2 DEF MpscFirst
  <2>. QED  BY <1>1, <2>1, <2>2
<1>4. ASSUME NEW pos PROVE M!ItemAt(pos)' = M!ItemAt(pos)
  <2>1. \A p \in Producers : /\ Writing(p, pos)' <=> Writing(p, pos)
                             /\ Writing(p, pos) => mItem'[p] = mItem[p]
    BY <1>1 DEF Writing
  <2>2. mData'[pos % Size] = mData[pos % Size]
    BY <1>1
  <2>. QED  BY <1>2, <2>1, <2>2, SameItem
<1>5. MpscTaken["consumer"] = mOut /\ MpscTaken' = [MpscTaken EXCEPT !["consumer"] = None]
  BY <1>2 DEF MpscTaken
<1>. QED  BY <1>1, <1>2, <1>3, <1>4, <1>5 DEF Kept

\* Until the ring is overrun, what the queue holds are values.
HeldInv == ~mOver =>
  /\ \A pos \in MpscFirst..(mHead - 1) : M!ItemAt(pos) \in Values
  /\ M!Taken => mOut \in Values

LEMMA HeldInit == M!Init => HeldInv
<1>. SUFFICES ASSUME M!Init PROVE HeldInv
  OBVIOUS
<1>1. ~M!Taken /\ mHead = 0 /\ mTail = 0
  BY DEF M!Init, M!Taken
<1>2. MpscFirst = 0
  BY <1>1 DEF MpscFirst
<1>. QED  BY <1>1, <1>2 DEF HeldInv

LEMMA HeldStep == ItemsInv /\ ItemsInv' /\ HeldInv /\ [M!Next]_mVars => HeldInv'
<1>. SUFFICES ASSUME ItemsInv, ItemsInv', HeldInv, [M!Next]_mVars, ~mOver'
              PROVE  /\ \A pos \in MpscFirst'..(mHead' - 1) : M!ItemAt(pos)' \in Values
                     /\ M!Taken' => mOut' \in Values
  BY DEF HeldInv
<1>1. MpscFirst \in Nat /\ mHead \in Nat /\ MpscFirst <= mHead
  BY FirstNat DEF ItemsInv
<1>2. ASSUME Kept, ~mOver, mHead' = mHead, MpscFirst' = MpscFirst \/ MpscFirst' = MpscFirst + 1
      PROVE  \A pos \in MpscFirst'..(mHead' - 1) : M!ItemAt(pos)' \in Values
  <2>. SUFFICES ASSUME NEW pos \in MpscFirst'..(mHead' - 1) PROVE M!ItemAt(pos)' \in Values
    OBVIOUS
  <2>1. pos \in MpscFirst..(mHead - 1) /\ pos >= MpscFirst'
    BY <1>1, <1>2
  <2>2. M!ItemAt(pos)' = M!ItemAt(pos)
    BY <1>2, <2>1 DEF Kept
  <2>. QED  BY <1>2, <2>1, <2>2 DEF HeldInv
<1>3. ASSUME SameTaken, ~mOver PROVE M!Taken' => mOut' \in Values
  BY <1>3 DEF HeldInv, SameTaken
<1>4. CASE \/ \E p \in Producers : \/ M!Check(p) \/ M!Retry(p) \/ M!SetReady(p)
                                   \/ \E v \in Values : M!TryEnqueue(p, v)
           \/ M!TryDequeue \/ M!Clear \/ UNCHANGED mVars
  <2>1. ~mOver /\ mHead' = mHead /\ MpscFirst' = MpscFirst /\ SameTaken /\ Kept
    BY <1>4, QuietSteps
  <2>. QED  BY <1>2, <1>3, <2>1
<1>5. ASSUME NEW p \in Producers, M!Write(p)
      PROVE  /\ \A pos \in MpscFirst'..(mHead' - 1) : M!ItemAt(pos)' \in Values
             /\ M!Taken' => mOut' \in Values
  <2>1. ~mOver /\ mHead' = mHead /\ MpscFirst' = MpscFirst /\ SameTaken /\ Kept
    BY <1>5, WrittenStep
  <2>. QED  BY <1>2, <1>3, <2>1
<1>6. ASSUME NEW p \in Producers, M!Claim(p)
      PROVE  /\ \A pos \in MpscFirst'..(mHead' - 1) : M!ItemAt(pos)' \in Values
             /\ M!Taken' => mOut' \in Values
  <2>1. /\ ~mOver /\ mHead' = mHead + 1 /\ MpscFirst' = MpscFirst /\ SameTaken /\ Kept
        /\ mItem[p] \in Values /\ \A pos : pos = mHead => M!ItemAt(pos)' = mItem[p]
    BY <1>6, ClaimedStep
  <2>2. ASSUME NEW pos \in MpscFirst'..(mHead' - 1) PROVE M!ItemAt(pos)' \in Values
    <3>1. pos = mHead \/ pos \in MpscFirst..(mHead - 1)
      BY <1>1, <2>1
    <3>2. CASE pos = mHead
      BY <2>1, <3>2
    <3>3. CASE pos \in MpscFirst..(mHead - 1)
      <4>1. pos >= MpscFirst'
        BY <1>1, <2>1, <3>3
      <4>2. M!ItemAt(pos)' = M!ItemAt(pos)
        BY <2>1, <3>3, <4>1 DEF Kept
      <4>. QED  BY <2>1, <3>3, <4>2 DEF HeldInv
    <3>. QED  BY <3>1, <3>2, <3>3
  <2>. QED  BY <1>3, <2>1, <2>2
<1>7. CASE M!Move
  <2>1. /\ ~mOver /\ mHead' = mHead /\ MpscFirst < mHead /\ MpscFirst' = MpscFirst + 1 /\ Kept
        /\ \A pos : pos = MpscFirst => mOut' = M!ItemAt(pos)
    BY <1>7, TakenStep
  <2>2. PICK f \in Nat : f = MpscFirst
    BY <1>1
  <2>3. f \in MpscFirst..(mHead - 1)
    BY <1>1, <2>1, <2>2
  <2>4. mOut' \in Values
    BY <2>1, <2>2, <2>3 DEF HeldInv
  <2>. QED  BY <1>2, <2>1, <2>4
<1>8. CASE M!Advance
  BY <1>2, <1>8, ReturnedStep
<1>. QED  BY <1>4, <1>5, <1>6, <1>7, <1>8 DEF M!Next, M!EnqueueStep, M!DequeueStep

\* A step that keeps the items keeps what the queue holds.
LEMMA KeptQueued ==
  ASSUME ItemsInv, Kept, mHead' = mHead, MpscFirst' = MpscFirst
  PROVE  MpscQueued' = MpscQueued
<1>. PICK f \in Nat, h \in Nat : f = MpscFirst /\ h = mHead
  BY FirstNat DEF ItemsInv
<1>1. MpscQueued = [i \in 1..(h - f) |-> M!ItemAt(f + i - 1)]
  BY DEF MpscQueued
<1>2. MpscQueued' = [i \in 1..(h - f) |-> M!ItemAt(f + i - 1)']
  BY DEF MpscQueued
<1>3. \A i \in 1..(h - f) : f + i - 1 \in f..(h - 1) /\ f + i - 1 >= f
  OBVIOUS
<1>4. \A i \in 1..(h - f) : M!ItemAt(f + i - 1)' = M!ItemAt(f + i - 1)
  BY <1>3 DEF Kept
<1>. QED  BY <1>1, <1>2, <1>4

LEMMA MpscEnqueues ==
  ASSUME ItemsInv, ItemsInv', HeldInv, ~mOver', NEW p \in Producers, M!Claim(p)
  PROVE  Len(MpscQueued) < Size /\ mItem[p] \in Values /\ MpscQueued' = Append(MpscQueued, mItem[p])
<1>1. /\ ~mOver /\ mHead' = mHead + 1 /\ MpscFirst' = MpscFirst /\ Kept
      /\ mHead - MpscFirst < Size /\ mItem[p] \in Values
      /\ \A pos : pos = mHead => M!ItemAt(pos)' = mItem[p]
  BY ClaimedStep
<1>2. PICK f \in Nat, h \in Nat : f = MpscFirst /\ h = mHead /\ f <= h
  BY FirstNat DEF ItemsInv
<1>3. PICK k \in Nat : k = h - f
  BY <1>2
<1>4. MpscQueued = [i \in 1..k |-> M!ItemAt(f + i - 1)]
  BY <1>2, <1>3 DEF MpscQueued
<1>5. MpscQueued' = [i \in 1..(k + 1) |-> M!ItemAt(f + i - 1)']
  <2>1. mHead' - MpscFirst' = k + 1
    BY <1>1, <1>2, <1>3
  <2>2. MpscFirst' = f
    BY <1>1, <1>2
  <2>. QED  BY <2>1, <2>2 DEF MpscQueued
<1>6. \A i \in 1..k : f + i - 1 \in f..(h - 1) /\ f + i - 1 >= f /\ i \in 1..(k + 1)
  BY <1>2, <1>3
<1>7. \A i \in 1..k : M!ItemAt(f + i - 1)' = M!ItemAt(f + i - 1) /\ M!ItemAt(f + i - 1) \in Values
  BY <1>1, <1>2, <1>6 DEF Kept, HeldInv
<1>8. f + (k + 1) - 1 = h /\ k + 1 \in 1..(k + 1)
  BY <1>2, <1>3
<1>9. M!ItemAt(f + (k + 1) - 1)' = mItem[p]
  BY <1>1, <1>2, <1>8
<1>10. MpscQueued'[k + 1] = mItem[p]
  BY <1>5, <1>8, <1>9
<1>11. \A i \in 1..k : MpscQueued'[i] = MpscQueued[i] /\ MpscQueued[i] \in Values
  BY <1>4, <1>5, <1>6, <1>7
<1>12. MpscQueued \in [1..k -> Values]
  BY <1>4, <1>7
<1>13. MpscQueued' \in [1..(k + 1) -> Values]
  <2>1. \A i \in 1..(k + 1) : i = k + 1 \/ i \in 1..k
    OBVIOUS
  <2>2. \A i \in 1..(k + 1) : MpscQueued'[i] \in Values
    BY <1>1, <1>10, <1>11, <2>1
  <2>. QED  BY <1>5, <2>2
<1>14. MpscQueued' = Append(MpscQueued, mItem[p])
  BY <1>1, <1>10, <1>11, <1>12, <1>13, AppendIs
<1>15. Len(MpscQueued) = k
  BY <1>12, FunctionIsSeq
<1>. QED  BY <1>1, <1>2, <1>3, <1>14, <1>15

LEMMA MpscDequeues ==
  ASSUME ItemsInv, ItemsInv', HeldInv, ~mOver', M!Move
  PROVE  MpscQueued # << >> /\ Head(MpscQueued) = mOut' /\ MpscQueued' = Tail(MpscQueued)
<1>1. /\ ~mOver /\ mHead' = mHead /\ MpscFirst < mHead /\ MpscFirst' = MpscFirst + 1 /\ Kept
      /\ \A pos : pos = MpscFirst => mOut' = M!ItemAt(pos)
  BY TakenStep
<1>2. PICK f \in Nat, h \in Nat : f = MpscFirst /\ h = mHead /\ f < h
  BY <1>1, FirstNat DEF ItemsInv
<1>3. PICK k \in Nat : k = h - f
  BY <1>2
<1>4. MpscQueued = [i \in 1..k |-> M!ItemAt(f + i - 1)]
  BY <1>2, <1>3 DEF MpscQueued
<1>5. MpscQueued' = [i \in 1..(k - 1) |-> M!ItemAt((f + 1) + i - 1)']
  <2>1. mHead' - MpscFirst' = k - 1
    BY <1>1, <1>2, <1>3
  <2>2. MpscFirst' = f + 1
    BY <1>1, <1>2
  <2>. QED  BY <2>1, <2>2 DEF MpscQueued
<1>6. \A i \in 1..(k - 1) : /\ (f + 1) + i - 1 \in f..(h - 1) /\ (f + 1) + i - 1 >= f + 1
                            /\ (f + 1) + i - 1 = f + (i + 1) - 1 /\ i + 1 \in 1..k
  BY <1>2, <1>3
<1>7. ASSUME NEW i \in 1..(k - 1) PROVE MpscQueued'[i] = MpscQueued[i + 1] /\ MpscQueued[i + 1] \in Values
  <2>1. PICK x \in f..(h - 1) : x = (f + 1) + i - 1 /\ x = f + (i + 1) - 1 /\ x >= f + 1
    BY <1>6
  <2>2. MpscQueued'[i] = M!ItemAt(x)'
    BY <1>5, <2>1
  <2>3. MpscQueued[i + 1] = M!ItemAt(x)
    BY <1>4, <1>6, <2>1
  <2>4. M!ItemAt(x)' = M!ItemAt(x)
    BY <1>1, <1>2, <2>1 DEF Kept
  <2>5. M!ItemAt(x) \in Values
    BY <1>1, <1>2, <2>1 DEF HeldInv
  <2>. QED  BY <2>2, <2>3, <2>4, <2>5
<1>8. MpscQueued' \in [1..(k - 1) -> Values]
  <2>1. \A i \in 1..(k - 1) : MpscQueued'[i] \in Values
    BY <1>7
  <2>. QED  BY <1>5, <2>1
<1>9. MpscQueued \in [1..k -> Values]
  <2>1. \A i \in 1..k : f + i - 1 \in f..(h - 1)
    BY <1>2, <1>3
  <2>2. \A i \in 1..k : M!ItemAt(f + i - 1) \in Values
    BY <1>1, <1>2, <2>1 DEF HeldInv
  <2>. QED  BY <1>4, <2>2
<1>10. MpscQueued[1] = mOut'
  <2>1. 1 \in 1..k /\ f + 1 - 1 = f
    BY <1>2, <1>3
  <2>2. MpscQueued[1] = M!ItemAt(f + 1 - 1)
    BY <1>4, <2>1
  <2>. QED  BY <1>1, <1>2, <2>1, <2>2
<1>11. k > 0
  BY <1>2, <1>3
<1>12. MpscQueued' = Tail(MpscQueued) /\ MpscQueued # << >> /\ Head(MpscQueued) = MpscQueued[1]
  BY <1>7, <1>8, <1>9, <1>11, TailIs
<1>. QED  BY <1>10, <1>12

\* Until the ring is overrun, a step of mpsc_bounded_queue appends the item of
\* the producer that claims a position, hands the oldest to the consumer, ends
\* its call or changes nothing that a caller can see.
LEMMA MpscFifoStep == ItemsInv /\ ItemsInv' /\ HeldInv /\ [M!Next]_mVars => [mOver' \/ M!F!Next]_(M!F!vars)
<1>. SUFFICES ASSUME ItemsInv, ItemsInv', HeldInv, [M!Next]_mVars, ~mOver'
              PROVE  M!F!Next \/ (MpscQueued' = MpscQueued /\ MpscTaken' = MpscTaken)
  BY DEF M!F!vars, MpscQueued, MpscTaken, MpscFirst
<1>1. CASE \/ \E p \in Producers : \/ M!Check(p) \/ M!Retry(p) \/ M!SetReady(p)
                                   \/ \E v \in Values : M!TryEnqueue(p, v)
           \/ M!TryDequeue \/ M!Clear \/ UNCHANGED mVars
  BY <1>1, QuietSteps, KeptQueued, SameTakenIs
<1>2. ASSUME NEW p \in Producers, M!Write(p) PROVE MpscQueued' = MpscQueued /\ MpscTaken' = MpscTaken
  BY <1>2, WrittenStep, KeptQueued, SameTakenIs
<1>3. ASSUME NEW p \in Producers, M!Claim(p) PROVE M!F!Next
  <2>1. Len(MpscQueued) < Size /\ mItem[p] \in Values /\ MpscQueued' = Append(MpscQueued, mItem[p])
    BY <1>3, MpscEnqueues
  <2>2. MpscTaken' = MpscTaken
    BY <1>3, ClaimedStep, SameTakenIs
  <2>3. M!F!Enqueue(mItem[p])
    BY <2>1, <2>2 DEF M!F!Enqueue, MpscQueued, MpscTaken, MpscFirst
  <2>. QED  BY <2>1, <2>3 DEF M!F!Next
<1>4. CASE M!Move
  <2>1. MpscQueued # << >> /\ Head(MpscQueued) = mOut' /\ MpscQueued' = Tail(MpscQueued)
    BY <1>4, MpscDequeues
  <2>2. MpscTaken["consumer"] = None /\ MpscTaken' = [MpscTaken EXCEPT !["consumer"] = mOut']
    BY <1>4, TakenStep
  <2>3. M!F!Dequeue("consumer")
    BY <2>1, <2>2 DEF M!F!Dequeue, MpscQueued, MpscTaken, MpscFirst
  <2>. QED  BY <2>3 DEF M!F!Next
<1>5. CASE M!Advance
  <2>1. /\ ~mOver /\ mHead' = mHead /\ MpscFirst' = MpscFirst /\ Kept /\ M!Taken /\ MpscTaken["consumer"] = mOut
        /\ MpscTaken' = [MpscTaken EXCEPT !["consumer"] = None]
    BY <1>5, ReturnedStep
  <2>2. MpscQueued' = MpscQueued
    BY <2>1, KeptQueued
  <2>3. MpscTaken["consumer"] # None
    BY <2>1, ModulusNat DEF HeldInv
  <2>4. M!F!Return("consumer")
    BY <2>1, <2>2, <2>3 DEF M!F!Return, MpscQueued, MpscTaken, MpscFirst
  <2>. QED  BY <2>4 DEF M!F!Next
<1>. QED  BY <1>1, <1>2, <1>3, <1>4, <1>5 DEF M!Next, M!EnqueueStep, M!DequeueStep

LEMMA MpscFifoInit == M!Init => M!F!Init
<1>. SUFFICES ASSUME M!Init PROVE M!F!Init
  OBVIOUS
<1>1. mHead = 0 /\ mTail = 0 /\ ~M!Taken
  BY DEF M!Init, M!Taken
<1>2. MpscFirst = 0 /\ mHead - MpscFirst = 0
  <2>1. MpscFirst = mTail + 0
    BY <1>1 DEF MpscFirst
  <2>. QED  BY <1>1, <2>1
<1>3. MpscQueued = [i \in 1..0 |-> M!ItemAt(MpscFirst + i - 1)]
  BY <1>2 DEF MpscQueued
<1>4. MpscQueued = << >>
  BY <1>3
<1>5. MpscTaken = [t \in {"consumer"} |-> None]
  BY <1>1 DEF MpscTaken
<1>. QED  BY <1>4, <1>5 DEF M!F!Init, MpscQueued, MpscFirst, MpscTaken

\* The bounded queues are FIFOs up to where their arithmetic fails:
\* mpsc_bounded_queue until its ring is overrun, spsc_bounded_queue for its
\* first log2(Size) + 1 items.
THEOREM BoundedQueuesAreFifo == MCSpec => BoundedAreFifo
<1>1. MCSpec => M!FifoUntilOverrun
  BY ClaimsBehaviour, ClaimsInit, ClaimsStep, ClaimsGiveItems, HeldInit, HeldStep, MpscFifoInit,
     MpscFifoStep, PTL DEF M!FifoUntilOverrun
<1>. QED  BY <1>1, SpscIsFifo DEF BoundedAreFifo

-----------------------------------------------------------------------------
(* SpmcNonUniformQueue *)

LEMMA BytesNat ==
  /\ BufferSize \in Nat /\ BufferSize > 0 /\ Header \in Nat /\ Header > 0 /\ MaxByte \in Nat
  /\ \A n \in Sizes : n \in Nat /\ n > 0 /\ n <= BufferSize
BY BytesAssumption

\* Where the lap of a position begins, and the bytes of a message there.
Lap(pos)     == BufferSize * (pos \div BufferSize)
HeadOf(pos)  == (pos % BufferSize)..((pos % BufferSize) + Header - 1)
BodyOf(pos, n) == N!WritePos(pos, n)..(N!WritePos(pos, n) + n - 1)
End(m)       == N!PositionAfterWrite(m.start, m.size)

LEMMA LapIs ==
  ASSUME NEW p \in Nat
  PROVE  /\ Lap(p) \in Int /\ p % BufferSize \in 0..(BufferSize - 1)
         /\ p = Lap(p) + (p % BufferSize) /\ N!NextLap(p) = Lap(p) + BufferSize
<1>. DEFINE d == p \div BufferSize
<1>1. d \in Int /\ p % BufferSize \in 0..(BufferSize - 1) /\ p = BufferSize * d + (p % BufferSize)
  BY BytesNat, DivMod
<1>. HIDE DEF d
<1>2. BufferSize * d \in Int /\ (d + 1) * BufferSize = BufferSize * d + BufferSize
  BY <1>1, BytesNat
<1>. QED  BY <1>1, <1>2, BytesNat DEF Lap, N!NextLap, d

\* A later position is in the same lap, in the next, or beyond.
LEMMA LapOrder ==
  ASSUME NEW p \in Nat, NEW q \in Nat, p <= q
  PROVE  Lap(q) = Lap(p) \/ Lap(q) = Lap(p) + BufferSize \/ Lap(q) >= Lap(p) + 2 * BufferSize
<1>. DEFINE a == p \div BufferSize   b == q \div BufferSize
<1>1. a \in Int /\ b \in Int
  BY BytesNat, DivMod
<1>2. Lap(p) = BufferSize * a /\ Lap(q) = BufferSize * b
  BY DEF Lap
<1>. HIDE DEF a, b
<1>3. a + 1 \in Int /\ BufferSize * (a + 1) = Lap(p) + BufferSize /\ Lap(p) \in Int /\ Lap(q) \in Int
  BY <1>1, <1>2, BytesNat
<1>4. ~(Lap(q) < Lap(p))
  <2>. SUFFICES ASSUME Lap(q) < Lap(p) PROVE FALSE
    OBVIOUS
  <2>1. Lap(q) + BufferSize <= Lap(p)
    BY <1>1, <1>2, BytesNat, Multiples
  <2>. QED  BY <2>1, <1>3, LapIs, BytesNat
<1>5. Lap(p) < Lap(q) => Lap(p) + BufferSize <= Lap(q)
  BY <1>1, <1>2, BytesNat, Multiples
<1>6. Lap(p) + BufferSize < Lap(q) => Lap(p) + BufferSize + BufferSize <= Lap(q)
  BY <1>1, <1>2, <1>3, BytesNat, Multiples
<1>. QED  BY <1>3, <1>4, <1>5, <1>6, BytesNat

\* The next position is beyond the message, whose bytes are in the ring and
\* its padding.
LEMMA WriteIs ==
  ASSUME NEW p \in Nat, NEW n \in Sizes
  PROVE  /\ N!PositionAfterWrite(p, n) \in Nat /\ N!PositionAfterWrite(p, n) > p
         /\ HeadOf(p) \subseteq N!Bytes /\ BodyOf(p, n) \subseteq N!Bytes
         /\ p % BufferSize \in HeadOf(p) /\ N!WritePos(p, n) \in BodyOf(p, n)
         /\ N!WritePos(p, n) \in Nat
<1>. DEFINE L == Lap(p)   r == p % BufferSize
<1>1. L \in Int /\ r \in 0..(BufferSize - 1) /\ p = L + r /\ N!NextLap(p) = L + BufferSize
  BY LapIs
<1>2. N!PositionAfterWrite(p, n) = IF r + n + Header > BufferSize THEN L + BufferSize + n ELSE L + r + Header + n
  BY <1>1 DEF N!PositionAfterWrite, N!Wraps
<1>3. N!WritePos(p, n) = IF r + n + Header > BufferSize THEN 0 ELSE r + Header
  BY DEF N!WritePos, N!Wraps
<1>4. HeadOf(p) = r..(r + Header - 1)
  BY DEF HeadOf
<1>. HIDE DEF L, r
<1>5. N!PositionAfterWrite(p, n) \in Nat /\ N!PositionAfterWrite(p, n) > p /\ N!WritePos(p, n) \in Nat
  BY <1>1, <1>2, <1>3, BytesNat
<1>6. HeadOf(p) \subseteq N!Bytes /\ r \in HeadOf(p)
  BY <1>1, <1>4, BytesNat DEF N!Bytes
<1>7. BodyOf(p, n) \subseteq N!Bytes /\ N!WritePos(p, n) \in BodyOf(p, n)
  <2>1. N!WritePos(p, n) + n <= BufferSize
    BY <1>1, <1>3, BytesNat
  <2>. QED  BY <2>1, <1>5, BytesNat DEF BodyOf, N!Bytes
<1>. QED  BY <1>5, <1>6, <1>7 DEF r

\* A message does not run into an earlier one that ends at most a lap before.
LEMMA Apart ==
  ASSUME NEW p \in Nat, NEW m \in Sizes, NEW q \in Nat, NEW n \in Sizes,
         q >= N!PositionAfterWrite(p, m), N!PositionAfterWrite(q, n) <= p + BufferSize
  PROVE  \A b \in HeadOf(q) \cup BodyOf(q, n) : b \notin HeadOf(p) /\ b \notin BodyOf(p, m)
<1>. DEFINE L == Lap(p)   r == p % BufferSize   J == Lap(q)   s == q % BufferSize
<1>1. L \in Int /\ r \in 0..(BufferSize - 1) /\ p = L + r /\ N!NextLap(p) = L + BufferSize
  BY LapIs
<1>2. J \in Int /\ s \in 0..(BufferSize - 1) /\ q = J + s /\ N!NextLap(q) = J + BufferSize
  BY LapIs
<1>3. N!PositionAfterWrite(p, m) = IF r + m + Header > BufferSize THEN L + BufferSize + m ELSE L + r + Header + m
  BY <1>1 DEF N!PositionAfterWrite, N!Wraps
<1>4. N!PositionAfterWrite(q, n) = IF s + n + Header > BufferSize THEN J + BufferSize + n ELSE J + s + Header + n
  BY <1>2 DEF N!PositionAfterWrite, N!Wraps
<1>5. BodyOf(p, m) = IF r + m + Header > BufferSize THEN 0..(m - 1) ELSE (r + Header)..(r + Header + m - 1)
  BY BytesNat DEF BodyOf, N!WritePos, N!Wraps
<1>6. BodyOf(q, n) = IF s + n + Header > BufferSize THEN 0..(n - 1) ELSE (s + Header)..(s + Header + n - 1)
  BY BytesNat DEF BodyOf, N!WritePos, N!Wraps
<1>7. HeadOf(p) = r..(r + Header - 1) /\ HeadOf(q) = s..(s + Header - 1)
  BY DEF HeadOf
<1>. SUFFICES ASSUME NEW b \in Int, b \in HeadOf(q) \/ b \in BodyOf(q, n)
              PROVE  b \notin HeadOf(p) /\ b \notin BodyOf(p, m)
  BY <1>6, <1>7, BytesNat
<1>8. b \in HeadOf(q) => s <= b /\ b < s + Header
  BY <1>7, <1>2, BytesNat
<1>9. b \in BodyOf(q, n) => IF s + n + Header > BufferSize THEN 0 <= b /\ b < n ELSE s + Header <= b /\ b < s + Header + n
  BY <1>6, <1>2, BytesNat
<1>10. b \in HeadOf(p) => r <= b /\ b < r + Header
  BY <1>7, <1>1, BytesNat
<1>11. b \in BodyOf(p, m) => IF r + m + Header > BufferSize THEN 0 <= b /\ b < m ELSE r + Header <= b /\ b < r + Header + m
  BY <1>5, <1>1, BytesNat
<1>12. J = L \/ J = L + BufferSize \/ J >= L + 2 * BufferSize
  BY LapOrder, WriteIs, BytesNat
<1>. HIDE DEF L, r, J, s
<1>13. CASE r + m + Header > BufferSize
  <2>1. J = L + BufferSize /\ ~(s + n + Header > BufferSize) /\ s >= m /\ s + Header + n <= r
    BY <1>13, <1>1, <1>2, <1>3, <1>4, <1>12, BytesNat
  <2>. QED  BY <2>1, <1>13, <1>1, <1>2, <1>8, <1>9, <1>10, <1>11, BytesNat
<1>14. CASE ~(r + m + Header > BufferSize)
  <2>1. CASE J = L
    <3>1. s >= r + Header + m
      BY <2>1, <1>14, <1>1, <1>2, <1>3, BytesNat
    <3>2. s + n + Header > BufferSize => n <= r
      BY <2>1, <1>1, <1>2, <1>4, BytesNat
    <3>. QED  BY <3>1, <3>2, <1>14, <1>1, <1>2, <1>8, <1>9, <1>10, <1>11, BytesNat
  <2>2. CASE J # L
    <3>1. J = L + BufferSize /\ ~(s + n + Header > BufferSize) /\ s + Header + n <= r
      BY <2>2, <1>1, <1>2, <1>4, <1>12, BytesNat
    <3>. QED  BY <3>1, <1>14, <1>1, <1>2, <1>8, <1>9, <1>10, <1>11, BytesNat
  <2>. QED  BY <2>1, <2>2
<1>. QED  BY <1>13, <1>14

\* Nor into its own size, if it ends at most a lap after its start.
LEMMA OwnApart ==
  ASSUME NEW p \in Nat, NEW n \in Sizes, N!PositionAfterWrite(p, n) <= p + BufferSize
  PROVE  \A b \in BodyOf(p, n) : b \notin HeadOf(p)
<1>. DEFINE L == Lap(p)   r == p % BufferSize
<1>1. L \in Int /\ r \in 0..(BufferSize - 1) /\ p = L + r /\ N!NextLap(p) = L + BufferSize
  BY LapIs
<1>2. N!PositionAfterWrite(p, n) = IF r + n + Header > BufferSize THEN L + BufferSize + n ELSE L + r + Header + n
  BY <1>1 DEF N!PositionAfterWrite, N!Wraps
<1>3. BodyOf(p, n) = IF r + n + Header > BufferSize THEN 0..(n - 1) ELSE (r + Header)..(r + Header + n - 1)
  BY BytesNat DEF BodyOf, N!WritePos, N!Wraps
<1>4. HeadOf(p) = r..(r + Header - 1)
  BY DEF HeadOf
<1>. HIDE DEF L, r
<1>. QED  BY <1>1, <1>2, <1>3, <1>4, BytesNat

\* Where the last message ends.
LastEnd == IF Len(nSent) = 0 THEN 0 ELSE End(nSent[Len(nSent)])

ByteTypes == /\ N!TypeOK /\ DOMAIN nRead = ByteConsumers /\ DOMAIN nSize = ByteConsumers
             /\ DOMAIN nFrom = ByteConsumers /\ DOMAIN nGot = ByteConsumers /\ DOMAIN nDue = ByteConsumers

\* Every message starts where the one before it ends, and the writer's
\* position is that of the message being written or of the next one.
SentInv ==
  /\ nSent \in Seq([start : Nat, size : Sizes])
  /\ \A k \in 1..Len(nSent) : \A j \in 1..Len(nSent) :
       /\ k < j => nSent[j].start >= End(nSent[k])
       /\ j = k + 1 => nSent[j].start = End(nSent[k])
  /\ nPos = IF nWpc = "idle" THEN LastEnd ELSE nSent[Len(nSent)].start
  /\ nWpc # "idle" => Len(nSent) # 0
  /\ LastEnd <= MaxByte

\* A message that nothing has run into is in the ring, but for what is still to
\* be written of the last.
BytesInv == \A k \in 1..Len(nSent) : LastEnd <= nSent[k].start + BufferSize =>
  /\ \A b \in HeadOf(nSent[k].start) : nBuffer[b] = <<k, "size">>
  /\ k < Len(nSent) \/ nWpc # "message" =>
       \A b \in BodyOf(nSent[k].start, nSent[k].size) : nBuffer[b] = <<k, "message">>

\* The message that is a consumer's turn has not been run into, and is not
\* being written while it is read.
KeepsUp(c) ==
  /\ nDue[c] \in 1..(Len(nSent) + 1) /\ nGot[c] = nDue[c] - 1
  /\ nDue[c] = Len(nSent) + 1 => nWpc = "idle"
  /\ nCpc[c] \in {"size", "message"} => nDue[c] # Len(nSent) + 1 /\ (nDue[c] = Len(nSent) => nWpc = "idle")
  /\ nCpc[c] # "lost"
  /\ nRead[c] = N!StartOf(IF nCpc[c] = "message" THEN nDue[c] + 1 ELSE nDue[c])
  /\ nDue[c] # Len(nSent) + 1 => LastEnd <= nSent[nDue[c]].start + BufferSize
  /\ nCpc[c] = "message" => /\ nSize[c] = nSent[nDue[c]].size
                            /\ nFrom[c] = N!WritePos(nSent[nDue[c]].start, nSent[nDue[c]].size)
ReadersInv == \A c \in ByteConsumers : nCpc[c] # "none" /\ ~nOver[c] => KeepsUp(c)

ByteInv == ByteTypes /\ SentInv /\ BytesInv /\ ReadersInv

SentFacts ==
         /\ Len(nSent) \in Nat /\ LastEnd \in Nat
         /\ \A k \in 1..Len(nSent) : /\ nSent[k].start \in Nat /\ nSent[k].size \in Sizes
                                     /\ End(nSent[k]) \in Nat /\ End(nSent[k]) <= LastEnd
                                     /\ nSent[k].start < End(nSent[k])

LEMMA SentAre == SentInv => SentFacts
<1>. SUFFICES ASSUME SentInv PROVE SentFacts
  OBVIOUS
<1>1. ASSUME NEW T, NEW s \in Seq(T) PROVE Len(s) \in Nat /\ \A k \in 1..Len(s) : s[k] \in T
  OBVIOUS
<1>2. Len(nSent) \in Nat /\ \A k \in 1..Len(nSent) : nSent[k].start \in Nat /\ nSent[k].size \in Sizes
  <2>1. Len(nSent) \in Nat /\ \A k \in 1..Len(nSent) : nSent[k] \in [start : Nat, size : Sizes]
    BY <1>1 DEF SentInv
  <2>. QED  BY <2>1
<1>3. \A k \in 1..Len(nSent) : End(nSent[k]) \in Nat /\ nSent[k].start < End(nSent[k])
  BY <1>2, WriteIs DEF End
<1>4. Len(nSent) # 0 => Len(nSent) \in 1..Len(nSent)
  BY <1>2
<1>5. LastEnd \in Nat
  BY <1>3, <1>4 DEF LastEnd
<1>6. ASSUME NEW k \in 1..Len(nSent) PROVE End(nSent[k]) <= LastEnd
  <2>1. Len(nSent) # 0 /\ (k = Len(nSent) \/ k < Len(nSent))
    BY <1>2
  <2>2. LastEnd = End(nSent[Len(nSent)])
    BY <2>1 DEF LastEnd
  <2>3. CASE k < Len(nSent)
    <3>1. nSent[Len(nSent)].start >= End(nSent[k])
      BY <2>1, <2>3, <1>4 DEF SentInv
    <3>. QED  BY <3>1, <2>1, <2>2, <1>2, <1>3, <1>4
  <2>. QED  BY <2>1, <2>2, <2>3, <1>3
<1>. QED  BY <1>2, <1>3, <1>5, <1>6 DEF SentFacts

LEMMA ByteInit == N!Init => ByteInv
<1>. SUFFICES ASSUME N!Init PROVE ByteInv
  OBVIOUS
<1>1. nSent = << >> /\ Len(nSent) = 0 /\ nPos = 0 /\ nWpc = "idle"
  BY DEF N!Init
<1>2. LastEnd = 0
  BY <1>1 DEF LastEnd
<1>3. SentInv
  BY <1>1, <1>2, BytesNat DEF SentInv
<1>4. BytesInv
  BY <1>1 DEF BytesInv
<1>5. ByteTypes /\ ReadersInv
  BY BytesNat DEF ByteTypes, ReadersInv, N!Init, N!TypeOK
<1>. QED  BY <1>3, <1>4, <1>5 DEF ByteInv

-----------------------------------------------------------------------------
\* The writer's steps.

LEMMA SizeWritten ==
  ASSUME ByteInv, NEW n \in Sizes, N!WriteSize(n)
  PROVE  /\ Len(nSent') = Len(nSent) + 1 /\ \A k \in 1..Len(nSent) : nSent'[k] = nSent[k]
         /\ nSent'[Len(nSent) + 1] = [start |-> nPos, size |-> n]
         /\ nPos \in Nat /\ nPos = LastEnd /\ nWpc = "idle" /\ nWpc' = "message" /\ nPos' = nPos
         /\ LastEnd' = N!PositionAfterWrite(nPos, n) /\ LastEnd' \in Nat /\ LastEnd < LastEnd'
         /\ LastEnd' <= MaxByte
<1>1. nWpc = "idle" /\ nPos = LastEnd /\ nPos \in Nat
  BY SentAre DEF SentFacts, ByteInv, SentInv, N!WriteSize
<1>2. nSent' = Append(nSent, [start |-> nPos, size |-> n]) /\ nWpc' = "message" /\ nPos' = nPos
  BY DEF N!WriteSize
<1>3. nSent \in Seq([start : Nat, size : Sizes]) /\ [start |-> nPos, size |-> n] \in [start : Nat, size : Sizes]
  BY <1>1 DEF ByteInv, SentInv
<1>4. \A T : \A s \in Seq(T) : \A x \in T :
        /\ Len(Append(s, x)) = Len(s) + 1 /\ Append(s, x)[Len(s) + 1] = x /\ Len(s) \in Nat
        /\ \A k \in 1..Len(s) : Append(s, x)[k] = s[k]
  OBVIOUS
<1>5. /\ Len(nSent') = Len(nSent) + 1 /\ \A k \in 1..Len(nSent) : nSent'[k] = nSent[k]
      /\ nSent'[Len(nSent) + 1] = [start |-> nPos, size |-> n] /\ Len(nSent) \in Nat
  BY <1>2, <1>3, <1>4
<1>6. LastEnd' = N!PositionAfterWrite(nPos, n)
  BY <1>5 DEF LastEnd, End
<1>7. LastEnd' \in Nat /\ LastEnd' > nPos
  BY <1>1, <1>6, WriteIs
<1>8. LastEnd' <= MaxByte
  BY <1>6 DEF N!WriteSize
<1>. QED  BY <1>1, <1>2, <1>5, <1>6, <1>7, <1>8

LEMMA WriteSizeSent ==
  ASSUME ByteInv, NEW n \in Sizes, N!WriteSize(n)
  PROVE  SentInv'
<1>. DEFINE l == Len(nSent)
<1>1. SentInv
  BY DEF ByteInv
<1>2. /\ Len(nSent') = l + 1 /\ \A k \in 1..l : nSent'[k] = nSent[k]
      /\ nSent'[l + 1] = [start |-> nPos, size |-> n]
      /\ nPos \in Nat /\ nPos = LastEnd /\ nWpc = "idle" /\ nWpc' = "message" /\ nPos' = nPos
      /\ LastEnd' <= MaxByte
  BY SizeWritten
<1>3. l \in Nat /\ \A k \in 1..l : End(nSent[k]) \in Nat /\ End(nSent[k]) <= LastEnd
  BY <1>1, SentAre DEF SentFacts
<1>4. nSent' \in Seq([start : Nat, size : Sizes])
  <2>1. nSent \in Seq([start : Nat, size : Sizes]) /\ [start |-> nPos, size |-> n] \in [start : Nat, size : Sizes]
    BY <1>1, <1>2 DEF SentInv
  <2>. QED  BY <2>1 DEF N!WriteSize
<1>5. ASSUME NEW k \in 1..(l + 1), NEW j \in 1..(l + 1)
      PROVE  /\ k < j => nSent'[j].start >= End(nSent'[k])
             /\ j = k + 1 => nSent'[j].start = End(nSent'[k])
  <2>1. CASE j = l + 1
    <3>1. j = k + 1 => l # 0 /\ k = l
      BY <2>1, <1>3
    <3>2. l # 0 => LastEnd = End(nSent[l])
      BY DEF LastEnd
    <3>3. k < j => k \in 1..l
      BY <2>1, <1>3
    <3>. QED  BY <2>1, <3>1, <3>2, <3>3, <1>2, <1>3
  <2>2. CASE j # l + 1
    <3>1. j \in 1..l /\ (k < j \/ j = k + 1 => k \in 1..l)
      BY <2>2, <1>3
    <3>. QED  BY <3>1, <1>1, <1>2 DEF SentInv
  <2>. QED  BY <2>1, <2>2
<1>6. nPos' = IF nWpc' = "idle" THEN LastEnd' ELSE nSent'[Len(nSent')].start
  BY <1>2
<1>. QED  BY <1>2, <1>3, <1>4, <1>5, <1>6 DEF SentInv

LEMMA WriteSizeBytes ==
  ASSUME ByteInv, NEW n \in Sizes, N!WriteSize(n)
  PROVE  BytesInv'
<1>. DEFINE l == Len(nSent)
<1>1. SentInv /\ BytesInv
  BY DEF ByteInv
<1>2. /\ Len(nSent') = l + 1 /\ \A k \in 1..l : nSent'[k] = nSent[k]
      /\ nSent'[l + 1] = [start |-> nPos, size |-> n]
      /\ nPos \in Nat /\ nPos = LastEnd /\ nWpc = "idle" /\ nWpc' = "message" /\ nPos' = nPos
      /\ LastEnd' = N!PositionAfterWrite(nPos, n) /\ LastEnd' \in Nat /\ LastEnd < LastEnd'
  BY SizeWritten
<1>3. /\ l \in Nat /\ LastEnd \in Nat
      /\ \A k \in 1..l : nSent[k].start \in Nat /\ nSent[k].size \in Sizes /\ End(nSent[k]) <= LastEnd
  BY <1>1, SentAre DEF SentFacts
<1>4. \A b \in N!Bytes : nBuffer'[b] = IF b \in HeadOf(nPos) THEN <<l + 1, "size">> ELSE nBuffer[b]
  BY DEF N!WriteSize, N!Fill, HeadOf
<1>. SUFFICES ASSUME NEW k \in 1..(l + 1), LastEnd' <= nSent'[k].start + BufferSize
              PROVE  /\ \A b \in HeadOf(nSent'[k].start) : nBuffer'[b] = <<k, "size">>
                     /\ k < l + 1 => \A b \in BodyOf(nSent'[k].start, nSent'[k].size) : nBuffer'[b] = <<k, "message">>
  BY <1>2 DEF BytesInv
<1>5. CASE k = l + 1
  <2>1. HeadOf(nPos) \subseteq N!Bytes
    BY <1>2, WriteIs
  <2>. QED  BY <2>1, <1>2, <1>3, <1>4, <1>5
<1>6. CASE k # l + 1
  <2>1. k \in 1..l
    BY <1>3, <1>6
  <2>. DEFINE p == nSent[k].start   m == nSent[k].size
  <2>2. p \in Nat /\ m \in Sizes /\ nSent'[k].start = p /\ nSent'[k].size = m
    BY <2>1, <1>2, <1>3
  <2>3. LastEnd <= p + BufferSize
    BY <2>2, <1>2, <1>3, BytesNat
  <2>4. /\ \A b \in HeadOf(p) : nBuffer[b] = <<k, "size">>
        /\ \A b \in BodyOf(p, m) : nBuffer[b] = <<k, "message">>
    BY <2>1, <2>3, <1>1, <1>2 DEF BytesInv
  <2>5. nPos >= N!PositionAfterWrite(p, m)
    BY <2>1, <1>2, <1>3 DEF End
  <2>6. \A b \in HeadOf(nPos) : b \notin HeadOf(p) /\ b \notin BodyOf(p, m)
    BY <2>2, <2>5, <1>2, Apart
  <2>7. HeadOf(p) \subseteq N!Bytes /\ BodyOf(p, m) \subseteq N!Bytes
    BY <2>2, WriteIs
  <2>. QED  BY <2>2, <2>4, <2>6, <2>7, <1>4
<1>. QED  BY <1>5, <1>6

LEMMA WriteMessageSent ==
  ASSUME ByteInv, N!WriteMessage \/ N!Store
  PROVE  SentInv' /\ nSent' = nSent /\ LastEnd' = LastEnd
<1>1. nSent' = nSent
  BY DEF N!WriteMessage, N!Store
<1>2. LastEnd' = LastEnd
  BY <1>1 DEF LastEnd
<1>3. nWpc # "idle" /\ Len(nSent) # 0 /\ nPos = nSent[Len(nSent)].start
  BY DEF ByteInv, SentInv, N!WriteMessage, N!Store
<1>4. nPos' = IF nWpc' = "idle" THEN LastEnd' ELSE nSent'[Len(nSent')].start
  BY <1>1, <1>2, <1>3 DEF N!WriteMessage, N!Store, LastEnd, End
<1>. QED  BY <1>1, <1>2, <1>3, <1>4 DEF ByteInv, SentInv

LEMMA WriteMessageBytes ==
  ASSUME ByteInv, N!WriteMessage
  PROVE  BytesInv'
<1>. DEFINE l == Len(nSent)   q == nSent[l].start   n == nSent[l].size
<1>1. SentInv /\ BytesInv
  BY DEF ByteInv
<1>2. nSent' = nSent /\ LastEnd' = LastEnd /\ nWpc = "message" /\ nWpc' = "store" /\ Len(nSent) # 0
  BY <1>1, WriteMessageSent DEF N!WriteMessage, SentInv
<1>3. /\ l \in Nat /\ LastEnd \in Nat /\ l \in 1..l
      /\ \A k \in 1..l : nSent[k].start \in Nat /\ nSent[k].size \in Sizes
  BY <1>1, <1>2, SentAre DEF SentFacts
<1>4. \A b \in N!Bytes : nBuffer'[b] = IF b \in BodyOf(q, n) THEN <<l, "message">> ELSE nBuffer[b]
  BY DEF N!WriteMessage, N!Fill, BodyOf
<1>5. LastEnd = N!PositionAfterWrite(q, n) /\ q \in Nat /\ n \in Sizes
  BY <1>2, <1>3 DEF LastEnd, End
<1>. SUFFICES ASSUME NEW k \in 1..l, LastEnd <= nSent[k].start + BufferSize
              PROVE  /\ \A b \in HeadOf(nSent[k].start) : nBuffer'[b] = <<k, "size">>
                     /\ \A b \in BodyOf(nSent[k].start, nSent[k].size) : nBuffer'[b] = <<k, "message">>
  BY <1>2 DEF BytesInv
<1>. DEFINE p == nSent[k].start   m == nSent[k].size
<1>6. p \in Nat /\ m \in Sizes /\ HeadOf(p) \subseteq N!Bytes /\ BodyOf(p, m) \subseteq N!Bytes
  BY <1>3, WriteIs
<1>7. /\ \A b \in HeadOf(p) : nBuffer[b] = <<k, "size">>
      /\ k < l => \A b \in BodyOf(p, m) : nBuffer[b] = <<k, "message">>
  BY <1>1 DEF BytesInv
<1>8. CASE k = l
  <2>1. \A b \in BodyOf(p, m) : b \notin HeadOf(p)
    BY <1>5, <1>8, OwnApart
  <2>. QED  BY <2>1, <1>4, <1>6, <1>7, <1>8
<1>9. CASE k # l
  <2>1. k < l
    BY <1>3, <1>9
  <2>2. q >= N!PositionAfterWrite(p, m)
    BY <2>1, <1>1, <1>3 DEF SentInv, End
  <2>3. \A b \in BodyOf(q, n) : b \notin HeadOf(p) /\ b \notin BodyOf(p, m)
    BY <2>2, <1>5, <1>6, Apart
  <2>. QED  BY <2>1, <2>3, <1>4, <1>6, <1>7
<1>. QED  BY <1>8, <1>9

LEMMA ByteTypesStep ==
  ASSUME ByteInv, N!Next, SentInv', SentFacts'
  PROVE  ByteTypes'
<1>1. nPos' \in Nat /\ nPos' <= MaxByte
  <2>1. \A i \in Nat : i # 0 => i \in 1..i
    OBVIOUS
  <2>2. /\ Len(nSent') \in Nat /\ LastEnd' \in Nat
        /\ \A k \in 1..Len(nSent') : /\ nSent'[k].start \in Nat /\ End(nSent'[k]) \in Nat
                                     /\ End(nSent'[k]) <= LastEnd' /\ nSent'[k].start < End(nSent'[k])
    BY DEF SentFacts
  <2>. QED  BY <2>1, <2>2, BytesNat DEF SentInv
<1>2. nWpc' \in {"idle", "message", "store"} /\ DOMAIN nBuffer' = N!Bytes
  BY DEF ByteInv, ByteTypes, N!TypeOK, N!Next, N!WriteSize, N!Fill, N!WriteMessage, N!Store, N!CreateConsumer,
         N!TryDeserialize, N!ReadSize, N!ReadMessage, N!writerVars
<1>3. nCpc' \in [ByteConsumers -> {"none", "idle", "size", "message", "lost"}]
  BY DEF ByteInv, ByteTypes, N!TypeOK, N!Next, N!WriteSize, N!WriteMessage, N!Store, N!CreateConsumer,
         N!TryDeserialize, N!ReadSize, N!ReadMessage, N!consumerVars
<1>4. nOver' \in [ByteConsumers -> BOOLEAN]
  BY Zenon DEF ByteInv, ByteTypes, N!TypeOK, N!Next, N!WriteSize, N!Overtakes, N!WriteMessage, N!Store, N!CreateConsumer,
         N!TryDeserialize, N!ReadSize, N!ReadMessage
<1>5. /\ DOMAIN nRead' = ByteConsumers /\ DOMAIN nSize' = ByteConsumers
      /\ DOMAIN nFrom' = ByteConsumers /\ DOMAIN nGot' = ByteConsumers /\ DOMAIN nDue' = ByteConsumers
  BY DEF ByteInv, ByteTypes, N!Next, N!WriteSize, N!WriteMessage, N!Store, N!CreateConsumer,
         N!TryDeserialize, N!ReadSize, N!ReadMessage, N!consumerVars
<1>. QED  BY <1>1, <1>2, <1>3, <1>4, <1>5, BytesNat DEF ByteTypes, N!TypeOK

-----------------------------------------------------------------------------
\* What the steps mean for a consumer that keeps up.

LEMMA WriteSizeReaders ==
  ASSUME ByteInv, NEW n \in Sizes, N!WriteSize(n), NEW d \in ByteConsumers, nCpc'[d] # "none", ~nOver'[d]
  PROVE  KeepsUp(d)'
<1>. DEFINE l == Len(nSent)   k == nDue[d]
<1>1. UNCHANGED <<nRead, nCpc, nSize, nFrom, nGot, nDue>>
  BY DEF N!WriteSize, N!consumerVars
<1>2. ~nOver[d] /\ ~(k <= Len(nSent') /\ N!RunsInto(LastEnd', nSent'[k]))
  <2>1. nOver'[d] = (nOver[d] \/ (nCpc[d] # "none" /\ k <= Len(nSent') /\ N!RunsInto(LastEnd', nSent'[k])))
    BY SizeWritten DEF N!WriteSize, N!Overtakes
  <2>. QED  BY <2>1, <1>1, Zenon
<1>3. KeepsUp(d)
  BY <1>1, <1>2, Zenon DEF ByteInv, ReadersInv
<1>4. /\ Len(nSent') = l + 1 /\ \A i \in 1..l : nSent'[i] = nSent[i]
      /\ nSent'[l + 1] = [start |-> nPos, size |-> n]
      /\ nPos \in Nat /\ nWpc = "idle" /\ nWpc' = "message" /\ nPos' = nPos /\ LastEnd' \in Nat
  BY SizeWritten
<1>5. l \in Nat /\ \A i \in 1..l : nSent[i].start \in Nat
  BY SentAre DEF ByteInv, SentFacts
<1>6. k \in 1..(l + 1) /\ k <= l + 1 /\ k # l + 2
  BY <1>3, <1>5 DEF KeepsUp
<1>7. k \in 1..l \/ k = l + 1
  BY <1>5, <1>6
<1>8. LastEnd' <= nSent'[k].start + BufferSize
  <2>1. nSent'[k].start \in Nat
    BY <1>4, <1>5, <1>7
  <2>. QED  BY <2>1, <1>2, <1>4, <1>6, BytesNat DEF N!RunsInto
<1>9. nCpc[d] \in {"size", "message"} => k \in 1..l /\ k # l + 1 /\ (k + 1 \in 1..l \/ k + 1 = l + 1) /\ k + 1 <= l + 1
  BY <1>3, <1>5, <1>7 DEF KeepsUp
<1>10. ASSUME NEW i \in 1..l \cup {l + 1} PROVE (IF i <= l + 1 THEN nSent'[i].start ELSE nPos) = N!StartOf(i)
  BY <1>4, <1>5 DEF N!StartOf
<1>11. nRead[d] = IF nCpc[d] = "message" THEN N!StartOf(k + 1) ELSE N!StartOf(k)
  BY <1>3 DEF KeepsUp
<1>12. nRead'[d] = IF nCpc[d] = "message" THEN (IF k + 1 <= l + 1 THEN nSent'[k + 1].start ELSE nPos)
                                          ELSE (IF k <= l + 1 THEN nSent'[k].start ELSE nPos)
  BY <1>1, <1>7, <1>9, <1>10, <1>11
<1>13. nRead'[d] = N!StartOf(IF nCpc[d] = "message" THEN nDue[d] + 1 ELSE nDue[d])'
  BY <1>1, <1>4, <1>12 DEF N!StartOf
<1>14. nCpc[d] = "message" => /\ nSize'[d] = nSent'[k].size
                              /\ nFrom'[d] = N!WritePos(nSent'[k].start, nSent'[k].size)
  BY <1>1, <1>3, <1>4, <1>9 DEF KeepsUp
<1>15. k \in 1..(l + 2) /\ nGot[d] = k - 1 /\ nCpc[d] # "lost"
  BY <1>3, <1>5, <1>6 DEF KeepsUp
<1>16. Len(nSent') + 1 = l + 2
  BY <1>4, <1>5
<1>. QED  BY <1>1, <1>4, <1>6, <1>8, <1>9, <1>13, <1>14, <1>15, <1>16 DEF KeepsUp

LEMMA WriteMessageReaders ==
  ASSUME ByteInv, N!WriteMessage, NEW d \in ByteConsumers, nCpc'[d] # "none", ~nOver'[d]
  PROVE  KeepsUp(d)'
<1>1. UNCHANGED <<nPos, nSent, nRead, nCpc, nSize, nFrom, nGot, nDue, nOver>> /\ LastEnd' = LastEnd
  BY WriteMessageSent DEF N!WriteMessage, N!consumerVars
<1>2. KeepsUp(d)
  BY <1>1, Zenon DEF ByteInv, ReadersInv
<1>3. nWpc = "message"
  BY DEF N!WriteMessage
<1>. QED  BY <1>1, <1>2, <1>3 DEF KeepsUp, N!StartOf

LEMMA StoreReaders ==
  ASSUME ByteInv, N!Store, NEW d \in ByteConsumers, nCpc'[d] # "none", ~nOver'[d]
  PROVE  KeepsUp(d)'
<1>1. UNCHANGED <<nSent, nRead, nCpc, nSize, nFrom, nGot, nDue, nOver>> /\ LastEnd' = LastEnd
  BY WriteMessageSent DEF N!Store, N!consumerVars
<1>2. KeepsUp(d)
  BY <1>1, Zenon DEF ByteInv, ReadersInv
<1>3. nWpc = "store" /\ nWpc' = "idle" /\ Len(nSent) \in Nat
  BY SentAre DEF N!Store, ByteInv, SentFacts
<1>4. (IF nCpc[d] = "message" THEN nDue[d] + 1 ELSE nDue[d]) <= Len(nSent)
  BY <1>2, <1>3 DEF KeepsUp
<1>5. nRead[d] = N!StartOf(IF nCpc[d] = "message" THEN nDue[d] + 1 ELSE nDue[d])'
  BY <1>1, <1>2, <1>4 DEF KeepsUp, N!StartOf
<1>. QED  BY <1>1, <1>2, <1>3, <1>5 DEF KeepsUp

\* A step of a consumer is nothing to the others.
LEMMA OtherReaders ==
  ASSUME ByteInv, NEW c \in ByteConsumers,
         N!CreateConsumer(c) \/ N!TryDeserialize(c) \/ N!ReadSize(c) \/ N!ReadMessage(c),
         NEW d \in ByteConsumers, d # c, nCpc'[d] # "none", ~nOver'[d]
  PROVE  KeepsUp(d)'
<1>1. UNCHANGED <<nPos, nWpc, nSent>>
  BY DEF N!CreateConsumer, N!TryDeserialize, N!ReadSize, N!ReadMessage, N!writerVars
<1>2. /\ nCpc'[d] = nCpc[d] /\ nRead'[d] = nRead[d] /\ nSize'[d] = nSize[d] /\ nFrom'[d] = nFrom[d]
      /\ nGot'[d] = nGot[d] /\ nDue'[d] = nDue[d] /\ nOver'[d] = nOver[d]
  BY DEF ByteInv, ByteTypes, N!TypeOK, N!CreateConsumer, N!TryDeserialize, N!ReadSize, N!ReadMessage
<1>3. KeepsUp(d)
  BY <1>2, Zenon DEF ByteInv, ReadersInv
<1>4. LastEnd' = LastEnd
  BY <1>1 DEF LastEnd
<1>. QED  BY <1>1, <1>2, <1>3, <1>4 DEF KeepsUp, N!StartOf

LEMMA CreateConsumerReader ==
  ASSUME ByteInv, NEW c \in ByteConsumers, N!CreateConsumer(c), ~nOver'[c]
  PROVE  KeepsUp(c)'
<1>. DEFINE l == Len(nSent)   k == IF nWpc = "idle" THEN l + 1 ELSE l
<1>1. UNCHANGED <<nPos, nWpc, nSent>>
  BY DEF N!CreateConsumer, N!writerVars
<1>2. LastEnd' = LastEnd /\ SentInv /\ SentFacts
  BY <1>1, SentAre DEF LastEnd, ByteInv
<1>3. l \in Nat /\ (nWpc # "idle" => l # 0)
  BY <1>2 DEF SentInv, SentFacts
<1>4. nDue'[c] = k /\ nCpc'[c] = "idle" /\ nRead'[c] = nPos /\ nGot'[c] = k - 1
  BY <1>3 DEF ByteInv, ByteTypes, N!TypeOK, N!CreateConsumer
<1>5. nWpc # "idle" => LastEnd <= nSent[l].start + BufferSize
  <2>. SUFFICES ASSUME nWpc # "idle" PROVE LastEnd <= nSent[l].start + BufferSize
    OBVIOUS
  <2>1. l \in 1..l /\ nSent[l].start \in Nat /\ LastEnd \in Nat /\ nPos = nSent[l].start /\ LastEnd = End(nSent[l])
    BY <1>2, <1>3 DEF SentFacts, SentInv, LastEnd
  <2>2. ~N!RunsInto(N!PositionAfterWrite(nPos, nSent[l].size), nSent[l])
    <3>1. nOver'[c] = (nWpc # "idle" /\ N!RunsInto(N!PositionAfterWrite(nPos, nSent[l].size), nSent[l]))
      BY DEF ByteInv, ByteTypes, N!TypeOK, N!CreateConsumer
    <3>. QED  BY <3>1, Zenon
  <2>. QED  BY <2>1, <2>2, BytesNat DEF N!RunsInto, End
<1>6. k \in 1..(l + 1) /\ (k = l + 1 => nWpc = "idle") /\ (k # l + 1 => k = l /\ nWpc # "idle")
  BY <1>3
<1>7. nPos = IF k <= l THEN nSent[k].start ELSE nPos
  BY <1>2, <1>3 DEF SentInv
<1>. QED  BY <1>1, <1>2, <1>4, <1>5, <1>6, <1>7 DEF KeepsUp, N!StartOf

LEMMA TryDeserializeReader ==
  ASSUME ByteInv, NEW c \in ByteConsumers, N!TryDeserialize(c), ~nOver'[c]
  PROVE  KeepsUp(c)'
<1>1. UNCHANGED <<nPos, nWpc, nSent, nRead, nSize, nFrom, nGot, nDue, nOver>> /\ nCpc[c] = "idle" /\ nCpc'[c] = "size"
  BY DEF N!TryDeserialize, N!writerVars, ByteInv, ByteTypes, N!TypeOK
<1>2. LastEnd' = LastEnd /\ SentInv /\ SentFacts
  BY <1>1, SentAre DEF LastEnd, ByteInv
<1>3. KeepsUp(c)
  BY <1>1, Zenon DEF ByteInv, ReadersInv
<1>4. nPos # nRead[c] /\ nRead[c] = N!StartOf(nDue[c]) /\ nDue[c] \in 1..(Len(nSent) + 1)
  BY <1>1, <1>3 DEF KeepsUp, N!TryDeserialize
<1>5. nDue[c] # Len(nSent) + 1 /\ (nDue[c] = Len(nSent) => nWpc = "idle")
  BY <1>2, <1>4 DEF SentInv, SentFacts, N!StartOf
<1>. QED  BY <1>1, <1>2, <1>3, <1>5 DEF KeepsUp, N!StartOf

\* What a consumer that keeps up reads is intact.
LEMMA DueIsIntact ==
  ASSUME ByteInv, NEW c \in ByteConsumers, nCpc[c] \in {"size", "message"}, KeepsUp(c)
  PROVE  /\ nDue[c] \in 1..Len(nSent) /\ nSent[nDue[c]].start \in Nat /\ nSent[nDue[c]].size \in Sizes
         /\ N!Intact(nSent[nDue[c]].start % BufferSize, Header, "size") = nDue[c]
         /\ N!Intact(N!WritePos(nSent[nDue[c]].start, nSent[nDue[c]].size), nSent[nDue[c]].size, "message") = nDue[c]
<1>. DEFINE k == nDue[c]   p == nSent[k].start   n == nSent[k].size
<1>1. SentInv /\ SentFacts /\ BytesInv
  BY SentAre DEF ByteInv
<1>2. k \in 1..Len(nSent) /\ LastEnd <= p + BufferSize /\ (k = Len(nSent) => nWpc = "idle")
  BY <1>1 DEF KeepsUp, SentFacts
<1>3. p \in Nat /\ n \in Sizes
  BY <1>1, <1>2 DEF SentFacts
<1>4. /\ \A b \in HeadOf(p) : nBuffer[b] = <<k, "size">>
      /\ \A b \in BodyOf(p, n) : nBuffer[b] = <<k, "message">>
  <2>1. k < Len(nSent) \/ nWpc # "message"
    BY <1>1, <1>2 DEF SentFacts
  <2>. QED  BY <2>1, <1>1, <1>2 DEF BytesInv
<1>5. /\ HeadOf(p) \subseteq N!Bytes /\ BodyOf(p, n) \subseteq N!Bytes
      /\ p % BufferSize \in HeadOf(p) /\ N!WritePos(p, n) \in BodyOf(p, n)
  BY <1>3, WriteIs
<1>6. N!Intact(p % BufferSize, Header, "size") = k
  <2>1. \A b \in (p % BufferSize)..((p % BufferSize) + Header - 1) : b \in N!Bytes /\ nBuffer[b] = <<k, "size">>
    BY <1>4, <1>5 DEF HeadOf
  <2>2. nBuffer[p % BufferSize][1] = k
    BY <1>4, <1>5
  <2>. QED  BY <2>1, <2>2, <1>2, Zenon DEF N!Intact
<1>7. N!Intact(N!WritePos(p, n), n, "message") = k
  <2>1. \A b \in N!WritePos(p, n)..(N!WritePos(p, n) + n - 1) : b \in N!Bytes /\ nBuffer[b] = <<k, "message">>
    BY <1>4, <1>5 DEF BodyOf
  <2>2. nBuffer[N!WritePos(p, n)][1] = k
    BY <1>4, <1>5
  <2>. QED  BY <2>1, <2>2, <1>2, Zenon DEF N!Intact
<1>. QED  BY <1>2, <1>3, <1>6, <1>7

LEMMA ReadSizeReader ==
  ASSUME ByteInv, NEW c \in ByteConsumers, N!ReadSize(c), ~nOver'[c]
  PROVE  KeepsUp(c)'
<1>. DEFINE k == nDue[c]   p == nSent[k].start   n == nSent[k].size
<1>1. UNCHANGED <<nPos, nWpc, nSent, nGot, nDue, nOver>> /\ nCpc[c] = "size"
  BY DEF N!ReadSize, N!writerVars
<1>2. LastEnd' = LastEnd /\ SentInv /\ SentFacts
  BY <1>1, SentAre DEF LastEnd, ByteInv
<1>3. KeepsUp(c)
  BY <1>1, Zenon DEF ByteInv, ReadersInv
<1>4. k \in 1..Len(nSent) /\ p \in Nat /\ n \in Sizes /\ N!Intact(p % BufferSize, Header, "size") = k
  BY <1>1, <1>3, DueIsIntact
<1>5. nRead[c] = p
  BY <1>1, <1>2, <1>3, <1>4 DEF KeepsUp, N!StartOf, SentFacts
<1>6. /\ nCpc'[c] = "message" /\ nSize'[c] = n
      /\ IF N!ReadWraps(p % BufferSize, n)
           THEN nRead'[c] = N!NextLap(p) + n /\ nFrom'[c] = 0
           ELSE nRead'[c] = p + Header + n /\ nFrom'[c] = (p % BufferSize) + Header
  BY <1>2, <1>4, <1>5 DEF N!ReadSize, ByteInv, ByteTypes, N!TypeOK, SentFacts
<1>7. N!ReadWraps(p % BufferSize, n) <=> N!Wraps(p, n)
  <2>1. \A r \in Int : n + r + Header = r + n + Header
    BY <1>4, BytesNat
  <2>2. p % BufferSize \in Int
    <3>1. \A r \in 0..(BufferSize - 1) : r \in Int
      OBVIOUS
    <3>. QED  BY <3>1, <1>4, LapIs
  <2>. QED  BY <2>1, <2>2 DEF N!ReadWraps, N!Wraps
<1>8. nRead'[c] = End(nSent[k]) /\ nFrom'[c] = N!WritePos(p, n)
  BY <1>6, <1>7 DEF End, N!PositionAfterWrite, N!WritePos
<1>9. End(nSent[k]) = IF k + 1 <= Len(nSent) THEN nSent[k + 1].start ELSE nPos
  <2>1. CASE k + 1 <= Len(nSent)
    <3>1. k + 1 \in 1..Len(nSent)
      BY <2>1, <1>2, <1>4 DEF SentFacts
    <3>. QED  BY <2>1, <3>1, <1>2, <1>4 DEF SentInv
  <2>2. CASE ~(k + 1 <= Len(nSent))
    <3>1. k = Len(nSent) /\ Len(nSent) # 0
      BY <2>2, <1>2, <1>4 DEF SentFacts
    <3>2. nWpc = "idle"
      BY <3>1, <1>1, <1>3 DEF KeepsUp
    <3>. QED  BY <2>2, <3>1, <3>2, <1>2 DEF SentInv, LastEnd
  <2>. QED  BY <2>1, <2>2
<1>. QED  BY <1>1, <1>2, <1>3, <1>6, <1>8, <1>9 DEF KeepsUp, N!StartOf

LEMMA ReadMessageReader ==
  ASSUME ByteInv, NEW c \in ByteConsumers, N!ReadMessage(c), ~nOver'[c]
  PROVE  KeepsUp(c)'
<1>. DEFINE k == nDue[c]   l == Len(nSent)
<1>1. UNCHANGED <<nPos, nWpc, nSent, nRead, nOver>> /\ nCpc[c] = "message"
  BY DEF N!ReadMessage, N!writerVars
<1>2. LastEnd' = LastEnd /\ SentInv /\ SentFacts
  BY <1>1, SentAre DEF LastEnd, ByteInv
<1>3. KeepsUp(c)
  BY <1>1, Zenon DEF ByteInv, ReadersInv
<1>4. nCpc'[c] = "idle" /\ nDue'[c] = k + 1 /\ nGot'[c] = k
  <2>1. nGot'[c] = N!Intact(nFrom[c], nSize[c], "message") /\ nCpc'[c] = "idle" /\ nDue'[c] = k + 1
    BY DEF N!ReadMessage, ByteInv, ByteTypes, N!TypeOK
  <2>2. nSize[c] = nSent[k].size /\ nFrom[c] = N!WritePos(nSent[k].start, nSent[k].size)
    BY <1>1, <1>3 DEF KeepsUp
  <2>. QED  BY <2>1, <2>2, <1>1, <1>3, DueIsIntact
<1>5. l \in Nat /\ LastEnd \in Nat /\ k \in 1..l /\ (k = l => nWpc = "idle") /\ LastEnd <= nSent[k].start + BufferSize
  BY <1>1, <1>2, <1>3 DEF KeepsUp, SentFacts
<1>6. k + 1 \in 1..(l + 1) /\ (k + 1 = l + 1 => nWpc = "idle") /\ k = k + 1 - 1
  BY <1>5
<1>7. k + 1 # l + 1 => LastEnd <= nSent[k + 1].start + BufferSize
  <2>. SUFFICES ASSUME k + 1 # l + 1 PROVE LastEnd <= nSent[k + 1].start + BufferSize
    OBVIOUS
  <2>1. k + 1 \in 1..l
    BY <1>5
  <2>2. /\ nSent[k + 1].start = End(nSent[k]) /\ nSent[k].start < End(nSent[k])
        /\ nSent[k].start \in Nat /\ End(nSent[k]) \in Nat
    BY <2>1, <1>2, <1>5 DEF SentInv, SentFacts
  <2>. QED  BY <2>2, <1>5, BytesNat
<1>8. nRead'[c] = N!StartOf(nDue[c])'
  <2>1. nRead[c] = N!StartOf(k + 1)
    BY <1>1, <1>3 DEF KeepsUp
  <2>2. nRead[c] = IF k + 1 <= Len(nSent) THEN nSent[k + 1].start ELSE nPos
    BY <2>1 DEF N!StartOf
  <2>3. N!StartOf(nDue[c])' = IF nDue'[c] <= Len(nSent') THEN nSent'[nDue'[c]].start ELSE nPos'
    BY DEF N!StartOf
  <2>. QED  BY <2>2, <2>3, <1>1, <1>4
<1>9. nDue'[c] \in 1..(Len(nSent') + 1) /\ nGot'[c] = nDue'[c] - 1 /\ (nDue'[c] = Len(nSent') + 1 => nWpc' = "idle")
  <2>1. nSent' = nSent /\ nWpc' = nWpc
    BY <1>1
  <2>2. nDue'[c] - 1 = k
    BY <1>4, <1>5
  <2>3. nDue'[c] \in 1..(Len(nSent') + 1) /\ (nDue'[c] = Len(nSent') + 1 => nWpc' = "idle")
    BY <2>1, <1>4, <1>6
  <2>. QED  BY <2>2, <2>3, <1>4
<1>10. nDue'[c] # Len(nSent') + 1 => LastEnd' <= nSent'[nDue'[c]].start + BufferSize
  <2>1. nSent' = nSent /\ LastEnd' = LastEnd
    BY <1>1, <1>2
  <2>. QED  BY <2>1, <1>4, <1>7
<1>. QED  BY <1>4, <1>8, <1>9, <1>10 DEF KeepsUp

LEMMA ByteStep == ByteInv /\ [N!Next]_nVars => ByteInv'
<1>. SUFFICES ASSUME ByteInv, [N!Next]_nVars PROVE ByteInv'
  OBVIOUS
<1>1. CASE UNCHANGED nVars
  BY <1>1 DEF nVars, ByteInv, ByteTypes, N!TypeOK, SentInv, BytesInv, ReadersInv, KeepsUp, N!StartOf, LastEnd
<1>2. ASSUME N!Next, SentInv', BytesInv', ReadersInv' PROVE ByteInv'
  <2>1. SentInv' => SentFacts'
    BY SentAre, PTL
  <2>. QED  BY <2>1, <1>2, ByteTypesStep DEF ByteInv
<1>3. CASE \E n \in Sizes : N!WriteSize(n)
  BY <1>2, <1>3, WriteSizeSent, WriteSizeBytes, WriteSizeReaders DEF N!Next, ReadersInv
<1>4. CASE N!WriteMessage
  BY <1>2, <1>4, WriteMessageSent, WriteMessageBytes, WriteMessageReaders DEF N!Next, ReadersInv
<1>5. CASE N!Store
  <2>1. BytesInv'
    BY <1>5, WriteMessageSent DEF ByteInv, BytesInv, N!Store
  <2>. QED  BY <2>1, <1>2, <1>5, WriteMessageSent, StoreReaders DEF N!Next, ReadersInv
<1>6. ASSUME NEW c \in ByteConsumers,
             N!CreateConsumer(c) \/ N!TryDeserialize(c) \/ N!ReadSize(c) \/ N!ReadMessage(c)
      PROVE  ByteInv'
  <2>1. UNCHANGED <<nPos, nWpc, nSent, nBuffer>>
    BY <1>6 DEF N!CreateConsumer, N!TryDeserialize, N!ReadSize, N!ReadMessage, N!writerVars
  <2>2. SentInv' /\ BytesInv'
    BY <2>1 DEF ByteInv, SentInv, BytesInv, LastEnd
  <2>3. ReadersInv'
    BY <1>6, OtherReaders, CreateConsumerReader, TryDeserializeReader, ReadSizeReader, ReadMessageReader DEF ReadersInv
  <2>4. N!Next
    BY <1>6 DEF N!Next
  <2>. QED  BY <2>2, <2>3, <2>4, <1>2
<1>. QED  BY <1>1, <1>3, <1>4, <1>5, <1>6 DEF N!Next

LEMMA BytesBehaviour == MCSpec => N!Init /\ [][N!Next]_nVars
<1>1. MCInit => N!Init
  BY DEF MCInit
<1>2. [MCNext]_mcVars => [N!Next]_nVars
  BY DEF MCNext, mcVars
<1>. QED  BY <1>1, <1>2, PTL DEF MCSpec

LEMMA ByteInStep == ByteInv => N!InStep
<1>. SUFFICES ASSUME ByteInv PROVE N!InStep
  OBVIOUS
<1>1. ASSUME NEW c \in ByteConsumers, nCpc[c] # "none", ~nOver[c]
      PROVE  /\ nCpc[c] # "lost" /\ nGot[c] = nDue[c] - 1
             /\ nRead[c] = N!StartOf(nDue[c] + IF nCpc[c] = "message" THEN 1 ELSE 0)
  <2>1. KeepsUp(c)
    BY <1>1, Zenon DEF ByteInv, ReadersInv
  <2>2. Len(nSent) \in Nat
    BY SentAre DEF ByteInv, SentFacts
  <2>3. nDue[c] + (IF nCpc[c] = "message" THEN 1 ELSE 0) = IF nCpc[c] = "message" THEN nDue[c] + 1 ELSE nDue[c]
    BY <2>1, <2>2 DEF KeepsUp
  <2>. QED  BY <2>1, <2>3 DEF KeepsUp
<1>. QED  BY <1>1, Zenon DEF ByteInv, ByteTypes, N!InStep

\* The ring of spmc_bounded_message_queue holds the last Size messages; and in
\* spmc_bounded_non_uniform_queue a consumer that the writer has not overtaken
\* is at the start of the message that is its turn and has read every one
\* before it, whatever their sizes, since writer and consumer work out the same
\* positions from them and no message is written over one that is to be read.
THEOREM RingsStayInStep == MCSpec => []RingsInStep
<1>1. MCSpec => []N!InStep
  BY BytesBehaviour, ByteInit, ByteStep, ByteInStep, PTL
<1>. QED  BY <1>1, RingHoldsTheLast, PTL DEF RingsInStep
=============================================================================
