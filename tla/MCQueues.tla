------------------------------ MODULE MCQueues ------------------------------
(***************************************************************************)
(* The queues with one producer or one consumer, and the shared memory     *)
(* that two of them are put into, for TLC.  A behaviour uses one of them,  *)
(* chosen at the start, so the state spaces add up; the others stay as     *)
(* they were made.                                                         *)
(***************************************************************************)
EXTENDS Integers, FiniteSets

CONSTANTS Values, None, Producers, Consumers,
          Nodes, Null, MaxPreAlloc, FewNodes, \* of the lists
          Size, Modulus, MaxPos,              \* of the rings
          BufferSize, Header, Sizes, MaxByte, \* of the ring of bytes
          SegmentSizes, Objects               \* of the shared memory

\* Every process can have an object of its own open.
ASSUME ObjectsAssumption == /\ Null \notin Objects /\ SegmentSizes \subseteq Nat \ {0}
                            /\ IsFiniteSet(Producers) /\ IsFiniteSet(Objects)
                            /\ Cardinality(Producers) <= Cardinality(Objects)

\* With a proper divisor, a power of two has its double.
PowerOfTwo(n) == \A d \in 1..(n - 1) : n % d = 0 => n % (2 * d) = 0

\* The size of a ring is far below 2^64, and no position is counted up to it.
ASSUME RingAssumption == /\ Size \in Nat \ {0} /\ MaxPos \in Nat /\ Modulus \in Nat
                         /\ MaxPos < Modulus /\ 2 * Size < Modulus
                         /\ PowerOfTwo(Size) /\ PowerOfTwo(Modulus)
                         /\ None \notin Values

\* Addresses differ from nullptr, and there are more of them than spsc_queue
\* is constructed with.
ASSUME NodesAssumption == /\ Null \notin Nodes /\ IsFiniteSet(Nodes) /\ FewNodes \subseteq Nodes /\ FewNodes # {}
                          /\ MaxPreAlloc \in Nat /\ MaxPreAlloc < Cardinality(Nodes)

\* A message has a byte or more and fits into the ring.
ASSUME BytesAssumption == /\ BufferSize \in Nat \ {0} /\ Header \in Nat \ {0} /\ MaxByte \in Nat
                          /\ Sizes \subseteq 1..BufferSize

\* One of the consumers is enough to read the ring of bytes.
ByteConsumers == {CHOOSE c \in Consumers : TRUE}

VARIABLES used,
          sTail, sHead, sFirst, sCopy, sNext, sValue, sAlloc, sPc, sN, sCpc, sOut, sChain,
          uFirst, uDiv, uLast, uNext, uValue, uAlloc, uPc, uLocal, uCpc, uOut, uChain,
          kHead, kTail, kNext, kValue, kAlloc, kPc, kNew, kOld, kCpc, kPopped, kOldTail, kOut,
          kChain, kBuffer, kItem, kAfter, kCached, kOver, kStale,
          mHead, mTail, mData, mReady, mPc, mCur, mItem, mCpc, mOut, mOver,
          bHead, bTail, bBuffer, bPc, bItem, bCpc, bOut, bPath,
          gPos, gBuffer, gWpc, gRead, gCpc, gData,
          nPos, nBuffer, nWpc, nRead, nCpc, nSize, nFrom, nGot, nSent, nDue, nOver,
          pNamed, pStSize, pPc, pBytes, pAttempt, pFd, pMapped, pNew, pApart
sVars == <<sTail, sHead, sFirst, sCopy, sNext, sValue, sAlloc, sPc, sN, sCpc, sOut, sChain>>
uVars == <<uFirst, uDiv, uLast, uNext, uValue, uAlloc, uPc, uLocal, uCpc, uOut, uChain>>
kVars == <<kHead, kTail, kNext, kValue, kAlloc, kPc, kNew, kOld, kCpc, kPopped, kOldTail, kOut,
           kChain, kBuffer, kItem, kAfter, kCached, kOver, kStale>>
mVars == <<mHead, mTail, mData, mReady, mPc, mCur, mItem, mCpc, mOut, mOver>>
bVars == <<bHead, bTail, bBuffer, bPc, bItem, bCpc, bOut, bPath>>
gVars == <<gPos, gBuffer, gWpc, gRead, gCpc, gData>>
nVars == <<nPos, nBuffer, nWpc, nRead, nCpc, nSize, nFrom, nGot, nSent, nDue, nOver>>
pVars == <<pNamed, pStSize, pPc, pBytes, pAttempt, pFd, pMapped, pNew, pApart>>
mcVars == <<used, sVars, uVars, kVars, mVars, bVars, gVars, nVars, pVars>>

S == INSTANCE SpscQueue WITH m_tail <- sTail, m_head <- sHead, m_first <- sFirst,
       m_tail_copy <- sCopy, next <- sNext, value <- sValue, allocated <- sAlloc,
       pc <- sPc, n <- sN, cpc <- sCpc, out <- sOut, chain <- sChain
U == INSTANCE SutterQueue WITH m_first <- uFirst, m_divider <- uDiv, m_last <- uLast,
       next <- uNext, value <- uValue, allocated <- uAlloc, pc <- uPc, div <- uLocal,
       cpc <- uCpc, out <- uOut, chain <- uChain
K == INSTANCE MpscBufferedQueue WITH Nodes <- FewNodes, m_head <- kHead, m_tail <- kTail,
       next <- kNext, value <- kValue, allocated <- kAlloc, pc <- kPc, new_node <- kNew,
       old_head <- kOld, cpc <- kCpc, popped <- kPopped, old_tail <- kOldTail, out <- kOut,
       chain <- kChain, m_buffer_head <- kBuffer, item <- kItem, next_node <- kAfter,
       cached <- kCached, overtaken <- kOver, stale <- kStale
M == INSTANCE MpscBoundedQueue WITH m_head <- mHead, m_tail <- mTail, data <- mData,
       ready <- mReady, pc <- mPc, cur_head <- mCur, item <- mItem, cpc <- mCpc,
       out <- mOut, overrun <- mOver
B == INSTANCE SpscBoundedQueue WITH m_head <- bHead, m_tail <- bTail, buffer <- bBuffer,
       pc <- bPc, item <- bItem, cpc <- bCpc, out <- bOut, path <- bPath
G == INSTANCE SpmcMessageQueue WITH m_writer_pos <- gPos, m_buffer <- gBuffer, wpc <- gWpc,
       m_local_read_position <- gRead, cpc <- gCpc, data <- gData
N == INSTANCE SpmcNonUniformQueue WITH m_writer_pos <- nPos, m_buffer <- nBuffer, wpc <- nWpc,
       m_local_read_position <- nRead, cpc <- nCpc, size <- nSize, from <- nFrom, got <- nGot,
       sent <- nSent, due <- nDue, overtaken <- nOver, MaxPos <- MaxByte,
       Consumers <- ByteConsumers
P == INSTANCE SharedMemory WITH Processes <- Producers, Sizes <- SegmentSizes, NoObject <- Null,
       named <- pNamed, st_size <- pStSize, pc <- pPc, size_bytes <- pBytes, attempt <- pAttempt,
       fd <- pFd, data <- pMapped, created_new <- pNew, apart <- pApart

\* Only a behaviour about spsc_queue chooses what it was constructed with; the
\* address of the first node of the buffered queue is as good as any other.
MCInit == /\ used \in {"spsc", "sutter", "mpsc_buffered", "mpsc_bounded", "spsc_bounded",
                      "message", "non_uniform", "shared_memory"}
          /\ S!Init /\ U!Init /\ K!BufInit /\ M!Init /\ B!Init /\ G!Init /\ N!Init /\ P!Init
          /\ used # "spsc" => sFirst = sTail
          /\ kTail = CHOOSE n \in FewNodes : TRUE
MCNext ==
  /\ UNCHANGED used
  /\ \/ used = "spsc" /\ S!Next
          /\ UNCHANGED <<uVars, kVars, mVars, bVars, gVars, nVars, pVars>>
     \/ used = "sutter" /\ U!Next
          /\ UNCHANGED <<sVars, kVars, mVars, bVars, gVars, nVars, pVars>>
     \/ used = "mpsc_buffered" /\ K!BufNext
          /\ UNCHANGED <<sVars, uVars, mVars, bVars, gVars, nVars, pVars>>
     \/ used = "mpsc_bounded" /\ M!Next
          /\ UNCHANGED <<sVars, uVars, kVars, bVars, gVars, nVars, pVars>>
     \/ used = "spsc_bounded" /\ B!Next
          /\ UNCHANGED <<sVars, uVars, kVars, mVars, gVars, nVars, pVars>>
     \/ used = "message" /\ G!Next
          /\ UNCHANGED <<sVars, uVars, kVars, mVars, bVars, nVars, pVars>>
     \/ used = "non_uniform" /\ N!Next
          /\ UNCHANGED <<sVars, uVars, kVars, mVars, bVars, gVars, pVars>>
     \/ used = "shared_memory" /\ P!Next
          /\ UNCHANGED <<sVars, uVars, kVars, mVars, bVars, gVars, nVars>>
MCSpec == MCInit /\ [][MCNext]_mcVars /\ M!Fairness /\ P!Fairness

\* The lists own their nodes: spsc_queue's producer takes back only nodes the
\* consumer is done with, sutter_queue's deletes only those it has passed, and
\* no node of the buffered mpsc_queue is in use twice until its
\* compare-and-swap is fooled.  No node is lost.
ListsOwned == S!NodesOwned /\ U!NoUseAfterFree /\ K!OwnedUntilStale

\* The lists are FIFOs, the buffered mpsc_queue until then.
ListsAreFifo == S!ImplementsFifo /\ U!ImplementsFifo /\ K!FifoUntilStale

\* mpsc_bounded_queue: every slot has one user until the ring is overrun.
SlotsOwned == M!SlotsOwned

\* mpsc_bounded_queue: every item whose position was claimed is delivered, up
\* to the overrun, if the producers go on and the consumer keeps polling.
ClaimedDelivered == M!ClaimedDelivered

\* The bounded queues are FIFOs up to where their arithmetic fails:
\* mpsc_bounded_queue until its ring is overrun, spsc_bounded_queue for its
\* first log2(Size) + 1 items.
BoundedAreFifo == M!FifoUntilOverrun /\ B!FifoUntilWrapped

\* The broadcast rings: that of the messages holds the last Size of them, and
\* in that of the bytes a consumer that keeps up is always at the start of a
\* message and has read all before it.
RingsInStep == G!RingHolds /\ N!InStep

\* spmc_bounded_message_queue: a consumer that keeps up gets every message, and
\* one that does not gets none that is too old.
DeliveredExact == G!DeliveredExact

\* shared_memory: processes that ask for one size share one object of that
\* size, whatever failed and whoever died, unless its name is taken from it.
SegmentsShared == P!SegmentsShared

\* shared_memory: a call returns, whatever the others put under the name.
ShmReturns == P!ShmReturns
=============================================================================
