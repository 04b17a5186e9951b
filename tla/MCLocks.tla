------------------------------- MODULE MCLocks ------------------------------
(***************************************************************************)
(* The locks, and the object wrapper over one of them, for TLC.  A         *)
(* behaviour uses one of them, chosen at the start, so the state spaces    *)
(* add up instead of multiplying; the others stay as they were made.       *)
(***************************************************************************)
EXTENDS RwSpinlock, SeqLock

CONSTANTS Threads, OnLinux, MaxDepth,          \* of the recursive locks
          RwUnit, OwnerUnit, None,              \* the fields of recursive_rw_spinlock's word
          Readers, Writers, MaxProcNumber, Processors    \* of contention_free_rw_lock

\* No thread has the identifier that stands for a free lock.
ASSUME ThreadsAssumption == Threads \subseteq Nat \ {0} /\ MaxDepth \in Nat

\* The fields of the word have room for every level a thread can take, and one
\* attempt of it, and for every thread as a writer.
ASSUME WordAssumption ==
  /\ IsFiniteSet(Threads) /\ RwUnit \in Nat /\ OwnerUnit \in Nat
  /\ Cardinality(Threads) * (MaxDepth + 1) < RwUnit
  /\ RwUnit * (Cardinality(Threads) + 1) <= OwnerUnit

\* A processor has a slot, the last one at least.
ASSUME SlotsAssumption == /\ IsFiniteSet(Readers) /\ Readers \cap Writers = {}
                          /\ MaxProcNumber \in Nat \ {0} /\ Processors \subseteq Nat

VARIABLES used,                                  \* the lock this behaviour is about
          flag, steps,                           \* of spinlock
          owner, recursion, rpc, depth,          \* of recursive_spinlock
          word, wdepth, rwpc, held,              \* of recursive_rw_spinlock
          object, proxies, local,                \* of object_safe_wrapper
          wflag, slots, cpc, cpu, expected, scan \* of contention_free_rw_lock
sVars == <<flag, steps>>
rVars == <<owner, recursion, rpc, depth>>
wVars == <<word, wdepth, rwpc, held, object, proxies, local>>
cVars == <<wflag, slots, cpc, cpu, expected, scan>>
mcVars == <<vars, seqVars, used, sVars, rVars, wVars, cVars>>

S == INSTANCE Spinlock WITH Threads <- Clients, m_lock <- flag, pc <- steps
R == INSTANCE RecursiveSpinlock WITH m_owner_id <- owner, m_recursion <- recursion, pc <- rpc
W == INSTANCE ObjectSafeWrapper WITH m_lock <- word, m_write_recursion_depth <- wdepth,
                                     pc <- rwpc, WriterUnit <- RwUnit, m_object <- object
C == INSTANCE ContentionFreeRwLock WITH m_write_lock <- wflag, m_read_lock <- slots, pc <- cpc,
                                        cur_cpu <- cpu, lock_ex <- expected, scanned <- scan

Locks == {"spinlock", "rw_spinlock", "recursive_spinlock", "object_safe_wrapper",
          "contention_free_rw_lock", "seq_lock"}
MCInit == /\ used \in Locks
          /\ Init /\ SeqInit /\ S!Init /\ R!Init /\ W!WrapperInit /\ C!Init
MCNext ==
  /\ UNCHANGED used
  /\ \/ used = "rw_spinlock" /\ Next /\ UNCHANGED <<seqVars, sVars, rVars, wVars, cVars>>
     \/ used = "seq_lock" /\ SeqNext /\ UNCHANGED <<vars, sVars, rVars, wVars, cVars>>
     \/ used = "spinlock" /\ S!Next /\ UNCHANGED <<vars, seqVars, rVars, wVars, cVars>>
     \/ used = "recursive_spinlock" /\ R!Next /\ UNCHANGED <<vars, seqVars, sVars, wVars, cVars>>
     \/ used = "object_safe_wrapper" /\ W!WrapperNext /\ UNCHANGED <<vars, seqVars, sVars, rVars, cVars>>
     \/ used = "contention_free_rw_lock" /\ C!Next /\ UNCHANGED <<vars, seqVars, sVars, rVars, wVars>>
MCSpec == MCInit /\ [][MCNext]_mcVars /\ Fairness /\ S!Fairness /\ C!Fairness

\* The mutexes keep their books: spinlock's flag is set exactly while one
\* thread has it, and recursive_spinlock's m_recursion belongs to its owner
\* and is its depth.
MutexesHeld == S!FlagMeansHeld /\ R!OwnerCounts

\* recursive_rw_spinlock: the word and the depth are what the threads took.
WordAndDepth == W!WordAndDepth

\* object_safe_wrapper: what was read through a proxy stays true while it lives,
\* but for changes that one user of a const wrapper makes to what another read.
Isolated == W!Isolated

\* contention_free_rw_lock: a slot counts the readers that went through it,
\* and none is inside on a slot the writer has passed.
SlotsInv == C!SlotsInv

\* recursive_rw_spinlock between threads, and contention_free_rw_lock with one
\* writer, are read-write locks.
OthersAreRwLocks == W!ImplementsRwLock /\ C!ImplementsRwLock

\* Progress: while threads wait for the spinlock it is handed on, and the
\* writer of contention_free_rw_lock gets in once the readers have left.
WaitersGetIn == S!SomebodyGetsIn /\ C!WriterGetsIn
=============================================================================
