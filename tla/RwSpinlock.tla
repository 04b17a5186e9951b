----------------------------- MODULE RwSpinlock -----------------------------
(***************************************************************************)
(* rw_spinlock: one 32-bit word whose low bits count readers and whose     *)
(* high bits count writers.  Both sides first add themselves and look at   *)
(* the result, so the word also counts attempts that are about to be taken *)
(* back.  The lock keeps no thread identity: a client is one acquisition   *)
(* (a thread may hold it shared several times).                            *)
(***************************************************************************)
EXTENDS Integers, FiniteSets

CONSTANTS Clients,
          WriterUnit,   \* 0x100000: readers are counted below it
          WriterSlots   \* 0x1000: writers the high bits can count

\* Nothing in the code stops more clients than the fields can count.
ASSUME ClientsAssumption ==
  /\ WriterUnit \in Nat /\ WriterSlots \in Nat
  /\ IsFiniteSet(Clients)
  /\ Cardinality(Clients) < WriterUnit /\ Cardinality(Clients) < WriterSlots

VARIABLES m_lock, pc
vars == <<m_lock, pc>>

Init == /\ m_lock = 0
        /\ pc = [c \in Clients |-> "idle"]

GoTo(c, step) == pc' = [pc EXCEPT ![c] = step]
Add(n)        == m_lock' = (m_lock + n) % (WriterUnit * WriterSlots)

WriterBits(word) == word \div WriterUnit    \* word & 0xfff00000
NoWriter(word)   == WriterBits(word) = 0
OnlyMe_ManyReaders(word) == WriterBits(word) = 1
OnlyMe(word)     == word = WriterUnit

-----------------------------------------------------------------------------
(* lock_shared, unlock_shared *)

LockShared(c) == pc[c] = "idle" /\ GoTo(c, "r_try") /\ UNCHANGED m_lock

ReadTry(c) == /\ pc[c] = "r_try"
              /\ Add(1)
              /\ GoTo(c, IF NoWriter(m_lock') THEN "reading" ELSE "r_undo")

ReadUndo_Skipped(c) == pc[c] = "r_undo" /\ GoTo(c, "r_wait") /\ UNCHANGED m_lock

ReadUndo(c) == /\ pc[c] = "r_undo"
               /\ Add(-1)
               /\ GoTo(c, "r_wait")

ReadWait(c) == /\ pc[c] = "r_wait" /\ NoWriter(m_lock)
               /\ GoTo(c, "r_try")
               /\ UNCHANGED m_lock

UnlockShared(c) == pc[c] = "reading" /\ Add(-1) /\ GoTo(c, "idle")

-----------------------------------------------------------------------------
(* lock, unlock *)

Lock(c) == pc[c] = "idle" /\ GoTo(c, "w_try") /\ UNCHANGED m_lock

WriteTry(c) == /\ pc[c] = "w_try"
               /\ Add(WriterUnit)
               /\ GoTo(c, IF OnlyMe(m_lock') THEN "writing" ELSE "w_undo")

WriteUndo(c) == /\ pc[c] = "w_undo"
                /\ Add(-WriterUnit)
                /\ GoTo(c, "w_wait")

WriteWait(c) == /\ pc[c] = "w_wait" /\ NoWriter(m_lock)
                /\ GoTo(c, "w_try")
                /\ UNCHANGED m_lock

Unlock(c) == pc[c] = "writing" /\ Add(-WriterUnit) /\ GoTo(c, "idle")

-----------------------------------------------------------------------------
Step(c) == \/ ReadTry(c) \/ ReadUndo(c) \/ ReadWait(c)
           \/ WriteTry(c) \/ WriteUndo(c) \/ WriteWait(c)
Next == \E c \in Clients : \/ Step(c) \/ LockShared(c) \/ UnlockShared(c)
                           \/ Lock(c) \/ Unlock(c)
Spec == Init /\ [][Next]_vars

\* A client inside lock or lock_shared is scheduled again.  Nobody has to
\* call, and whoever holds the lock may keep it.
Fairness == \A c \in Clients : WF_vars(Step(c))

-----------------------------------------------------------------------------
Steps == {"idle", "r_try", "r_undo", "r_wait", "reading",
          "w_try", "w_undo", "w_wait", "writing"}

TypeOK == /\ m_lock \in 0..(WriterUnit * WriterSlots - 1)
          /\ pc \in [Clients -> Steps]

CountedReaders == {c \in Clients : pc[c] \in {"reading", "r_undo"}}
CountedWriters == {c \in Clients : pc[c] \in {"writing", "w_undo"}}

\* The word is exactly the number of clients that have added themselves and
\* not taken it back: nothing leaks from a failed attempt, and the readers'
\* count never carries into the writers' bits.
WordCounts == m_lock = Cardinality(CountedReaders) + WriterUnit * Cardinality(CountedWriters)

\* Nobody shares the lock with a writer.
Exclusion == \A c, d \in Clients :
  pc[c] = "writing" /\ pc[d] \in {"reading", "writing"} => c = d

\* The lock keeps its books and excludes: each of the two facts needs the
\* other, so they are one inductive invariant.
LockInv == TypeOK /\ WordCounts /\ Exclusion

L == INSTANCE RwLock WITH readers <- {c \in Clients : pc[c] = "reading"},
                          writers <- {c \in Clients : pc[c] = "writing"}

\* Whatever attempts fail in between, the lock is a read-write lock.
ImplementsRwLock == L!Spec

ReadAttempt(c)  == pc[c] \in {"r_try", "r_undo", "r_wait"}
WriteAttempt(c) == pc[c] \in {"w_try", "w_undo", "w_wait"}

\* A reader that no writer competes with any more gets the lock, and so does
\* a writer that everybody else leaves alone: what earlier failed attempts
\* added to the word never keeps anybody out.
AttemptsSucceed == \A c \in Clients :
  /\ (ReadAttempt(c) /\ [](\A d \in Clients : ~WriteAttempt(d) /\ pc[d] # "writing"))
       ~> pc[c] = "reading"
  /\ (WriteAttempt(c) /\ [](\A d \in Clients \ {c} : pc[d] = "idle"))
       ~> pc[c] = "writing"
=============================================================================
