------------------------- MODULE RecursiveRwSpinlock -------------------------
(***************************************************************************)
(* recursive_rw_spinlock: the counters of rw_spinlock with the writer's    *)
(* thread identifier above them, and a depth that only the writer may      *)
(* touch.  Threads take it in the orders the class allows (S in S, X in X, *)
(* S in X; not X in S) and release in reverse, as the scope guards of      *)
(* object_safe_wrapper do.                                                 *)
(***************************************************************************)
EXTENDS Integers, Sequences, FiniteSets

CONSTANTS Threads, OnLinux, MaxDepth,    \* as in RecursiveSpinlock
          WriterUnit,                    \* 0x100000
          OwnerUnit                      \* 1 << 32

VARIABLES m_lock, m_write_recursion_depth, pc,
          held          \* ghost: what t has taken, innermost last
vars == <<m_lock, m_write_recursion_depth, pc, held>>

Init == /\ m_lock = 0 /\ m_write_recursion_depth = 0
        /\ pc = [t \in Threads |-> "idle"]
        /\ held = [t \in Threads |-> << >>]

get_thread_id(t) == IF OnLinux THEN 0 ELSE t
WriterBits(word) == (word % OwnerUnit) \div WriterUnit    \* word & ExclusiveMask
OwnerId(word)    == word \div OwnerUnit                   \* word & ThreadIdMask
check_for_recursion(t) == OwnerId(m_lock) = get_thread_id(t)

GoTo(t, step)  == pc' = [pc EXCEPT ![t] = step]
Add(n)         == m_lock' = m_lock + n /\ UNCHANGED m_write_recursion_depth
Take(t, kind)  == held' = [held EXCEPT ![t] = Append(@, kind)] /\ GoTo(t, "idle")
Has(t, kind)   == \E i \in 1..Len(held[t]) : held[t][i] = kind
Innermost(t, kind) == held[t] # << >> /\ held[t][Len(held[t])] = kind
Drop(t)        == held' = [held EXCEPT ![t] = SubSeq(@, 1, Len(@) - 1)]
CanTake(t)     == pc[t] = "idle" /\ Len(held[t]) < MaxDepth

-----------------------------------------------------------------------------
(* lock_shared, unlock_shared *)

LockShared(t) == /\ CanTake(t)
                 /\ IF check_for_recursion(t) THEN Take(t, "S") ELSE GoTo(t, "r_try") /\ UNCHANGED held
                 /\ UNCHANGED <<m_lock, m_write_recursion_depth>>

ReadTry(t) == /\ pc[t] = "r_try" /\ Add(1)
              /\ IF WriterBits(m_lock') = 0 THEN Take(t, "S") ELSE GoTo(t, "r_undo") /\ UNCHANGED held

ReadUndo(t) == pc[t] = "r_undo" /\ Add(-1) /\ GoTo(t, "r_wait") /\ UNCHANGED held

ReadWait(t) == /\ pc[t] = "r_wait" /\ WriterBits(m_lock) = 0 /\ GoTo(t, "r_try")
               /\ UNCHANGED <<m_lock, m_write_recursion_depth, held>>

UnlockShared_Always(t) == /\ pc[t] = "idle" /\ Innermost(t, "S") /\ Drop(t)
                          /\ GoTo(t, "r_release")
                          /\ UNCHANGED <<m_lock, m_write_recursion_depth>>
UnlockShared(t) == /\ pc[t] = "idle" /\ Innermost(t, "S") /\ Drop(t)
                   /\ GoTo(t, IF m_write_recursion_depth = 0 THEN "r_release" ELSE "idle")
                   /\ UNCHANGED <<m_lock, m_write_recursion_depth>>

ReadRelease(t) == pc[t] = "r_release" /\ Add(-1) /\ GoTo(t, "idle") /\ UNCHANGED held

-----------------------------------------------------------------------------
(* lock, unlock *)

Lock(t) == /\ CanTake(t) /\ (held[t] = << >> \/ Has(t, "X"))
           /\ GoTo(t, IF check_for_recursion(t) THEN "w_nest" ELSE "w_try")
           /\ UNCHANGED <<m_lock, m_write_recursion_depth, held>>

WriteNest(t) == /\ pc[t] = "w_nest" /\ Take(t, "X") /\ UNCHANGED m_lock
                /\ m_write_recursion_depth' = m_write_recursion_depth + 1

OnlyMe_ManyReaders(word) == WriterBits(word) = 1
OnlyMe(word) == word = WriterUnit

WriteTry(t)  == /\ pc[t] = "w_try" /\ Add(WriterUnit) /\ UNCHANGED held
                /\ GoTo(t, IF OnlyMe(m_lock') THEN "w_own" ELSE "w_undo")
WriteOwn(t)  == /\ pc[t] = "w_own" /\ Add(get_thread_id(t) * OwnerUnit)
                /\ GoTo(t, "w_depth") /\ UNCHANGED held
WriteDepth(t) == pc[t] = "w_depth" /\ m_write_recursion_depth' = 1 /\ Take(t, "X") /\ UNCHANGED m_lock

WriteUndo(t) == pc[t] = "w_undo" /\ Add(-WriterUnit) /\ GoTo(t, "w_wait") /\ UNCHANGED held
WriteWait(t) == /\ pc[t] = "w_wait" /\ WriterBits(m_lock) = 0 /\ GoTo(t, "w_try")
                /\ UNCHANGED <<m_lock, m_write_recursion_depth, held>>

Unlock(t) == /\ pc[t] = "idle" /\ Innermost(t, "X") /\ Drop(t)
             /\ m_write_recursion_depth' = m_write_recursion_depth - 1
             /\ GoTo(t, IF m_write_recursion_depth' = 0 THEN "w_disown" ELSE "idle")
             /\ UNCHANGED m_lock
WriteDisown(t)  == /\ pc[t] = "w_disown" /\ Add(-get_thread_id(t) * OwnerUnit)
                   /\ GoTo(t, "w_release") /\ UNCHANGED held
WriteRelease(t) == pc[t] = "w_release" /\ Add(-WriterUnit) /\ GoTo(t, "idle") /\ UNCHANGED held

-----------------------------------------------------------------------------
Step(t) == \/ ReadTry(t) \/ ReadUndo(t) \/ ReadWait(t) \/ ReadRelease(t)
           \/ WriteNest(t) \/ WriteTry(t) \/ WriteOwn(t) \/ WriteDepth(t)
           \/ WriteUndo(t) \/ WriteWait(t) \/ WriteDisown(t) \/ WriteRelease(t)
Next == \E t \in Threads : \/ Step(t) \/ LockShared(t) \/ UnlockShared(t)
                           \/ Lock(t) \/ Unlock(t)
Spec == Init /\ [][Next]_vars

-----------------------------------------------------------------------------
Steps == {"idle", "r_try", "r_undo", "r_wait", "r_release", "w_nest", "w_try", "w_own",
          "w_depth", "w_undo", "w_wait", "w_disown", "w_release"}
TypeOK == /\ m_lock \in Nat /\ m_write_recursion_depth \in 0..MaxDepth
          /\ pc \in [Threads -> Steps]
          /\ held \in [Threads -> Seq({"S", "X"})]
          /\ \A t \in Threads : Len(held[t]) <= MaxDepth

\* The readers in the word: the levels of a thread that is no writer, and 0 for
\* one that is about to take itself back.
ShareAt(t, i) == \/ i = 0 /\ pc[t] \in {"r_undo", "r_release"}
                 \/ i > 0 /\ i <= Len(held[t]) /\ ~Has(t, "X")
Shares == {s \in Threads \X (0..MaxDepth) : ShareAt(s[1], s[2])}

\* Whether t is in the word as a writer, and as its owner.
Writes(t) == Has(t, "X") \/ pc[t] \in {"w_own", "w_depth", "w_undo", "w_disown", "w_release"}
Owner(t)  == Has(t, "X") \/ pc[t] \in {"w_depth", "w_disown"}
OwnerBits == IF \E t \in Threads : Owner(t) THEN get_thread_id(CHOOSE t \in Threads : Owner(t)) ELSE 0
Exclusives(t) == Cardinality({i \in 1..Len(held[t]) : held[t][i] = "X"})

\* The word is the readers, the writers and the one owner that are in it,
\* whatever was nested and undone; the depth is the owner's and 0 without one.
WordAndDepth ==
  /\ TypeOK
  /\ \A t, u \in Threads : Owner(t) /\ Owner(u) => t = u
  /\ m_lock = Cardinality(Shares) + WriterUnit * Cardinality({t \in Threads : Writes(t)})
              + OwnerUnit * OwnerBits
  /\ \A t \in Threads : Has(t, "X") => m_write_recursion_depth = Exclusives(t)
  /\ (\A t \in Threads : ~Has(t, "X")) => m_write_recursion_depth = 0

\* Nobody shares the lock with another thread that has it exclusively.
ExclusiveAlone == \A t, u \in Threads : Has(t, "X") /\ held[u] # << >> => t = u

L == INSTANCE RwLock WITH Clients <- Threads,
                          readers <- {t \in Threads : held[t] # << >> /\ ~Has(t, "X")},
                          writers <- {t \in Threads : Has(t, "X")}

\* Nested or not, the lock is a read-write lock between threads: an inner
\* unlock or unlock_shared does not give it up.
ImplementsRwLock == L!Spec
=============================================================================
