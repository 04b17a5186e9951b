-------------------------- MODULE RecursiveSpinlock --------------------------
(***************************************************************************)
(* recursive_spinlock: m_owner_id is the thread that has the lock, and     *)
(* m_recursion, which only the owner may touch, how often it has it.       *)
(***************************************************************************)
EXTENDS Integers

CONSTANTS Threads,     \* identifiers of threads, all different from Free
          OnLinux,     \* which branch of get_thread_id is compiled
          MaxDepth     \* bound on the recursion

VARIABLES m_owner_id, m_recursion, pc,
          depth        \* ghost: calls of lock that t has not unlocked
vars == <<m_owner_id, m_recursion, pc, depth>>

Free == 0
get_thread_id(t) == IF OnLinux THEN 0 ELSE t

Init == /\ m_owner_id = Free /\ m_recursion = 0
        /\ pc = [t \in Threads |-> "idle"]
        /\ depth = [t \in Threads |-> 0]

GoTo(t, step) == pc' = [pc EXCEPT ![t] = step]
Locked(t)     == depth' = [depth EXCEPT ![t] = @ + 1] /\ GoTo(t, "idle")

Lock(t) == /\ pc[t] = "idle" /\ depth[t] < MaxDepth
           /\ GoTo(t, IF m_owner_id = get_thread_id(t) THEN "recurse" ELSE "cas")
           /\ UNCHANGED <<m_owner_id, m_recursion, depth>>

Recurse(t) == /\ pc[t] = "recurse"
              /\ m_recursion' = m_recursion + 1
              /\ Locked(t)
              /\ UNCHANGED m_owner_id

\* compare_exchange_strong from Free: the thread goes to step won or to lost.
TakeIfFree(t, won, lost) ==
  /\ \/ m_owner_id = Free /\ m_owner_id' = get_thread_id(t) /\ GoTo(t, won)
     \/ m_owner_id # Free /\ GoTo(t, lost) /\ UNCHANGED m_owner_id
  /\ UNCHANGED <<m_recursion, depth>>

Cas(t)   == pc[t] = "cas" /\ TakeIfFree(t, "first", "spin")
First(t) == pc[t] = "first" /\ m_recursion' = 1 /\ Locked(t) /\ UNCHANGED m_owner_id
Spin(t)  == /\ pc[t] = "spin" /\ m_owner_id = Free /\ GoTo(t, "cas")
            /\ UNCHANGED <<m_owner_id, m_recursion, depth>>

TryLock(t)  == /\ pc[t] = "idle" /\ depth[t] < MaxDepth
               /\ GoTo(t, CASE m_owner_id = get_thread_id(t) -> "recurse"
                            [] m_owner_id = Free /\ m_owner_id # get_thread_id(t) -> "try_cas"
                            [] OTHER -> "idle")
               /\ UNCHANGED <<m_owner_id, m_recursion, depth>>
TryCas(t)   == pc[t] = "try_cas" /\ TakeIfFree(t, "try_first", "idle")
TryFirst(t) == pc[t] = "try_first" /\ m_recursion' = m_recursion + 1 /\ Locked(t) /\ UNCHANGED m_owner_id

Unlock_Outright(t) == /\ pc[t] = "idle" /\ depth[t] > 0
                      /\ m_recursion' = m_recursion - 1
                      /\ depth' = [depth EXCEPT ![t] = @ - 1]
                      /\ GoTo(t, "release")
                      /\ UNCHANGED m_owner_id
Unlock(t)  == /\ pc[t] = "idle" /\ depth[t] > 0
              /\ m_recursion' = m_recursion - 1
              /\ depth' = [depth EXCEPT ![t] = @ - 1]
              /\ GoTo(t, IF m_recursion' = 0 THEN "release" ELSE "idle")
              /\ UNCHANGED m_owner_id
Release(t) == /\ pc[t] = "release" /\ m_owner_id' = Free /\ GoTo(t, "idle")
              /\ UNCHANGED <<m_recursion, depth>>

Step(t) == \/ Recurse(t) \/ Cas(t) \/ First(t) \/ Spin(t)
           \/ TryCas(t) \/ TryFirst(t) \/ Release(t)
Next == \E t \in Threads : Step(t) \/ Lock(t) \/ TryLock(t) \/ Unlock(t)
Spec == Init /\ [][Next]_vars

-----------------------------------------------------------------------------
Steps == {"idle", "recurse", "cas", "first", "spin", "try_cas", "try_first", "release"}
TypeOK == /\ m_owner_id \in Threads \cup {Free} /\ m_recursion \in 0..MaxDepth
          /\ pc \in [Threads -> Steps] /\ depth \in [Threads -> 0..MaxDepth]

Owns(t) == depth[t] > 0 \/ pc[t] \in {"recurse", "first", "try_first", "release"}

\* Whoever has the lock, or is at a step that touches m_recursion, is the
\* owner, of whom there is one; m_recursion is its depth, and 0 when the lock is
\* free, so an inner unlock does not give it up.
\* The three assertions of the class are part of it.
OwnerCounts == /\ TypeOK
               /\ \A t \in Threads : Owns(t) <=> m_owner_id = get_thread_id(t)
               /\ \A t \in Threads : Owns(t) => m_recursion = depth[t]
               /\ \A t \in Threads : pc[t] \in {"first", "try_first", "release"} => m_recursion = 0
               /\ m_owner_id = Free => m_recursion = 0
=============================================================================
