------------------------------ MODULE Spinlock ------------------------------
(***************************************************************************)
(* spinlock: lock exchanges true into m_lock and, if it was taken, waits   *)
(* until it reads false before it tries again; try_lock looks before it    *)
(* exchanges and gives up if it fails.                                     *)
(***************************************************************************)
CONSTANT Threads

VARIABLES m_lock, pc
vars == <<m_lock, pc>>

Init == /\ m_lock = FALSE
        /\ pc = [t \in Threads |-> "idle"]

GoTo(t, step) == pc' = [pc EXCEPT ![t] = step]

\* m_lock.exchange(true): the thread goes to step won or to step lost.
Exchange(t, won, lost) == /\ m_lock' = TRUE
                          /\ GoTo(t, IF m_lock THEN lost ELSE won)

Lock(t)         == pc[t] = "idle" /\ GoTo(t, "exchange") /\ UNCHANGED m_lock
LockExchange(t) == pc[t] = "exchange" /\ Exchange(t, "locked", "spin")
Spin(t)         == pc[t] = "spin" /\ ~m_lock /\ GoTo(t, "exchange") /\ UNCHANGED m_lock

TryLock(t)         == /\ pc[t] = "idle"
                      /\ GoTo(t, IF m_lock THEN "idle" ELSE "try_exchange")
                      /\ UNCHANGED m_lock
TryLockExchange(t) == pc[t] = "try_exchange" /\ Exchange(t, "locked", "idle")

Unlock_Forgotten(t) == pc[t] = "locked" /\ GoTo(t, "idle") /\ UNCHANGED m_lock
Unlock(t) == /\ pc[t] = "locked"
             /\ m_lock' = FALSE
             /\ GoTo(t, "idle")

Step(t) == LockExchange(t) \/ Spin(t) \/ TryLockExchange(t)
Next == \E t \in Threads : Step(t) \/ Lock(t) \/ TryLock(t) \/ Unlock(t)
Spec == Init /\ [][Next]_vars

\* A thread inside lock or try_lock is scheduled again, and whoever has the
\* lock releases it.
Fairness == \A t \in Threads : WF_vars(Step(t)) /\ WF_vars(Unlock(t))

-----------------------------------------------------------------------------
TypeOK == /\ m_lock \in BOOLEAN
          /\ pc \in [Threads -> {"idle", "exchange", "spin", "try_exchange", "locked"}]

\* The flag is set exactly while a thread has the lock, and only one has it.
FlagMeansHeld == /\ TypeOK
                 /\ m_lock <=> \E t \in Threads : pc[t] = "locked"
                 /\ \A t, u \in Threads : pc[t] = "locked" /\ pc[u] = "locked" => t = u

\* While threads wait in lock, the lock keeps being handed on: whenever one
\* waits, some thread gets the lock.  Which one is left to chance.
SomebodyGetsIn == (\E t \in Threads : pc[t] \in {"exchange", "spin"})
                    ~> (\E t \in Threads : pc[t] = "locked")
=============================================================================
