------------------------- MODULE ObjectSafeWrapper --------------------------
(***************************************************************************)
(* object_safe_wrapper over recursive_rw_spinlock, as the example and the  *)
(* sample of the repository make it.  operator -> and operator * return a  *)
(* proxy that holds the lock until the end of the expression: exclusively, *)
(* or shared if the wrapper is const.  lock and lock_shared do the same    *)
(* until unlock.  Proxies nest as the lock allows.  The proxy casts const  *)
(* away: through a const wrapper too the object can be changed.            *)
(***************************************************************************)
EXTENDS RecursiveRwSpinlock

CONSTANT None

VARIABLES m_object,     \* a value that changes: 0 or 1
          proxies,      \* of each thread: those alive or being made, innermost last
          local         \* of each thread: what it has read of the object, or None
wrapperVars == <<vars, m_object, proxies, local>>

WrapperInit == /\ Init /\ m_object = 0
               /\ proxies = [t \in Threads |-> << >>]
               /\ local = [t \in Threads |-> None]

\* A proxy is made: its member m_lock takes the mutex.
Proxy(t, kind) == /\ proxies' = [proxies EXCEPT ![t] = Append(@, kind)]
                  /\ UNCHANGED <<m_object, local>>

Arrow_Shared(t) == LockShared(t) /\ Proxy(t, "object")
Arrow(t)        == Lock(t) /\ Proxy(t, "object")
ConstArrow(t)   == LockShared(t) /\ Proxy(t, "const")

\* The innermost proxy is destroyed, or unlock or unlock_shared called; the
\* last one of a thread takes what was read with it.
Release(t) == /\ Unlock(t) \/ UnlockShared(t)
              /\ proxies' = [proxies EXCEPT ![t] = SubSeq(@, 1, Len(@) - 1)]
              /\ local' = [local EXCEPT ![t] = IF Len(proxies[t]) = 1 THEN None ELSE @]
              /\ UNCHANGED m_object

Inside(t) == pc[t] = "idle" /\ proxies[t] # << >>

\* A member function that reads; raw returns a copy of the object as well.
Read(t) == /\ Inside(t)
           /\ local' = [local EXCEPT ![t] = m_object]
           /\ UNCHANGED <<vars, m_object, proxies>>

\* A member function that changes the object, from what it has read, through a
\* proxy of either kind.
Write(t) == /\ Inside(t) /\ local[t] # None
            /\ m_object' = 1 - local[t] /\ local' = [local EXCEPT ![t] = m_object']
            /\ UNCHANGED <<vars, proxies>>

LockStep(t) == Step(t) /\ UNCHANGED <<m_object, proxies, local>>

WrapperNext == \E t \in Threads : \/ LockStep(t) \/ Arrow(t) \/ ConstArrow(t) \/ Release(t)
                                  \/ Read(t) \/ Write(t)

-----------------------------------------------------------------------------
\* A thread that has come to the object through a const wrapper only.
ConstOnly(t) == \A i \in 1..Len(proxies[t]) : proxies[t][i] = "const"

IsolatedStep == \A t, u \in Threads : t # u /\ Write(t) /\ local[u] # None => ConstOnly(t) /\ ConstOnly(u)

\* What a thread has read of the object is changed by nobody else until its last
\* proxy is gone, unless both came through const wrappers: a change that was
\* worked out from a read through a wrapper that is not const loses nobody
\* else's, and none is lost to it.
Isolated == [][IsolatedStep]_wrapperVars
=============================================================================
