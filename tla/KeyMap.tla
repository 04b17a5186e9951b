------------------------------- MODULE KeyMap -------------------------------
(***************************************************************************)
(* What the hash containers of hope_thread promise: a map from keys to     *)
(* values in which every call takes effect at one moment, and answers for  *)
(* that moment.  A set is the case of one value.                           *)
(***************************************************************************)
CONSTANTS Threads, Keys, Values,
          None      \* no value, and no answer

VARIABLES map,      \* the value of each key, None if it is absent
          answer    \* what the call in progress of each thread will return
vars == <<map, answer>>

Init == map = [k \in Keys |-> None] /\ answer = [t \in Threads |-> None]

Answer(t, a) == answer[t] = None /\ answer' = [answer EXCEPT ![t] = a]

\* Tells whether the key is new.
Put(t, k, v)   == map' = [map EXCEPT ![k] = v] /\ Answer(t, map[k] = None)
Erase(k)       == map' = [map EXCEPT ![k] = None] /\ UNCHANGED answer
Get(t, k)      == Answer(t, map[k]) /\ UNCHANGED map
Contains(t, k) == Answer(t, map[k] # None) /\ UNCHANGED map
Return(t)      == answer' = [answer EXCEPT ![t] = None] /\ UNCHANGED map

Next == \/ \E t \in Threads, k \in Keys : Get(t, k) \/ Contains(t, k) \/ \E v \in Values : Put(t, k, v)
        \/ \E k \in Keys : Erase(k)
        \/ \E t \in Threads : Return(t)
Spec == Init /\ [][Next]_vars
=============================================================================
