-------------------------------- MODULE Fifo --------------------------------
(***************************************************************************)
(* What every FIFO queue of hope_thread promises its callers, with each    *)
(* operation taking effect in one step.  A value is appended by Enqueue;   *)
(* Dequeue(t) hands the oldest value to caller t, who holds it in taken[t] *)
(* until its call returns.  The concurrent queues are shown to implement   *)
(* this specification.                                                     *)
(***************************************************************************)
EXTENDS Naturals, Sequences

CONSTANTS Threads,   \* callers of the queue
          Values,    \* what callers enqueue
          Capacity,  \* most values the queue holds at once
          None       \* taken[t] while t holds no dequeued value

VARIABLES queue, taken
vars == <<queue, taken>>

Init == /\ queue = << >>
        /\ taken = [t \in Threads |-> None]

Enqueue(v) == /\ Len(queue) < Capacity
              /\ queue' = Append(queue, v)
              /\ UNCHANGED taken

Dequeue(t) == /\ queue # << >> /\ taken[t] = None
              /\ taken' = [taken EXCEPT ![t] = Head(queue)]
              /\ queue' = Tail(queue)

Return(t) == /\ taken[t] # None
             /\ taken' = [taken EXCEPT ![t] = None]
             /\ UNCHANGED queue

Next == \/ \E v \in Values : Enqueue(v)
        \/ \E t \in Threads : Dequeue(t) \/ Return(t)

Spec == Init /\ [][Next]_vars
=============================================================================
