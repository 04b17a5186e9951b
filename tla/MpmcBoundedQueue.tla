-------------------------- MODULE MpmcBoundedQueue --------------------------
(***************************************************************************)
(* mpmc_bounded_queue: an array of cells, each with a sequence number that *)
(* tells whose turn the cell is, and two ever-growing positions that       *)
(* threads claim with compare-and-swap.  One action per atomic operation   *)
(* on shared memory, in program order; the accesses to a cell's data are   *)
(* steps of their own.  Positions are 64-bit in the code and never wrap in *)
(* the lifetime of a process; here they are naturals, bounded by MaxPos.   *)
(***************************************************************************)
EXTENDS Integers, Sequences

CONSTANTS Threads, Values, None,
          Size,      \* cells of the buffer
          MaxPos     \* bound: no enqueue starts once MaxPos were claimed

ASSUME SizeAssumption   == Size \in Nat /\ Size > 1 /\ \E k \in 1..Size : Size = 2^k
ASSUME MaxPosAssumption == MaxPos \in Nat
ASSUME NoneAssumption   == None \notin Values

VARIABLES sequence, data,                \* the cells of m_buffer
          m_enqueue_pos, m_dequeue_pos,
          pc, pos, value                 \* per thread: step, pos, in_value or out_value

shared == <<sequence, data, m_enqueue_pos, m_dequeue_pos>>
vars   == <<sequence, data, m_enqueue_pos, m_dequeue_pos, pc, pos, value>>

Cell(p)    == p % Size    \* p & m_buffer_mask
GoTo(t, step) == pc' = [pc EXCEPT ![t] = step]

\* The call returns and its locals are gone.
Return(t) == /\ GoTo(t, "idle")
             /\ pos' = [pos EXCEPT ![t] = 0]
             /\ value' = [value EXCEPT ![t] = None]

\* Where the sequence number that was read sends the call.
Branch(t, step) == IF step = "idle" THEN Return(t) ELSE GoTo(t, step) /\ UNCHANGED <<pos, value>>

\* None stands for what a cell holds when nothing was stored in it or the
\* item was moved out of it.
Init == /\ sequence = [i \in 0..Size-1 |-> i]
        /\ data = [i \in 0..Size-1 |-> None]
        /\ m_enqueue_pos = 0 /\ m_dequeue_pos = 0
        /\ pc = [t \in Threads |-> "idle"]
        /\ pos = [t \in Threads |-> 0]
        /\ value = [t \in Threads |-> None]

-----------------------------------------------------------------------------
(* try_enqueue *)

TryEnqueue(t, v) == /\ pc[t] = "idle" /\ m_enqueue_pos < MaxPos
                    /\ pos' = [pos EXCEPT ![t] = m_enqueue_pos]
                    /\ value' = [value EXCEPT ![t] = v]
                    /\ GoTo(t, "enq_seq")
                    /\ UNCHANGED shared

EnqBranch_NoFullCheck(dif)  == IF dif <= 0 THEN "enq_cas" ELSE "enq_reload"
EnqBranch_FullIfTaken(dif)  == IF dif = 0 THEN "enq_cas" ELSE "idle"

\* dif = 0: try to claim; dif < 0: return false; dif > 0: reload the position.
EnqBranch(dif) == IF dif = 0 THEN "enq_cas" ELSE IF dif < 0 THEN "idle" ELSE "enq_reload"

EnqLoadSeq(t) == /\ pc[t] = "enq_seq"
                 /\ Branch(t, EnqBranch(sequence[Cell(pos[t])] - pos[t]))
                 /\ UNCHANGED shared

EnqReload_Stale(t) == pc[t] = "enq_reload" /\ GoTo(t, "enq_seq") /\ UNCHANGED <<shared, pos, value>>

EnqReload(t) == /\ pc[t] = "enq_reload"
                /\ pos' = [pos EXCEPT ![t] = m_enqueue_pos]
                /\ GoTo(t, "enq_seq")
                /\ UNCHANGED <<shared, value>>

\* A failed compare_exchange_strong leaves the current position in pos.
EnqCas(t) == /\ pc[t] = "enq_cas"
             /\ IF m_enqueue_pos = pos[t]
                  THEN /\ m_enqueue_pos' = pos[t] + 1 /\ GoTo(t, "enq_write")
                       /\ UNCHANGED pos
                  ELSE /\ pos' = [pos EXCEPT ![t] = m_enqueue_pos] /\ GoTo(t, "enq_seq")
                       /\ UNCHANGED m_enqueue_pos
             /\ UNCHANGED <<sequence, data, m_dequeue_pos, value>>

EnqWrite(t) == /\ pc[t] = "enq_write"
               /\ data' = [data EXCEPT ![Cell(pos[t])] = value[t]]
               /\ GoTo(t, "enq_publish")
               /\ UNCHANGED <<sequence, m_enqueue_pos, m_dequeue_pos, pos, value>>

EnqPublish(t) == /\ pc[t] = "enq_publish"
                 /\ sequence' = [sequence EXCEPT ![Cell(pos[t])] = pos[t] + 1]
                 /\ Return(t)
                 /\ UNCHANGED <<data, m_enqueue_pos, m_dequeue_pos>>

-----------------------------------------------------------------------------
(* try_dequeue *)

TryDequeue(t) == /\ pc[t] = "idle"
                 /\ pos' = [pos EXCEPT ![t] = m_dequeue_pos]
                 /\ GoTo(t, "deq_seq")
                 /\ UNCHANGED <<shared, value>>

Published_OffByOne(p) == p

\* The sequence number of a cell whose item of position p may be dequeued,
\* and that of a cell given back for the next lap.
Published(p) == p + 1
NextLap_Backwards(p) == p - Size
NextLap(p) == p + Size

DeqBranch(dif) == IF dif = 0 THEN "deq_cas" ELSE IF dif < 0 THEN "idle" ELSE "deq_reload"

DeqLoadSeq(t) == /\ pc[t] = "deq_seq"
                 /\ Branch(t, DeqBranch(sequence[Cell(pos[t])] - Published(pos[t])))
                 /\ UNCHANGED shared

DeqReload(t) == /\ pc[t] = "deq_reload"
                /\ pos' = [pos EXCEPT ![t] = m_dequeue_pos]
                /\ GoTo(t, "deq_seq")
                /\ UNCHANGED <<shared, value>>

DeqCas(t) == /\ pc[t] = "deq_cas"
             /\ IF m_dequeue_pos = pos[t]
                  THEN /\ m_dequeue_pos' = pos[t] + 1 /\ GoTo(t, "deq_read")
                       /\ UNCHANGED pos
                  ELSE /\ pos' = [pos EXCEPT ![t] = m_dequeue_pos] /\ GoTo(t, "deq_seq")
                       /\ UNCHANGED m_dequeue_pos
             /\ UNCHANGED <<sequence, data, m_enqueue_pos, value>>

DeqRead(t) == /\ pc[t] = "deq_read"
              /\ value' = [value EXCEPT ![t] = data[Cell(pos[t])]]
              /\ data' = [data EXCEPT ![Cell(pos[t])] = None]
              /\ GoTo(t, "deq_release")
              /\ UNCHANGED <<sequence, m_enqueue_pos, m_dequeue_pos, pos>>

DeqRelease(t) == /\ pc[t] = "deq_release"
                 /\ sequence' = [sequence EXCEPT ![Cell(pos[t])] = NextLap(pos[t])]
                 /\ Return(t)
                 /\ UNCHANGED <<data, m_enqueue_pos, m_dequeue_pos>>

-----------------------------------------------------------------------------
Step(t) == \/ EnqLoadSeq(t) \/ EnqReload(t) \/ EnqCas(t) \/ EnqWrite(t) \/ EnqPublish(t)
           \/ DeqLoadSeq(t) \/ DeqReload(t) \/ DeqCas(t) \/ DeqRead(t) \/ DeqRelease(t)
Next == \E t \in Threads : Step(t) \/ TryDequeue(t) \/ \E v \in Values : TryEnqueue(t, v)
Spec == Init /\ [][Next]_vars

\* A thread inside a call is scheduled again; nobody has to start a call.
FairSpec == Spec /\ \A t \in Threads : WF_vars(Step(t))

-----------------------------------------------------------------------------
Steps == {"idle", "enq_seq", "enq_reload", "enq_cas", "enq_write", "enq_publish",
          "deq_seq", "deq_reload", "deq_cas", "deq_read", "deq_release"}

TypeOK == /\ sequence \in [0..Size-1 -> Nat]
          /\ data \in [0..Size-1 -> Values \cup {None}]
          /\ m_enqueue_pos \in Nat /\ m_dequeue_pos \in Nat
          /\ pc \in [Threads -> Steps]
          /\ pos \in [Threads -> Nat]
          /\ value \in [Threads -> Values \cup {None}]

\* Who has claimed position p and is not done with its cell.
Enqueuing(t) == pc[t] \in {"enq_write", "enq_publish"}
Dequeuing(t) == pc[t] \in {"deq_read", "deq_release"}

\* No two threads are ever inside the same cell: the unprotected accesses to
\* cell::data (lines 62 and 86) never race.
NoDataRace == \A t, u \in Threads :
  (t # u /\ (Enqueuing(t) \/ Dequeuing(t)) /\ (Enqueuing(u) \/ Dequeuing(u)))
    => Cell(pos[t]) # Cell(pos[u])

(* The inductive invariant: who owns a cell, what its sequence number is,  *)
(* and what a thread may rely on between reading it and claiming it.       *)

Window == m_dequeue_pos <= m_enqueue_pos /\ m_enqueue_pos <= m_dequeue_pos + Size

Claims ==
  /\ \A t \in Threads : Enqueuing(t) =>
       /\ m_dequeue_pos <= pos[t] /\ pos[t] < m_enqueue_pos
       /\ sequence[Cell(pos[t])] = pos[t]
  /\ \A t \in Threads : Dequeuing(t) =>
       /\ pos[t] < m_dequeue_pos /\ m_enqueue_pos <= pos[t] + Size
       /\ sequence[Cell(pos[t])] = pos[t] + 1
  /\ \A t, u \in Threads : t # u /\ pos[t] = pos[u] =>
       ~(Enqueuing(t) /\ Enqueuing(u)) /\ ~(Dequeuing(t) /\ Dequeuing(u))

\* The cell that position p will use next lap is free for p, or still holds
\* the item of position q = p - Size, or is being filled with it.
Turn(p) == LET q == p - Size IN
  \/ sequence[Cell(p)] = p /\ q < m_dequeue_pos
  \/ sequence[Cell(p)] = q + 1 /\ (m_dequeue_pos <= q \/ \E t \in Threads : Dequeuing(t) /\ pos[t] = q)
  \/ sequence[Cell(p)] = q /\ \E t \in Threads : Enqueuing(t) /\ pos[t] = q

Turns == \A p \in m_enqueue_pos..(m_enqueue_pos + Size - 1) : Turn(p)

\* What a thread may rely on between reading a position and claiming it.
Attempt(t) ==
  /\ pc[t] \in {"enq_seq", "enq_reload", "enq_cas"} => pos[t] <= m_enqueue_pos
  /\ pc[t] \in {"deq_seq", "deq_reload", "deq_cas"} => pos[t] <= m_dequeue_pos
  /\ pc[t] = "enq_cas" /\ pos[t] = m_enqueue_pos => sequence[Cell(pos[t])] = pos[t]
  /\ pc[t] = "deq_cas" /\ pos[t] = m_dequeue_pos => sequence[Cell(pos[t])] = pos[t] + 1

Attempts == \A t \in Threads : Attempt(t)

\* Each cell is at every moment owned by exactly one party: the enqueuer or
\* the dequeuer that claimed its position, the queue, or nobody.
CellLifecycle == TypeOK /\ Window /\ Claims /\ Turns /\ Attempts

JustFailure == \A t \in Threads :
  /\ pc[t] = "enq_seq" /\ pc'[t] = "idle" =>
       \/ m_enqueue_pos = m_dequeue_pos + Size
       \/ \E u \in Threads : Dequeuing(u) /\ pos[u] = m_enqueue_pos - Size
  /\ pc[t] = "deq_seq" /\ pc'[t] = "idle" =>
       \/ m_dequeue_pos = m_enqueue_pos
       \/ \E u \in Threads : Enqueuing(u) /\ pos[u] = m_dequeue_pos

\* try_enqueue returns false only if the cell it needs is still taken, by an
\* item of the previous lap or by a dequeuer that has not released it; and
\* try_dequeue returns false only if the queue is empty or the enqueuer of
\* the oldest position has not published it.
FailureJustified == [][JustFailure]_vars

\* Every call returns: its loop is repeated only when another call has moved
\* the position on, so with MaxPos claims no thread spins forever.
CallsReturn == \A t \in Threads : pc[t] # "idle" ~> pc[t] = "idle"

-----------------------------------------------------------------------------
(* The queue implements Fifo: a value is in the queue from the step that   *)
(* claims its position to the step that claims it for a dequeuer.          *)

ItemAt(p) == IF \E t \in Threads : pc[t] = "enq_write" /\ pos[t] = p
               THEN value[CHOOSE t \in Threads : pc[t] = "enq_write" /\ pos[t] = p]
               ELSE data[Cell(p)]

AbstractQueue == [i \in 1..(m_enqueue_pos - m_dequeue_pos) |-> ItemAt(m_dequeue_pos + i - 1)]
AbstractTaken == [t \in Threads |-> IF pc[t] = "deq_read" THEN data[Cell(pos[t])]
                                    ELSE IF pc[t] = "deq_release" THEN value[t] ELSE None]

F == INSTANCE Fifo WITH Capacity <- Size, queue <- AbstractQueue, taken <- AbstractTaken

\* The queue is a bounded FIFO of Size items that loses, duplicates and
\* reorders nothing, whatever the interleaving.
ImplementsFifo == F!Spec
=============================================================================
