-------------------------- MODULE SpscBoundedQueue ---------------------------
(***************************************************************************)
(* spsc_bounded_queue: a ring whose positions advance by                   *)
(* fetch_add(position + 1), so they run 0, 1, 3, 7, ... up to the largest  *)
(* size_t, where they stay.  Producer and consumer visit the same          *)
(* positions, which is why the queue works at first.                       *)
(***************************************************************************)
EXTENDS Integers, Sequences

CONSTANTS Values, None,
          Size,        \* a power of two above 1
          Modulus      \* 2^64 of size_t

VARIABLES m_head, m_tail, buffer,
          pc, item,      \* of the producer: step, v
          cpc, out,      \* of the consumer: step, v
          path           \* ghost: the positions from the first item's to m_head
vars == <<m_head, m_tail, buffer, pc, item, cpc, out, path>>

Init == /\ m_head = 0 /\ m_tail = 0
        /\ buffer = [s \in 0..Size-1 |-> None]
        /\ pc = "idle" /\ item = None /\ cpc = "idle" /\ out = None
        /\ path = <<0>>

Slot(pos) == pos % Size
NextPos(pos) == (pos + pos + 1) % Modulus

\* From item log2(Size) + 2 on, the producer comes back to the last slot
\* whether or not it has been read; path is not followed any further.
Wrapped == m_head + (IF pc = "idle" THEN 0 ELSE 1) >= 2 * Size
FollowPath(new) == path' = IF Wrapped' THEN << >> ELSE new

\* Each side loads its own position, which nobody else changes, and the
\* other's; then it uses the slot; then it moves on.
TryEnqueue(v) == /\ pc = "idle" /\ (m_head - m_tail) % Modulus <= Size
                 /\ pc' = "write" /\ item' = v
                 /\ UNCHANGED <<m_head, m_tail, buffer, cpc, out, path>>
Write_NextSlot == /\ pc = "write" /\ pc' = "advance"
                  /\ buffer' = [buffer EXCEPT ![Slot(m_head + 1)] = item]
                  /\ UNCHANGED <<m_head, m_tail, item, cpc, out, path>>
Write == /\ pc = "write" /\ pc' = "advance"
         /\ buffer' = [buffer EXCEPT ![Slot(m_head)] = item]
         /\ UNCHANGED <<m_head, m_tail, item, cpc, out, path>>
AdvanceHead == /\ pc = "advance" /\ pc' = "idle" /\ item' = None
               /\ m_head' = NextPos(m_head) /\ FollowPath(Append(path, m_head'))
               /\ UNCHANGED <<m_tail, buffer, cpc, out>>

TryDequeue == /\ cpc = "idle" /\ m_head # m_tail
              /\ cpc' = "move"
              /\ UNCHANGED <<m_head, m_tail, buffer, pc, item, out, path>>
Move == /\ cpc = "move" /\ cpc' = "advance"
        /\ out' = buffer[Slot(m_tail)]
        /\ buffer' = [buffer EXCEPT ![Slot(m_tail)] = None]
        /\ UNCHANGED <<m_head, m_tail, pc, item>>
        /\ FollowPath(Tail(path))
AdvanceTail == /\ cpc = "advance" /\ cpc' = "idle" /\ out' = None
               /\ m_tail' = NextPos(m_tail)
               /\ UNCHANGED <<m_head, buffer, pc, item, path>>

Next == \/ Write \/ AdvanceHead \/ TryDequeue \/ Move \/ AdvanceTail
        \/ \E v \in Values : TryEnqueue(v)
Spec == Init /\ [][Next]_vars

-----------------------------------------------------------------------------
F == INSTANCE Fifo WITH
       Threads <- {"consumer"}, Capacity <- Size,
       queue   <- [i \in 1..(Len(path) - 1) |-> buffer[Slot(path[i])]],
       taken   <- [t \in {"consumer"} |-> IF cpc = "advance" THEN out ELSE None]

\* The first log2(Size) + 1 items go through the queue as through a FIFO.
\* Later ones may overwrite an item that was not read, and once the positions
\* are at the largest size_t every item is accepted and none comes out.
FifoUntilWrapped == F!Init /\ [][Wrapped' \/ F!Next]_(F!vars)
=============================================================================
