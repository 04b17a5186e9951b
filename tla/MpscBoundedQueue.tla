-------------------------- MODULE MpscBoundedQueue ---------------------------
(***************************************************************************)
(* mpsc_bounded_queue: producers claim positions of m_head by              *)
(* compare-and-swap, fill the slot and set its ready flag; the one         *)
(* consumer clears it.  The full test reads m_tail, which is no atomic and *)
(* is the consumer's; it lets Size + 1 positions be claimed at once.       *)
(***************************************************************************)
EXTENDS Integers, Sequences

CONSTANTS Producers, Values, None,
          Size,        \* a power of two above 1
          Modulus,     \* 2^64 of size_t: bounds nothing but the subtraction
          MaxPos       \* bound on the positions claimed, below Modulus

VARIABLES m_head, m_tail, data, ready,
          pc, cur_head, item,   \* of each producer: step, position, v
          cpc, out,             \* of the consumer
          overrun               \* ghost: a slot was claimed that was not yet read
vars == <<m_head, m_tail, data, ready, pc, cur_head, item, cpc, out, overrun>>
producerVars == <<pc, cur_head, item>>
ring         == <<m_head, m_tail, data, ready, overrun>>
Slots        == 0..Size-1

Init == /\ m_head = 0 /\ m_tail = 0 /\ overrun = FALSE
        /\ data = [s \in Slots |-> None] /\ ready = [s \in Slots |-> FALSE]
        /\ pc = [p \in Producers |-> "idle"] /\ cur_head = [p \in Producers |-> 0]
        /\ item = [p \in Producers |-> None]
        /\ cpc = "idle" /\ out = None

Slot(pos)     == pos % Size
GoTo(p, step) == pc' = [pc EXCEPT ![p] = step]
Return(p)     == /\ GoTo(p, "idle")
                 /\ cur_head' = [cur_head EXCEPT ![p] = 0]
                 /\ item' = [item EXCEPT ![p] = None]

-----------------------------------------------------------------------------
(* try_enqueue *)

TryEnqueue(p, v) == /\ pc[p] = "idle"
                    /\ cur_head' = [cur_head EXCEPT ![p] = m_head]
                    /\ item' = [item EXCEPT ![p] = v]
                    /\ GoTo(p, "check")
                    /\ UNCHANGED <<ring, cpc, out>>

\* The difference of two size_t: a position that has been read from since it
\* was loaded is a huge distance ahead.
Full_Never(pos) == FALSE
Full(pos) == (pos - m_tail) % Modulus > Size

Check(p) == /\ pc[p] = "check"
            /\ IF Full(cur_head[p]) THEN Return(p)
                                    ELSE GoTo(p, "cas") /\ UNCHANGED <<cur_head, item>>
            /\ UNCHANGED <<ring, cpc, out>>

Claim(p) == /\ pc[p] = "cas" /\ m_head = cur_head[p] /\ m_head < MaxPos
            /\ m_head' = m_head + 1
            /\ overrun' = (overrun \/ m_head - m_tail >= Size)
            /\ GoTo(p, "write")
            /\ UNCHANGED <<m_tail, data, ready, cur_head, item, cpc, out>>

\* A failed compare-and-swap leaves the current m_head in cur_head.
Retry(p) == /\ pc[p] = "cas" /\ m_head # cur_head[p]
            /\ cur_head' = [cur_head EXCEPT ![p] = m_head]
            /\ GoTo(p, "check")
            /\ UNCHANGED <<ring, item, cpc, out>>

Write(p) == /\ pc[p] = "write" /\ GoTo(p, "ready")
            /\ data' = [data EXCEPT ![Slot(cur_head[p])] = item[p]]
            /\ UNCHANGED <<m_head, m_tail, ready, overrun, cur_head, item, cpc, out>>

SetReady(p) == /\ pc[p] = "ready" /\ Return(p)
               /\ ready' = [ready EXCEPT ![Slot(cur_head[p])] = TRUE]
               /\ UNCHANGED <<m_head, m_tail, data, overrun, cpc, out>>

-----------------------------------------------------------------------------
(* try_dequeue *)

\* The consumer looks at m_head and then at the flag; neither can change from
\* what lets it go on, so the two looks are one step.
TryDequeue_NotWaiting == /\ cpc = "idle" /\ m_head # m_tail
                         /\ cpc' = "move"
                         /\ UNCHANGED <<ring, producerVars, out>>
TryDequeue == /\ cpc = "idle" /\ m_head # m_tail
              /\ ready[Slot(m_tail)] /\ cpc' = "move"
              /\ UNCHANGED <<ring, producerVars, out>>

Move == /\ cpc = "move" /\ cpc' = "clear"
        /\ out' = data[Slot(m_tail)]
        /\ data' = [data EXCEPT ![Slot(m_tail)] = None]
        /\ UNCHANGED <<m_head, m_tail, ready, overrun, producerVars>>

Clear_After == /\ cpc = "clear" /\ cpc' = "advance"
               /\ ready' = [ready EXCEPT ![Slot(m_tail + 1)] = FALSE]
               /\ UNCHANGED <<m_head, m_tail, data, overrun, producerVars, out>>
Clear == /\ cpc = "clear" /\ cpc' = "advance"
         /\ ready' = [ready EXCEPT ![Slot(m_tail)] = FALSE]
         /\ UNCHANGED <<m_head, m_tail, data, overrun, producerVars, out>>

Advance == /\ cpc = "advance" /\ cpc' = "idle"
           /\ m_tail' = m_tail + 1 /\ out' = None
           /\ UNCHANGED <<m_head, data, ready, overrun, producerVars>>

EnqueueStep(p) == Check(p) \/ Claim(p) \/ Retry(p) \/ Write(p) \/ SetReady(p)
DequeueStep    == TryDequeue \/ Move \/ Clear \/ Advance
Next == \/ \E p \in Producers : EnqueueStep(p) \/ \E v \in Values : TryEnqueue(p, v)
        \/ DequeueStep
Spec == Init /\ [][Next]_vars

\* A call that was begun goes on, and the consumer keeps polling.
Fairness == (\A p \in Producers : WF_vars(EnqueueStep(p))) /\ WF_vars(DequeueStep)

-----------------------------------------------------------------------------
TypeOK == /\ m_head \in 0..MaxPos /\ m_tail \in 0..MaxPos /\ overrun \in BOOLEAN
          /\ data \in [Slots -> Values \cup {None}] /\ ready \in [Slots -> BOOLEAN]
          /\ pc \in [Producers -> {"idle", "check", "cas", "write", "ready"}]
          /\ cur_head \in [Producers -> 0..MaxPos]
          /\ item \in [Producers -> Values \cup {None}]
          /\ cpc \in {"idle", "move", "clear", "advance"} /\ out \in Values \cup {None}

Filling(p) == pc[p] \in {"write", "ready"}

\* Until a slot is claimed that has not been read, every slot has one user:
\* producers fill different slots, none of them the consumer's, and a slot is
\* ready exactly if its item is complete.
SlotsOwned ==
  /\ TypeOK
  /\ m_head <= m_tail + Size + 1
  /\ ~overrun =>
       /\ \A p, q \in Producers : Filling(p) /\ Filling(q) /\ p # q
            => Slot(cur_head[p]) # Slot(cur_head[q])
       /\ \A p \in Producers : Filling(p) /\ cpc # "idle" => Slot(cur_head[p]) # Slot(m_tail)
       /\ \A pos \in m_tail..(m_head - 1) : ~ready[Slot(pos)] =>
            \/ \E p \in Producers : Filling(p) /\ cur_head[p] = pos
            \/ pos = m_tail /\ cpc = "advance"

\* A claimed position is delivered: producers finish out of order, the consumer
\* waits for the slot at m_tail, and its own clear never takes away the flag of
\* an item that was put there for the next lap.
ClaimedDelivered == \A n \in 1..MaxPos : m_head >= n ~> m_tail >= n \/ overrun

\* The item of a claimed position, still in its producer's hand or in the slot.
ItemAt(pos) == IF \E p \in Producers : pc[p] = "write" /\ cur_head[p] = pos
                 THEN item[CHOOSE p \in Producers : pc[p] = "write" /\ cur_head[p] = pos]
                 ELSE data[Slot(pos)]
Taken == cpc \in {"clear", "advance"}

F == INSTANCE Fifo WITH
       Threads <- {"consumer"}, Capacity <- Size,
       queue   <- LET first == m_tail + IF Taken THEN 1 ELSE 0
                  IN  [i \in 1..(m_head - first) |-> ItemAt(first + i - 1)],
       taken   <- [t \in {"consumer"} |-> IF Taken THEN out ELSE None]

\* The queue is a FIFO of Size items as long as its callers do not keep more
\* in it; the full test does not see to that.
FifoUntilOverrun == F!Init /\ [][overrun' \/ F!Next]_(F!vars)
=============================================================================
