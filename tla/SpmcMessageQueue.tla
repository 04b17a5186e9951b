--------------------------- MODULE SpmcMessageQueue --------------------------
(***************************************************************************)
(* spmc_bounded_message_queue: one writer broadcasts into a ring and never *)
(* waits; every consumer keeps its own position, which starts at the       *)
(* writer's.  A message is its number.  Copying one takes several memory    *)
(* accesses, so a copy that meets a write can be a mixture, Torn.          *)
(***************************************************************************)
EXTENDS Integers

CONSTANTS Consumers,
          Size,        \* a power of two
          MaxPos       \* bound on the messages written

Torn == -1

VARIABLES m_writer_pos, m_buffer, wpc,
          m_local_read_position, cpc,
          data         \* of each consumer: what its copy has so far
vars == <<m_writer_pos, m_buffer, wpc, m_local_read_position, cpc, data>>
writerVars == <<m_writer_pos, m_buffer, wpc>>

Init == /\ m_writer_pos = 0 /\ wpc = "idle"
        /\ m_buffer = [s \in 0..Size-1 |-> Torn]
        /\ m_local_read_position = [c \in Consumers |-> 0]
        /\ cpc = [c \in Consumers |-> "none"]
        /\ data = [c \in Consumers |-> Torn]

Slot(pos) == pos % Size

-----------------------------------------------------------------------------
(* try_enqueue *)

TryEnqueue == /\ wpc = "idle" /\ m_writer_pos < MaxPos /\ wpc' = "write"
              /\ m_buffer' = [m_buffer EXCEPT ![Slot(m_writer_pos)] = Torn]
              /\ UNCHANGED <<m_writer_pos, m_local_read_position, cpc, data>>
Written_Next == /\ wpc = "write" /\ wpc' = "store"
                /\ m_buffer' = [m_buffer EXCEPT ![Slot(m_writer_pos + 1)] = m_writer_pos]
                /\ UNCHANGED <<m_writer_pos, m_local_read_position, cpc, data>>
Written == /\ wpc = "write" /\ wpc' = "store"
           /\ m_buffer' = [m_buffer EXCEPT ![Slot(m_writer_pos)] = m_writer_pos]
           /\ UNCHANGED <<m_writer_pos, m_local_read_position, cpc, data>>
Store == /\ wpc = "store" /\ wpc' = "idle"
         /\ m_writer_pos' = m_writer_pos + 1
         /\ UNCHANGED <<m_buffer, m_local_read_position, cpc, data>>

-----------------------------------------------------------------------------
(* create_consumer, consumer::try_dequeue *)

CreateConsumer(c) == /\ cpc[c] = "none"
                     /\ m_local_read_position' = [m_local_read_position EXCEPT ![c] = m_writer_pos]
                     /\ cpc' = [cpc EXCEPT ![c] = "idle"]
                     /\ UNCHANGED <<writerVars, data>>

TryDequeue_Unchecked(c) == /\ cpc[c] = "idle"
                           /\ cpc' = [cpc EXCEPT ![c] = "begin"]
                           /\ UNCHANGED <<writerVars, m_local_read_position, data>>
TryDequeue(c) == /\ cpc[c] = "idle" /\ m_writer_pos # m_local_read_position[c]
                 /\ cpc' = [cpc EXCEPT ![c] = "begin"]
                 /\ UNCHANGED <<writerVars, m_local_read_position, data>>

BeginCopy(c) == /\ cpc[c] = "begin"
                /\ data' = [data EXCEPT ![c] = m_buffer[Slot(m_local_read_position[c])]]
                /\ cpc' = [cpc EXCEPT ![c] = "copy"]
                /\ UNCHANGED <<writerVars, m_local_read_position>>

EndCopy(c) == /\ cpc[c] = "copy"
              /\ LET now == m_buffer[Slot(m_local_read_position[c])]
                 IN  \E d \in IF data[c] = now THEN {now} ELSE {data[c], now, Torn} :
                       data' = [data EXCEPT ![c] = d]
              /\ m_local_read_position' = [m_local_read_position EXCEPT ![c] = @ + 1]
              /\ cpc' = [cpc EXCEPT ![c] = "idle"]
              /\ UNCHANGED writerVars

Next == \/ TryEnqueue \/ Written \/ Store
        \/ \E c \in Consumers : \/ CreateConsumer(c) \/ TryDequeue(c)
                                \/ BeginCopy(c) \/ EndCopy(c)
Spec == Init /\ [][Next]_vars

-----------------------------------------------------------------------------
TypeOK == /\ m_writer_pos \in 0..MaxPos /\ wpc \in {"idle", "write", "store"}
          /\ m_buffer \in [0..Size-1 -> Torn..MaxPos]
          /\ m_local_read_position \in [Consumers -> 0..MaxPos]
          /\ cpc \in [Consumers -> {"none", "idle", "begin", "copy"}]
          /\ data \in [Consumers -> Torn..MaxPos]

\* The writer is in, or has passed, the slot of the consumer's next message.
Overtaken(c) == m_writer_pos + (IF wpc = "idle" THEN 0 ELSE 1) > m_local_read_position[c] + Size

\* A consumer never runs ahead of the writer, and the slots hold the last
\* Size messages, but for the one being written.
RingHolds == /\ TypeOK
             /\ \A c \in Consumers : m_local_read_position[c] <= m_writer_pos
             /\ \A pos \in 0..(m_writer_pos - 1) :
                  pos + Size >= m_writer_pos + (IF wpc = "idle" THEN 0 ELSE 1)
                    => m_buffer[Slot(pos)] = pos

Delivers(c) == cpc[c] = "copy" /\ cpc'[c] = "idle" =>
  \/ data'[c] = m_local_read_position[c]
  \/ Overtaken(c) /\ (data'[c] = Torn \/ data'[c] > m_local_read_position[c])

\* A consumer gets exactly the message that is its turn unless the writer has
\* overtaken it, and then a torn or a newer one, never an older one.
DeliveredExact == [][\A c \in Consumers : Delivers(c)]_vars
=============================================================================
