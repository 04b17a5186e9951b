-------------------------- MODULE SpmcNonUniformQueue ------------------------
(***************************************************************************)
(* spmc_bounded_non_uniform_queue: a broadcast ring of bytes.  A message   *)
(* is its size in Header bytes followed by the bytes themselves, or, if    *)
(* the two do not fit before the end, the size there and the bytes at the  *)
(* beginning of the next lap.  Writer and consumers work out the positions *)
(* separately from the size.  A byte holds the number of its message, and  *)
(* whether it is of the size or of the message itself.                     *)
(***************************************************************************)
EXTENDS Integers, Sequences

CONSTANTS Consumers,
          BufferSize,  \* a power of two
          Header,      \* sizeof(uint32_t)
          Sizes,       \* of messages, at most BufferSize
          MaxPos       \* bound on the writer's and the consumers' positions

VARIABLES m_writer_pos, m_buffer, wpc,
          m_local_read_position, cpc,
          size, from, got,  \* of each consumer: what it is reading, and has read last
          sent,        \* ghost: the messages, with where they start and their size
          due,         \* ghost: the message that is the consumer's turn
          overtaken    \* ghost: the writer has been in that message again
vars == <<m_writer_pos, m_buffer, wpc, m_local_read_position, cpc, size, from, got, sent, due, overtaken>>
writerVars   == <<m_writer_pos, m_buffer, wpc, sent>>
consumerVars == <<m_local_read_position, cpc, size, from, got, due>>

\* write_size may run over the end of m_buffer into the padding of the class.
Bytes == 0..(BufferSize + Header - 2)
Blank == <<0, "blank">>

Init == /\ m_writer_pos = 0 /\ wpc = "idle" /\ sent = << >>
        /\ m_buffer = [b \in Bytes |-> Blank]
        /\ m_local_read_position = [c \in Consumers |-> 0]
        /\ cpc = [c \in Consumers |-> "none"]
        /\ size = [c \in Consumers |-> 0] /\ from = [c \in Consumers |-> 0]
        /\ got = [c \in Consumers |-> 0]
        /\ due = [c \in Consumers |-> 0] /\ overtaken = [c \in Consumers |-> FALSE]

Fill(first, count, byte) ==
  m_buffer' = [b \in Bytes |-> IF b \in first..(first + count - 1) THEN byte ELSE m_buffer[b]]
NextLap(pos) == (pos \div BufferSize + 1) * BufferSize

-----------------------------------------------------------------------------
(* seirialize *)

Wraps(pos, n) == (pos % BufferSize) + n + Header > BufferSize
PositionAfterWrite(pos, n) == IF Wraps(pos, n) THEN NextLap(pos) + n ELSE pos + Header + n
WritePos(pos, n) == IF Wraps(pos, n) THEN 0 ELSE (pos % BufferSize) + Header

\* A write up to end runs into message m: into one of the lap before, or, if a
\* message wraps and is longer than its offset, into the size of m itself.
RunsInto(end, m) == end > m.start + BufferSize
Overtakes(end) ==
  overtaken' = [c \in Consumers |-> overtaken[c] \/
                  (cpc[c] # "none" /\ due[c] <= Len(sent') /\ RunsInto(end, sent'[due[c]]))]

WriteSize(n) == LET end == PositionAfterWrite(m_writer_pos, n) IN
  /\ wpc = "idle" /\ end <= MaxPos /\ wpc' = "message"
  /\ Fill(m_writer_pos % BufferSize, Header, <<Len(sent) + 1, "size">>)
  /\ sent' = Append(sent, [start |-> m_writer_pos, size |-> n])
  /\ Overtakes(end)
  /\ UNCHANGED <<m_writer_pos, consumerVars>>

WriteMessage == LET m == sent[Len(sent)] IN
  /\ wpc = "message" /\ wpc' = "store"
  /\ Fill(WritePos(m.start, m.size), m.size, <<Len(sent), "message">>)
  /\ UNCHANGED <<m_writer_pos, sent, consumerVars, overtaken>>

Store == /\ wpc = "store" /\ wpc' = "idle"
         /\ m_writer_pos' = PositionAfterWrite(m_writer_pos, sent[Len(sent)].size)
         /\ UNCHANGED <<m_buffer, sent, consumerVars, overtaken>>

-----------------------------------------------------------------------------
(* create_consumer, consumer::try_deserialize *)

CreateConsumer(c) ==
  /\ cpc[c] = "none" /\ cpc' = [cpc EXCEPT ![c] = "idle"]
  /\ m_local_read_position' = [m_local_read_position EXCEPT ![c] = m_writer_pos]
  /\ due' = [due EXCEPT ![c] = Len(sent) + IF wpc = "idle" THEN 1 ELSE 0]
  /\ got' = [got EXCEPT ![c] = due'[c] - 1]
  /\ overtaken' = [overtaken EXCEPT ![c] = wpc # "idle" /\
       RunsInto(PositionAfterWrite(m_writer_pos, sent[Len(sent)].size), sent[Len(sent)])]
  /\ UNCHANGED <<writerVars, size, from>>

\* A consumer that is out of step can run ahead of the writer for ever: MaxPos
\* bounds it too.
TryDeserialize(c) == /\ cpc[c] = "idle" /\ m_writer_pos # m_local_read_position[c]
                     /\ m_local_read_position[c] <= MaxPos
                     /\ cpc' = [cpc EXCEPT ![c] = "size"]
                     /\ UNCHANGED <<writerVars, m_local_read_position, size, from, got, due, overtaken>>

\* The number of the message that fills the bytes from first on, or 0.
Intact(first, count, kind) == IF \E k \in 1..Len(sent) : \A b \in first..(first + count - 1) :
                                   b \in Bytes /\ m_buffer[b] = <<k, kind>>
                                THEN m_buffer[first][1] ELSE 0

ReadWraps_Late(pos, n) == n + pos > BufferSize
ReadWraps(pos, n) == n + pos + Header > BufferSize

\* Bytes that are no size give no size the model could go on with: the
\* consumer is lost.
ReadSize(c) == LET pos == m_local_read_position[c] % BufferSize
                   k   == Intact(pos, Header, "size")
                   n   == sent[k].size
               IN
  /\ cpc[c] = "size"
  /\ \/ /\ k = 0 /\ cpc' = [cpc EXCEPT ![c] = "lost"]
        /\ UNCHANGED <<m_local_read_position, size, from>>
     \/ /\ k # 0 /\ cpc' = [cpc EXCEPT ![c] = "message"]
        /\ size' = [size EXCEPT ![c] = n]
        /\ IF ReadWraps(pos, n)
             THEN /\ m_local_read_position' = [m_local_read_position EXCEPT ![c] = NextLap(@) + n]
                  /\ from' = [from EXCEPT ![c] = 0]
             ELSE /\ m_local_read_position' = [m_local_read_position EXCEPT ![c] = @ + Header + n]
                  /\ from' = [from EXCEPT ![c] = pos + Header]
  /\ UNCHANGED <<writerVars, got, due, overtaken>>

ReadMessage(c) == /\ cpc[c] = "message" /\ cpc' = [cpc EXCEPT ![c] = "idle"]
                  /\ got' = [got EXCEPT ![c] = Intact(from[c], size[c], "message")]
                  /\ due' = [due EXCEPT ![c] = @ + 1]
                  /\ size' = [size EXCEPT ![c] = 0] /\ from' = [from EXCEPT ![c] = 0]
                  /\ UNCHANGED <<writerVars, m_local_read_position, overtaken>>

Next == \/ WriteMessage \/ Store \/ \E n \in Sizes : WriteSize(n)
        \/ \E c \in Consumers : \/ CreateConsumer(c) \/ TryDeserialize(c)
                                \/ ReadSize(c) \/ ReadMessage(c)
Spec == Init /\ [][Next]_vars

-----------------------------------------------------------------------------
TypeOK == /\ m_writer_pos \in 0..MaxPos /\ wpc \in {"idle", "message", "store"}
          /\ DOMAIN m_buffer = Bytes
          /\ cpc \in [Consumers -> {"none", "idle", "size", "message", "lost"}]
          /\ overtaken \in [Consumers -> BOOLEAN]

\* Where message k starts; the next one starts where the writer is.
StartOf(k) == IF k <= Len(sent) THEN sent[k].start ELSE m_writer_pos

\* A consumer is always at the start of the message that is its turn, whatever
\* sizes came before and wherever the ring was wrapped, and the message it read
\* last is the one before; unless the writer has overtaken it, or a message
\* came that ran into its own size.
InStep == /\ TypeOK
          /\ \A c \in Consumers : cpc[c] # "none" /\ ~overtaken[c] =>
               /\ cpc[c] # "lost"
               /\ got[c] = due[c] - 1
               /\ m_local_read_position[c] =
                    StartOf(due[c] + IF cpc[c] = "message" THEN 1 ELSE 0)
=============================================================================
