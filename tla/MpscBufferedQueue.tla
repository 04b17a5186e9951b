------------------------- MODULE MpscBufferedQueue --------------------------
(***************************************************************************)
(* mpsc_queue with alloc_policy::buffered: the consumer keeps the nodes it *)
(* has passed, and they stay linked from m_buffer_head to m_tail.  A       *)
(* producer takes the first of them with a compare-and-swap, or a new one  *)
(* if m_tail is the first.  The rest of the queue is that of MpscQueue.    *)
(***************************************************************************)
EXTENDS MpscQueue, SequencesExt

VARIABLES m_buffer_head,
          item, next_node,  \* of each producer: in_value, and the next it has read
          cached,           \* ghost: the nodes before m_tail, in their order
          overtaken,        \* ghost: producers that others have overtaken since their check
          stale             \* ghost: one of these has succeeded with its compare-and-swap
bufferVars == <<m_buffer_head, item, next_node, cached, overtaken, stale>>
bufVars == <<queueVars, bufferVars>>

BufInit == /\ Init /\ m_buffer_head = m_tail
           /\ item = [p \in Producers |-> None] /\ next_node = [p \in Producers |-> Null]
           /\ cached = << >> /\ overtaken = {} /\ stale = FALSE

-----------------------------------------------------------------------------
(* alloc_node *)

EnqueueBuffered(p, v) ==
  /\ pc[p] = "idle" /\ cpc \notin {"destroy", "destroyed"}
  /\ new_node' = [new_node EXCEPT ![p] = m_buffer_head] /\ item' = [item EXCEPT ![p] = v]
  /\ pc' = [pc EXCEPT ![p] = "check"]
  /\ UNCHANGED <<m_head, m_tail, next, value, allocated, old_head, consumerVars, chain,
                 m_buffer_head, next_node, cached, overtaken, stale>>

IsCached_Always(n) == n # Null
IsCached(n) == n # m_tail

Check(p) == /\ pc[p] = "check" /\ IsCached(new_node[p])
            /\ pc' = [pc EXCEPT ![p] = "next"]
            /\ UNCHANGED <<m_head, m_tail, next, value, allocated, new_node, old_head, consumerVars,
                           chain, bufferVars>>

\* The argument of the compare-and-swap.
ReadNext(p) == /\ pc[p] = "next" /\ pc' = [pc EXCEPT ![p] = "cas"]
               /\ next_node' = [next_node EXCEPT ![p] = next[new_node[p]]]
               /\ UNCHANGED <<m_head, m_tail, next, value, allocated, new_node, old_head, consumerVars,
                              chain, m_buffer_head, item, cached, overtaken, stale>>

\* Nothing is cached: a new node.
AllocNew(p) == /\ pc[p] = "check" /\ ~IsCached(new_node[p])
               /\ \E n \in Nodes \ allocated :
                    /\ allocated' = allocated \cup {n}
                    /\ next' = [next EXCEPT ![n] = Null]
                    /\ value' = [value EXCEPT ![n] = item[p]]
                    /\ new_node' = [new_node EXCEPT ![p] = n]
               /\ item' = [item EXCEPT ![p] = None]
               /\ pc' = [pc EXCEPT ![p] = "exchange"]
               /\ UNCHANGED <<m_head, m_tail, old_head, consumerVars, chain,
                              m_buffer_head, next_node, cached, overtaken, stale>>

\* The node is taken and filled, which nobody else sees.
CasTakes(p) ==
  /\ pc[p] = "cas" /\ m_buffer_head = new_node[p]
  /\ m_buffer_head' = next_node[p]
  /\ value' = [value EXCEPT ![new_node[p]] = item[p]]
  /\ next' = [next EXCEPT ![new_node[p]] = Null]
  /\ pc' = [pc EXCEPT ![p] = "exchange"]
  /\ item' = [item EXCEPT ![p] = None] /\ next_node' = [next_node EXCEPT ![p] = Null]
  /\ cached' = IF cached = << >> THEN cached ELSE Tail(cached)
  /\ stale' = (p \in overtaken)
  /\ overtaken' = (overtaken \cup {q \in Producers : pc[q] \in {"next", "cas"}}) \ {p}
  /\ UNCHANGED <<m_head, m_tail, allocated, new_node, old_head, consumerVars, chain>>

\* The compare-and-swap puts what it found into new_node, and the loop begins
\* again.
CasFails(p) == /\ pc[p] = "cas" /\ m_buffer_head # new_node[p]
               /\ new_node' = [new_node EXCEPT ![p] = m_buffer_head]
               /\ next_node' = [next_node EXCEPT ![p] = Null]
               /\ pc' = [pc EXCEPT ![p] = "check"]
               /\ overtaken' = overtaken \ {p}
               /\ UNCHANGED <<m_head, m_tail, next, value, allocated, old_head, consumerVars,
                              chain, m_buffer_head, item, cached, stale>>

-----------------------------------------------------------------------------
(* try_dequeue: the old tail is not deleted *)

TakeKept == /\ Take /\ cached' = Append(cached, m_tail)
            /\ UNCHANGED <<m_buffer_head, item, next_node, overtaken, stale>>

Keep == cpc = "delete" /\ ReturnTrue /\ UNCHANGED <<next, allocated, bufferVars>>

-----------------------------------------------------------------------------
BufNext ==
  \* After a stale compare-and-swap m_buffer_head can be any node or none, and
  \* the list is not followed any further.
  /\ ~stale
  /\ \/ \E p \in Producers : \/ \E v \in Values : EnqueueBuffered(p, v)
                             \/ Check(p) \/ ReadNext(p) \/ AllocNew(p) \/ CasTakes(p) \/ CasFails(p)
                             \/ ProducerStep(p) /\ UNCHANGED bufferVars
     \/ TakeKept \/ Keep
     \/ (TryDequeue \/ ReturnFalse \/ Destroy \/ DestroyNode) /\ UNCHANGED bufferVars

-----------------------------------------------------------------------------
\* The nodes from m_buffer_head to m_tail are linked, and every allocated node
\* is in that part, in the queue or in the hand of one producer.
CacheOwned ==
  /\ ChainLinked
  /\ LET all == cached \o chain
         hands == {p \in Producers : pc[p] = "exchange"} IN
     /\ cpc \notin {"destroy", "destroyed"} =>
          m_buffer_head = all[1] /\ \A i \in 1..Len(cached) : next[cached[i]] = all[i + 1]
     /\ \A i, j \in 1..Len(all) : all[i] = all[j] => i = j
     /\ \A p, q \in hands : new_node[p] \notin ToSet(all) /\ (new_node[p] = new_node[q] => p = q)
     /\ allocated = ToSet(all) \cup {new_node[p] : p \in hands}

\* Until a producer succeeds with a compare-and-swap that others have overtaken
\* (the head of the cache has come back to the same node), no node is in use
\* twice and none is lost; the destructor leaves the cached ones behind.
OwnedUntilStale == ~stale => CacheOwned

\* And the queue is a FIFO.
FifoUntilStale == F!Init /\ [][F!Next \/ stale' \/ cpc' \in {"destroy", "destroyed"}]_(F!vars)
=============================================================================
