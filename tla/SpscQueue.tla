------------------------------ MODULE SpscQueue ------------------------------
(***************************************************************************)
(* spsc_queue: one list from m_first to m_head.  Up to m_tail it holds     *)
(* nodes the consumer is done with, which the producer takes again before  *)
(* it asks for memory; after m_tail it holds the items.  The producer      *)
(* learns how far the consumer is only when its copy of m_tail is used up. *)
(* lc and sr are one load and one store.                                   *)
(***************************************************************************)
EXTENDS Naturals, Sequences, FiniteSets

CONSTANTS Values, None,
          Nodes, Null,       \* addresses; nullptr
          MaxPreAlloc        \* bound on the constructor's argument

VARIABLES m_tail, m_head, m_first, m_tail_copy, next, value,
          allocated,         \* nodes between new and delete
          pc, n,             \* of the producer: its step and its node
          cpc, out,          \* of the consumer: its step and v
          chain              \* ghost: the list from m_first to m_head
vars  == <<m_tail, m_head, m_first, m_tail_copy, next, value, allocated, pc, n, cpc, out, chain>>
cache == <<m_first, m_tail_copy, chain>>
consumerVars == <<m_tail, cpc, out>>

\* The constructor enqueues and dequeues pre_alloc items, which leaves their
\* nodes before m_tail.  Addresses are alike, so any will do.
Init == \E pre_alloc \in 0..MaxPreAlloc :
  LET c == CHOOSE s \in [1..pre_alloc+1 -> Nodes] :
             \A i, j \in 1..pre_alloc+1 : s[i] = s[j] => i = j
  IN
  /\ chain = c /\ allocated = {c[i] : i \in 1..pre_alloc+1}
  /\ next = [x \in Nodes |-> IF \E i \in 1..pre_alloc : c[i] = x
                               THEN c[1 + CHOOSE i \in 1..pre_alloc : c[i] = x] ELSE Null]
  /\ value = [x \in Nodes |-> None]
  /\ m_first = c[1] /\ m_tail_copy = c[1] /\ m_tail = c[pre_alloc+1] /\ m_head = c[pre_alloc+1]
  /\ pc = "idle" /\ n = Null /\ cpc = "idle" /\ out = None

-----------------------------------------------------------------------------
(* enqueue *)

\* alloc_node takes m_first from the cache unless the copy of m_tail, renewed
\* if need be, says that the cache is empty.
TailCopy_Head == m_head
TailCopy == IF m_first # m_tail_copy THEN m_tail_copy ELSE m_tail

create_from_internal == /\ m_first # TailCopy
                        /\ n' = m_first /\ m_first' = next[m_first]
                        /\ chain' = Tail(chain)
                        /\ UNCHANGED allocated

create_new == /\ m_first = TailCopy
              /\ \E x \in Nodes \ allocated : n' = x /\ allocated' = allocated \cup {x}
              /\ UNCHANGED <<m_first, chain>>

Enqueue(v) == /\ pc = "idle" /\ cpc # "destroyed" /\ cpc # "destroy"
              /\ create_from_internal \/ create_new
              /\ m_tail_copy' = TailCopy
              /\ value' = [value EXCEPT ![n'] = v]
              /\ next' = [next EXCEPT ![n'] = Null]
              /\ pc' = "link"
              /\ UNCHANGED <<m_head, consumerVars>>

Link == /\ pc = "link"
        /\ next' = [next EXCEPT ![m_head] = n]
        /\ m_head' = n /\ chain' = Append(chain, n)
        /\ pc' = "idle" /\ n' = Null
        /\ UNCHANGED <<m_first, m_tail_copy, value, allocated, consumerVars>>

-----------------------------------------------------------------------------
(* try_dequeue *)

TryDequeue == /\ cpc = "idle" /\ next[m_tail] # Null
              /\ cpc' = "read"
              /\ UNCHANGED <<m_tail, m_head, cache, next, value, allocated, pc, n, out>>

Read_AtTail == /\ cpc = "read" /\ cpc' = "advance"
               /\ out' = value[m_tail]
               /\ UNCHANGED <<m_tail, m_head, cache, next, value, allocated, pc, n>>
Read == /\ cpc = "read" /\ cpc' = "advance"
        /\ out' = value[next[m_tail]]
        /\ UNCHANGED <<m_tail, m_head, cache, next, value, allocated, pc, n>>

Advance == /\ cpc = "advance" /\ cpc' = "idle"
           /\ m_tail' = next[m_tail]
           /\ out' = None
           /\ UNCHANGED <<m_head, cache, next, value, allocated, pc, n>>

-----------------------------------------------------------------------------
(* ~spsc_queue: runs when no call is in progress and deletes from m_first on *)

Destroy == /\ cpc = "idle" /\ pc = "idle" /\ cpc' = "destroy"
           /\ UNCHANGED <<m_tail, m_head, cache, next, value, allocated, pc, n, out>>

DestroyNode == /\ cpc = "destroy"
               /\ allocated' = allocated \ {m_first}
               /\ m_first' = next[m_first] /\ chain' = Tail(chain)
               /\ cpc' = IF m_first' = Null THEN "destroyed" ELSE "destroy"
               /\ UNCHANGED <<m_tail, m_head, m_tail_copy, next, value, pc, n, out>>

Next == \/ Link \/ TryDequeue \/ Read \/ Advance \/ Destroy \/ DestroyNode
        \/ \E v \in Values : Enqueue(v)
Spec == Init /\ [][Next]_vars

-----------------------------------------------------------------------------
TypeOK == /\ {m_tail, m_head, m_tail_copy} \subseteq Nodes
          /\ {m_first, n} \subseteq Nodes \cup {Null}
          /\ next \in [Nodes -> Nodes \cup {Null}]
          /\ value \in [Nodes -> Values \cup {None}]
          /\ allocated \in SUBSET Nodes
          /\ pc \in {"idle", "link"} /\ out \in Values \cup {None}
          /\ cpc \in {"idle", "read", "advance", "destroy", "destroyed"}

ChainNodes == {chain[i] : i \in 1..Len(chain)}
At(x) == CHOOSE i \in 1..Len(chain) : chain[i] = x

\* The list is linked in the order of the ghost, and the producer's pointers
\* follow the consumer's: first, then the copy of the tail, then the tail.
Ordered == cpc \notin {"destroy", "destroyed"} =>
  /\ {m_first, m_tail_copy, m_tail, m_head} \subseteq ChainNodes
  /\ Cardinality(ChainNodes) = Len(chain)
  /\ \A i \in 1..Len(chain) : next[chain[i]] = IF i = Len(chain) THEN Null ELSE chain[i + 1]
  /\ At(m_first) = 1 /\ At(m_head) = Len(chain)
  /\ At(m_tail_copy) <= At(m_tail)
  /\ cpc \in {"read", "advance"} => At(m_tail) < Len(chain)

\* The node the producer fills is not one the consumer is at or comes to, and
\* every node is in the list or in the producer's hand, until the destructor
\* has found them all: no race on a node, and none lost or deleted too early.
NodesOwned == /\ TypeOK /\ Ordered
              /\ allocated = ChainNodes \cup (IF pc = "link" THEN {n} ELSE {})
              /\ pc = "link" => n \notin ChainNodes

F == INSTANCE Fifo WITH
       Threads <- {"consumer"}, Capacity <- Cardinality(Nodes),
       queue   <- LET first == At(m_tail) + IF cpc = "advance" THEN 1 ELSE 0
                  IN  [i \in 1..(Len(chain) - first) |-> value[chain[first + i]]],
       taken   <- [t \in {"consumer"} |-> IF cpc = "advance" THEN out ELSE None]

\* With nodes taken again and again, the queue is a FIFO; the destructor ends it.
ImplementsFifo == F!Init /\ [][cpc' \in {"destroy", "destroyed"} \/ F!Next]_(F!vars)
=============================================================================
