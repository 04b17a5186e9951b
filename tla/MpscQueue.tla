----------------------------- MODULE MpscQueue ------------------------------
(***************************************************************************)
(* mpsc_queue with alloc_policy::new_only: a linked list whose m_tail      *)
(* points at a dummy node and whose m_head points at the last node.  A     *)
(* producer exchanges its node into m_head and links it afterwards, so the *)
(* list has a gap while it is in between.  One consumer follows next,      *)
(* moves the value out and deletes the old dummy.  Nodes are memory cells  *)
(* that new takes and delete gives back, so an address can come again.     *)
(***************************************************************************)
EXTENDS Naturals, Sequences, FiniteSets

CONSTANTS Producers, Values, None,
          Nodes,     \* the addresses a node can have: bounds the list
          Null       \* nullptr

ASSUME NodesAssumption == Null \notin Nodes /\ None \notin Values /\ IsFiniteSet(Nodes)

VARIABLES m_head, m_tail, next, value,
          allocated,                    \* nodes between new and delete
          pc, new_node, old_head,       \* of each producer
          cpc, popped, old_tail, out,   \* of the consumer
          chain                         \* ghost: the nodes from m_tail to m_head in
                                        \* the order of the exchanges
producerVars == <<pc, new_node, old_head>>
consumerVars == <<cpc, popped, old_tail, out>>
queueVars == <<m_head, m_tail, next, value, allocated, pc, new_node, old_head,
               cpc, popped, old_tail, out, chain>>

Init == \E dummy \in Nodes :
  /\ m_head = dummy /\ m_tail = dummy /\ chain = <<dummy>>
  /\ allocated = {dummy}
  /\ next = [n \in Nodes |-> Null]
  /\ value = [n \in Nodes |-> None]
  /\ pc = [p \in Producers |-> "idle"]
  /\ new_node = [p \in Producers |-> Null]
  /\ old_head = [p \in Producers |-> Null]
  /\ cpc = "idle" /\ popped = Null /\ old_tail = Null /\ out = None

-----------------------------------------------------------------------------
(* enqueue *)

Enqueue(p, v) == /\ pc[p] = "idle" /\ cpc \notin {"destroy", "destroyed"}
                 /\ \E n \in Nodes \ allocated :
                      /\ allocated' = allocated \cup {n}
                      /\ next' = [next EXCEPT ![n] = Null]
                      /\ value' = [value EXCEPT ![n] = v]
                      /\ new_node' = [new_node EXCEPT ![p] = n]
                 /\ pc' = [pc EXCEPT ![p] = "exchange"]
                 /\ UNCHANGED <<m_head, m_tail, old_head, consumerVars, chain>>

Exchange(p) == /\ pc[p] = "exchange"
               /\ old_head' = [old_head EXCEPT ![p] = m_head]
               /\ m_head' = new_node[p]
               /\ chain' = Append(chain, new_node[p])
               /\ pc' = [pc EXCEPT ![p] = "link"]
               /\ UNCHANGED <<m_tail, next, value, allocated, new_node, consumerVars>>

\* The call returns: its locals are gone.
EnqueueReturns(p) == /\ pc' = [pc EXCEPT ![p] = "idle"]
                     /\ new_node' = [new_node EXCEPT ![p] = Null]
                     /\ old_head' = [old_head EXCEPT ![p] = Null]
                     /\ UNCHANGED <<m_head, m_tail, value, allocated, consumerVars, chain>>

Link_Backwards(p) == /\ pc[p] = "link"
                     /\ next' = [next EXCEPT ![new_node[p]] = old_head[p]]
                     /\ EnqueueReturns(p)

Link(p) == /\ pc[p] = "link"
           /\ next' = [next EXCEPT ![old_head[p]] = new_node[p]]
           /\ EnqueueReturns(p)

-----------------------------------------------------------------------------
(* try_dequeue *)

TryDequeue == /\ cpc = "idle"
              /\ popped' = next[m_tail]
              /\ cpc' = IF next[m_tail] = Null THEN "empty" ELSE "take"
              /\ UNCHANGED <<m_head, m_tail, next, value, allocated, producerVars,
                             old_tail, out, chain>>

ReturnFalse == /\ cpc = "empty" /\ cpc' = "idle"
               /\ UNCHANGED <<m_head, m_tail, next, value, allocated, producerVars,
                              popped, old_tail, out, chain>>

Take_FromDummy == /\ cpc = "take"
                  /\ out' = value[m_tail]
                  /\ old_tail' = m_tail
                  /\ m_tail' = popped
                  /\ value' = [value EXCEPT ![popped] = None]
                  /\ chain' = Tail(chain)
                  /\ cpc' = "delete"
                  /\ UNCHANGED <<m_head, next, allocated, producerVars, popped>>

Take == /\ cpc = "take"
        /\ out' = value[popped]
        /\ old_tail' = m_tail
        /\ m_tail' = popped
        /\ value' = [value EXCEPT ![popped] = None]
        /\ chain' = Tail(chain)
        /\ cpc' = "delete"
        /\ UNCHANGED <<m_head, next, allocated, producerVars, popped>>

\* The call returns v; what a deleted node held is gone with it.
ReturnTrue == /\ cpc' = "idle" /\ popped' = Null /\ old_tail' = Null /\ out' = None
              /\ UNCHANGED <<m_head, m_tail, value, producerVars, chain>>

Delete_NewTail == /\ cpc = "delete"
                  /\ allocated' = allocated \ {m_tail}
                  /\ next' = [next EXCEPT ![m_tail] = Null]
                  /\ ReturnTrue

Delete == /\ cpc = "delete"
          /\ allocated' = allocated \ {old_tail}
          /\ next' = [next EXCEPT ![old_tail] = Null]
          /\ ReturnTrue

-----------------------------------------------------------------------------
(* ~mpsc_queue: runs when no call is in progress *)

Destroy == /\ cpc = "idle" /\ \A p \in Producers : pc[p] = "idle"
           /\ cpc' = "destroy"
           /\ UNCHANGED <<m_head, m_tail, next, value, allocated, producerVars,
                          popped, old_tail, out, chain>>

DestroyNode == /\ cpc = "destroy"
               /\ m_tail' = next[m_tail]
               /\ allocated' = allocated \ {m_tail}
               /\ chain' = Tail(chain)
               /\ cpc' = IF m_tail' = Null THEN "destroyed" ELSE "destroy"
               /\ UNCHANGED <<m_head, next, value, producerVars, popped, old_tail, out>>

-----------------------------------------------------------------------------
ProducerStep(p) == Exchange(p) \/ Link(p)
ConsumerStep == ReturnFalse \/ Take \/ Delete \/ DestroyNode
Next == \/ \E p \in Producers : ProducerStep(p) \/ \E v \in Values : Enqueue(p, v)
        \/ ConsumerStep \/ TryDequeue \/ Destroy
Spec == Init /\ [][Next]_queueVars

-----------------------------------------------------------------------------
TypeOK == /\ m_head \in Nodes /\ m_tail \in Nodes \cup {Null}
          /\ next \in [Nodes -> Nodes \cup {Null}]
          /\ value \in [Nodes -> Values \cup {None}]
          /\ allocated \in SUBSET Nodes
          /\ pc \in [Producers -> {"idle", "exchange", "link"}]
          /\ new_node \in [Producers -> Nodes \cup {Null}]
          /\ old_head \in [Producers -> Nodes \cup {Null}]
          /\ cpc \in {"idle", "empty", "take", "delete", "destroy", "destroyed"}
          /\ popped \in Nodes \cup {Null} /\ old_tail \in Nodes \cup {Null}
          /\ out \in Values \cup {None}
          /\ chain \in Seq(Nodes)

ChainNodes == {chain[i] : i \in 1..Len(chain)}
Linking(p) == pc[p] = "link"

\* The list is exactly the exchanges made so far, in their order: two
\* neighbours are linked, or one producer is about to link them.
ChainLinked ==
  /\ cpc # "destroyed" => chain # << >> /\ chain[1] = m_tail /\ chain[Len(chain)] = m_head
  /\ \A i \in 1..Len(chain) : \A j \in 1..Len(chain) : chain[i] = chain[j] => i = j
  /\ chain # << >> => next[chain[Len(chain)]] = Null
  /\ \A i \in 1..(Len(chain) - 1) :
       \/ next[chain[i]] = chain[i + 1] /\ \A p \in Producers : Linking(p) => old_head[p] # chain[i]
       \/ next[chain[i]] = Null /\ \E p \in Producers :
            Linking(p) /\ old_head[p] = chain[i] /\ new_node[p] = chain[i + 1]

\* Every allocated node has one owner, and nobody is about to touch a node
\* that has been deleted: the producers' old_head, m_tail and popped are all
\* in the list.
NodesOwned ==
  /\ allocated = ChainNodes \cup {new_node[p] : p \in {q \in Producers : pc[q] = "exchange"}}
                            \cup (IF cpc = "delete" THEN {old_tail} ELSE {})
  /\ \A p \in Producers : pc[p] = "exchange" =>
       /\ new_node[p] \notin ChainNodes /\ next[new_node[p]] = Null
       /\ \A q \in Producers : pc[q] = "exchange" /\ new_node[q] = new_node[p] => p = q
  /\ \A p \in Producers : Linking(p) =>
       \E i \in 1..(Len(chain) - 1) : old_head[p] = chain[i] /\ new_node[p] = chain[i + 1]
  /\ cpc = "take" => Len(chain) > 1 /\ popped = chain[2] /\ next[m_tail] = popped
  /\ cpc = "delete" => old_tail \notin ChainNodes /\ \A p \in Producers :
                         pc[p] = "exchange" => new_node[p] # old_tail
  /\ cpc \in {"destroy", "destroyed"} => \A p \in Producers : pc[p] = "idle"
  /\ cpc = "destroyed" => chain = << >>

\* No step reads or writes a node after its delete, and after the destructor
\* none is left.
NoUseAfterFree == TypeOK /\ ChainLinked /\ NodesOwned

JustEmpty == cpc # "empty" /\ cpc' = "empty" =>
  Len(chain) = 1 \/ \E p \in Producers : Linking(p) /\ old_head[p] = m_tail

\* try_dequeue returns false only if the queue is empty or the producer next
\* in line has exchanged and not yet linked; in that case it hides the
\* completed enqueues behind it too.
EmptyJustified == [][JustEmpty]_queueVars

F == INSTANCE Fifo WITH
       Threads  <- {"consumer"},
       Capacity <- Cardinality(Nodes),
       queue    <- [i \in 1..(Len(chain) - 1) |-> value[chain[i + 1]]],
       taken    <- [t \in {"consumer"} |-> IF cpc = "delete" THEN out ELSE None]

\* The queue is a FIFO in the order of the exchanges; the destructor is the
\* end of it.
ImplementsFifo == F!Init /\ [][F!Next \/ cpc' \in {"destroy", "destroyed"}]_(F!vars)
=============================================================================
