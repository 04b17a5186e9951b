------------------------- MODULE AsyncWorkerProofs --------------------------
(***************************************************************************)
(* Proofs about mpsc_queue and about async_worker, which uses it, for      *)
(* every set of producers, of values and of addresses of nodes.            *)
(***************************************************************************)
EXTENDS AsyncWorker, FiniteSetTheorems, SequenceTheorems, TLAPS

\* The values in the queue, oldest first.
Content == [i \in 1..(Len(chain) - 1) |-> value[chain[i + 1]]]

-----------------------------------------------------------------------------
(* The inductive invariants *)

\* One producer at a time is about to link a node.
LinkersApart == \A p, q \in Producers : Linking(p) /\ Linking(q) /\ old_head[p] = old_head[q] => p = q

\* A node has a value from its allocation to the moment its value is taken.
ValuesPresent == /\ \A i \in 2..Len(chain) : value[chain[i]] \in Values
                 /\ \A p \in Producers : pc[p] = "exchange" => value[new_node[p]] \in Values
                 /\ cpc = "delete" => out \in Values

QueueInv == NoUseAfterFree /\ LinkersApart /\ ValuesPresent

\* Where try_dequeue is tells where run is; a worker that was joined has ended,
\* and its queue is destroyed after that only.
WorkerInv == /\ cpc \in {"empty", "take", "delete"} => wpc = "drain"
             /\ wpc = "payload" => queued \in Values
             /\ spc = "stopped" => wpc = "done"
             /\ cpc \in {"destroy", "destroyed"} => spc = "stopped"

WInv == QueueInv /\ WorkerInv /\ ExecutedInOrder

-----------------------------------------------------------------------------
(* The list *)

\* A node is appended to the list.
LEMMA ChainAppended ==
  ASSUME TypeOK, NEW n \in Nodes, chain' = Append(chain, n)
  PROVE  /\ chain' \in Seq(Nodes) /\ Len(chain) \in Nat /\ Len(chain') = Len(chain) + 1 /\ chain' # << >>
         /\ \A i \in 1..Len(chain) : chain'[i] = chain[i]
         /\ chain'[Len(chain) + 1] = n
         /\ \A i \in 1..Len(chain') : i \in 1..Len(chain) \/ i = Len(chain) + 1
         /\ ChainNodes' = ChainNodes \cup {n}
<1>1. /\ chain' \in Seq(Nodes) /\ Len(chain) \in Nat /\ Len(chain') = Len(chain) + 1 /\ chain' # << >>
      /\ \A i \in 1..Len(chain) : chain'[i] = chain[i]
      /\ chain'[Len(chain) + 1] = n
  BY DEF TypeOK
<1>2. \A i \in 1..Len(chain') : i \in 1..Len(chain) \/ i = Len(chain) + 1
  BY <1>1
<1>3. Len(chain) + 1 \in 1..Len(chain') /\ \A i \in 1..Len(chain) : i \in 1..Len(chain')
  BY <1>1
<1>4. ChainNodes' = ChainNodes \cup {n}
  BY <1>1, <1>2, <1>3 DEF ChainNodes
<1>. QED  BY <1>1, <1>2, <1>4

\* The first node is taken from the list.
LEMMA ChainShortened ==
  ASSUME TypeOK, ChainLinked, chain # << >>, chain' = Tail(chain)
  PROVE  /\ chain' \in Seq(Nodes) /\ Len(chain) \in Nat \ {0} /\ Len(chain') = Len(chain) - 1
         /\ \A i \in 1..Len(chain') : i + 1 \in 1..Len(chain) /\ chain'[i] = chain[i + 1]
         /\ \A i \in 1..Len(chain) : i # 1 => i - 1 \in 1..Len(chain') /\ chain[i] = chain'[i - 1]
         /\ ChainNodes' = ChainNodes \ {chain[1]} /\ chain[1] \in ChainNodes
<1>1. /\ chain' \in Seq(Nodes) /\ Len(chain) \in Nat \ {0} /\ Len(chain') = Len(chain) - 1
      /\ \A i \in 1..(Len(chain) - 1) : chain'[i] = chain[i + 1]
  BY DEF TypeOK
<1>2. \A i \in 1..Len(chain') : i + 1 \in 1..Len(chain) /\ i + 1 # 1 /\ chain'[i] = chain[i + 1]
  BY <1>1
<1>3. \A i \in 1..Len(chain) : i # 1 => i - 1 \in 1..Len(chain') /\ chain[i] = chain'[i - 1]
  BY <1>1
<1>4. 1 \in 1..Len(chain)
  BY <1>1
<1>5. ChainNodes' = ChainNodes \ {chain[1]}
  <2>1. ASSUME NEW i \in 1..Len(chain') PROVE chain'[i] \in ChainNodes \ {chain[1]}
    BY <1>2, <1>4 DEF ChainNodes, ChainLinked
  <2>2. ASSUME NEW i \in 1..Len(chain), chain[i] # chain[1] PROVE chain[i] \in ChainNodes'
    BY <1>3, <2>2 DEF ChainNodes
  <2>. QED  BY <2>1, <2>2 DEF ChainNodes
<1>. QED  BY <1>1, <1>2, <1>3, <1>4, <1>5 DEF ChainNodes

\* What the list is while the queue is in use.
LEMMA ChainShape ==
  ASSUME QueueInv, cpc # "destroyed"
  PROVE  /\ chain # << >> /\ Len(chain) \in Nat \ {0} /\ chain \in Seq(Nodes)
         /\ \A i \in 1..Len(chain) : chain[i] \in Nodes /\ chain[i] \in ChainNodes
         /\ m_tail = chain[1] /\ m_head = chain[Len(chain)]
         /\ 1 \in 1..Len(chain) /\ Len(chain) \in 1..Len(chain)
<1>1. chain # << >> /\ chain \in Seq(Nodes) /\ m_tail = chain[1] /\ m_head = chain[Len(chain)]
  BY DEF QueueInv, NoUseAfterFree, ChainLinked, TypeOK
<1>2. Len(chain) \in Nat \ {0}
  BY <1>1
<1>. QED  BY <1>1, <1>2 DEF ChainNodes

LEMMA QueueInit == Init => QueueInv
<1>. SUFFICES ASSUME NEW dummy \in Nodes,
                     /\ m_head = dummy /\ m_tail = dummy /\ chain = <<dummy>>
                     /\ allocated = {dummy}
                     /\ next = [n \in Nodes |-> Null]
                     /\ value = [n \in Nodes |-> None]
                     /\ pc = [p \in Producers |-> "idle"]
                     /\ new_node = [p \in Producers |-> Null]
                     /\ old_head = [p \in Producers |-> Null]
                     /\ cpc = "idle" /\ popped = Null /\ old_tail = Null /\ out = None
              PROVE  QueueInv
  BY DEF Init
<1>1. chain \in Seq(Nodes) /\ Len(chain) = 1 /\ chain[1] = dummy /\ chain # << >>
  OBVIOUS
<1>2. TypeOK
  BY <1>1 DEF TypeOK
<1>3. ChainNodes = {dummy}
  BY <1>1 DEF ChainNodes
<1>4. ChainLinked
  BY <1>1 DEF ChainLinked
<1>5. NodesOwned
  BY <1>3 DEF NodesOwned, Linking
<1>6. LinkersApart /\ ValuesPresent
  BY <1>1 DEF LinkersApart, ValuesPresent, Linking
<1>. QED  BY <1>2, <1>4, <1>5, <1>6 DEF QueueInv, NoUseAfterFree

-----------------------------------------------------------------------------
(* The steps of the queue keep its invariant *)

LEMMA EnqueueKeeps ==
  ASSUME QueueInv, NEW p \in Producers, NEW v \in Values, Enqueue(p, v)
  PROVE  QueueInv'
<1>. USE DEF QueueInv, NoUseAfterFree
<1>1. PICK n \in Nodes \ allocated :
        /\ allocated' = allocated \cup {n} /\ next' = [next EXCEPT ![n] = Null]
        /\ value' = [value EXCEPT ![n] = v] /\ new_node' = [new_node EXCEPT ![p] = n]
  BY DEF Enqueue
<1>2. /\ pc[p] = "idle" /\ cpc \notin {"destroy", "destroyed"} /\ pc' = [pc EXCEPT ![p] = "exchange"]
      /\ UNCHANGED <<m_head, m_tail, old_head, cpc, popped, old_tail, out, chain>>
  BY DEF Enqueue, consumerVars
<1>3. /\ next'[n] = Null /\ \A m \in Nodes \ {n} : next'[m] = next[m]
      /\ value'[n] = v /\ \A m \in Nodes \ {n} : value'[m] = value[m]
      /\ new_node'[p] = n /\ \A q \in Producers \ {p} : new_node'[q] = new_node[q]
      /\ pc'[p] = "exchange" /\ \A q \in Producers \ {p} : pc'[q] = pc[q]
  BY <1>1, <1>2 DEF TypeOK
<1>4. /\ n \notin ChainNodes /\ (cpc = "delete" => n # old_tail)
      /\ \A q \in Producers : pc[q] = "exchange" => new_node[q] # n
  BY <1>1 DEF NodesOwned
<1>5. TypeOK'
  BY <1>1, <1>2 DEF TypeOK
<1>6. /\ \A i \in 1..Len(chain) : chain[i] \in Nodes \ {n} /\ next'[chain[i]] = next[chain[i]] /\ value'[chain[i]] = value[chain[i]]
      /\ m_tail = chain[1] /\ 1 \in 1..Len(chain) /\ Len(chain) \in 1..Len(chain) /\ Len(chain) \in Nat
      /\ ChainNodes' = ChainNodes
  BY <1>2, <1>3, <1>4, ChainShape DEF ChainNodes
<1>7. \A q \in Producers : Linking(q)' <=> Linking(q) /\ q # p
  BY <1>2, <1>3 DEF Linking
<1>8. ChainLinked'
  <2>1. ASSUME NEW i \in 1..(Len(chain) - 1)
        PROVE  \/ next'[chain[i]] = chain[i + 1] /\ \A q \in Producers : Linking(q)' => old_head[q] # chain[i]
               \/ next'[chain[i]] = Null /\ \E q \in Producers :
                    Linking(q)' /\ old_head[q] = chain[i] /\ new_node'[q] = chain[i + 1]
    <3>1. i \in 1..Len(chain)
      BY <1>6
    <3>2. \A q \in Producers : Linking(q) => q # p
      BY <1>2 DEF Linking
    <3>. QED  BY <1>3, <1>6, <1>7, <3>1, <3>2 DEF ChainLinked
  <2>. QED  BY <1>2, <1>6, <2>1 DEF ChainLinked
<1>9. NodesOwned'
  <2>1. allocated' = ChainNodes \cup {new_node'[q] : q \in {r \in Producers : pc'[r] = "exchange"}}
                                \cup (IF cpc = "delete" THEN {old_tail} ELSE {})
    BY <1>1, <1>2, <1>3 DEF NodesOwned
  <2>2. \A q \in Producers : pc'[q] = "exchange" =>
          /\ new_node'[q] \notin ChainNodes /\ next'[new_node'[q]] = Null
          /\ \A r \in Producers : pc'[r] = "exchange" /\ new_node'[r] = new_node'[q] => q = r
    <3>1. \A q \in Producers : pc[q] = "exchange" => new_node[q] \in Nodes
      BY DEF NodesOwned, TypeOK
    <3>. QED  BY <1>3, <1>4, <3>1 DEF NodesOwned
  <2>3. \A q \in Producers : Linking(q)' =>
          \E i \in 1..(Len(chain) - 1) : old_head[q] = chain[i] /\ new_node'[q] = chain[i + 1]
    BY <1>3, <1>7 DEF NodesOwned
  <2>4. cpc = "take" => Len(chain) > 1 /\ popped = chain[2] /\ next'[m_tail] = popped
    BY <1>6 DEF NodesOwned
  <2>5. cpc = "delete" => old_tail \notin ChainNodes /\ \A q \in Producers :
                            pc'[q] = "exchange" => new_node'[q] # old_tail
    BY <1>3, <1>4 DEF NodesOwned
  <2>. QED  BY <1>2, <1>6, <2>1, <2>2, <2>3, <2>4, <2>5 DEF NodesOwned
<1>10. LinkersApart'
  BY <1>2, <1>7 DEF LinkersApart
<1>11. ValuesPresent'
  <2>1. \A i \in 2..Len(chain) : i \in 1..Len(chain)
    BY <1>6
  <2>2. \A q \in Producers : pc[q] = "exchange" => new_node[q] \in Nodes \ {n}
    BY <1>4 DEF NodesOwned, TypeOK
  <2>. QED  BY <1>2, <1>3, <1>6, <2>1, <2>2 DEF ValuesPresent
<1>. QED  BY <1>5, <1>8, <1>9, <1>10, <1>11

LEMMA ExchangeKeeps ==
  ASSUME QueueInv, NEW p \in Producers, Exchange(p)
  PROVE  QueueInv'
<1>. USE DEF QueueInv, NoUseAfterFree
<1>1. PICK n \in Nodes : n = new_node[p] /\ n \notin ChainNodes /\ next[n] = Null
  <2>1. new_node[p] \in allocated /\ new_node[p] \notin ChainNodes /\ next[new_node[p]] = Null
    BY DEF Exchange, NodesOwned
  <2>. QED  BY <2>1 DEF TypeOK
<1>2. /\ pc[p] = "exchange" /\ old_head' = [old_head EXCEPT ![p] = m_head] /\ m_head' = n
      /\ chain' = Append(chain, n) /\ pc' = [pc EXCEPT ![p] = "link"]
      /\ UNCHANGED <<m_tail, next, value, allocated, new_node, cpc, popped, old_tail, out>>
  BY <1>1 DEF Exchange, consumerVars
<1>3. cpc \notin {"destroy", "destroyed"}
  BY <1>2 DEF NodesOwned
<1>4. /\ chain' \in Seq(Nodes) /\ Len(chain) \in Nat /\ Len(chain') = Len(chain) + 1 /\ chain' # << >>
      /\ \A i \in 1..Len(chain) : chain'[i] = chain[i]
      /\ chain'[Len(chain) + 1] = n
      /\ \A i \in 1..Len(chain') : i \in 1..Len(chain) \/ i = Len(chain) + 1
      /\ ChainNodes' = ChainNodes \cup {n}
  BY <1>2, ChainAppended
<1>5. /\ Len(chain) \in Nat \ {0} /\ m_tail = chain[1] /\ m_head = chain[Len(chain)]
      /\ 1 \in 1..Len(chain) /\ Len(chain) \in 1..Len(chain)
      /\ \A i \in 1..Len(chain) : chain[i] \in Nodes /\ chain[i] \in ChainNodes
  BY <1>3, ChainShape
<1>6. /\ old_head'[p] = chain[Len(chain)] /\ \A q \in Producers \ {p} : old_head'[q] = old_head[q]
      /\ pc'[p] = "link" /\ \A q \in Producers \ {p} : pc'[q] = pc[q]
  BY <1>2, <1>5 DEF TypeOK
<1>7. \A q \in Producers : Linking(q)' <=> Linking(q) \/ q = p
  BY <1>6 DEF Linking
<1>8. \A q \in Producers : Linking(q) =>
        q # p /\ \E i \in 1..(Len(chain) - 1) : old_head[q] = chain[i] /\ new_node[q] = chain[i + 1]
  BY <1>2 DEF NodesOwned, Linking
<1>9. \A i, j \in 1..Len(chain) : chain[i] = chain[j] => i = j
  BY DEF ChainLinked
<1>10. \A i \in 1..(Len(chain) - 1) : i \in 1..Len(chain) /\ i # Len(chain) /\ i + 1 \in 1..Len(chain)
  BY <1>4
<1>11. \A q \in Producers : Linking(q) => old_head[q] # chain[Len(chain)]
  BY <1>5, <1>8, <1>9, <1>10
<1>12. TypeOK'
  BY <1>1, <1>2, <1>4 DEF TypeOK
<1>13. ChainLinked'
  <2>1. chain'[1] = m_tail' /\ chain'[Len(chain')] = m_head'
    BY <1>2, <1>4, <1>5
  <2>2. \A i, j \in 1..Len(chain') : chain'[i] = chain'[j] => i = j
    BY <1>1, <1>4, <1>5, <1>9
  <2>3. next'[chain'[Len(chain')]] = Null
    BY <1>1, <1>2, <1>4
  <2>4. ASSUME NEW i \in 1..(Len(chain') - 1)
        PROVE  \/ next[chain'[i]] = chain'[i + 1] /\ \A q \in Producers : Linking(q)' => old_head'[q] # chain'[i]
               \/ next[chain'[i]] = Null /\ \E q \in Producers :
                    Linking(q)' /\ old_head'[q] = chain'[i] /\ new_node[q] = chain'[i + 1]
    <3>1. i \in 1..(Len(chain) - 1) \/ i = Len(chain)
      BY <1>4
    <3>2. CASE i = Len(chain)
      BY <1>1, <1>4, <1>5, <1>6, <1>7, <3>2 DEF ChainLinked
    <3>3. CASE i \in 1..(Len(chain) - 1)
      <4>1. chain'[i] = chain[i] /\ chain'[i + 1] = chain[i + 1] /\ chain[i] # chain[Len(chain)]
        BY <1>4, <1>5, <1>9, <1>10, <3>3
      <4>2. \/ next[chain[i]] = chain[i + 1] /\ \A q \in Producers : Linking(q) => old_head[q] # chain[i]
            \/ next[chain[i]] = Null /\ \E q \in Producers :
                 Linking(q) /\ old_head[q] = chain[i] /\ new_node[q] = chain[i + 1]
        BY <3>3 DEF ChainLinked
      <4>. QED  BY <1>6, <1>7, <1>8, <4>1, <4>2
    <3>. QED  BY <3>1, <3>2, <3>3
  <2>. QED  BY <1>2, <1>4, <2>1, <2>2, <2>3, <2>4 DEF ChainLinked
<1>14. NodesOwned'
  <2>1. allocated' = ChainNodes' \cup {new_node[q] : q \in {r \in Producers : pc'[r] = "exchange"}}
                                 \cup (IF cpc = "delete" THEN {old_tail} ELSE {})
    <3>1. {new_node[q] : q \in {r \in Producers : pc[r] = "exchange"}}
            = {new_node[q] : q \in {r \in Producers : pc'[r] = "exchange"}} \cup {n}
      BY <1>1, <1>2, <1>6
    <3>. QED  BY <1>2, <1>4, <3>1 DEF NodesOwned
  <2>2. \A q \in Producers : pc'[q] = "exchange" =>
          /\ new_node[q] \notin ChainNodes' /\ next[new_node[q]] = Null
          /\ \A r \in Producers : pc'[r] = "exchange" /\ new_node[r] = new_node[q] => q = r
    BY <1>1, <1>2, <1>4, <1>6 DEF NodesOwned
  <2>3. ASSUME NEW q \in Producers, Linking(q)'
        PROVE  \E i \in 1..(Len(chain') - 1) : old_head'[q] = chain'[i] /\ new_node[q] = chain'[i + 1]
    <3>1. CASE q = p
      <4>1. Len(chain) \in 1..(Len(chain') - 1) /\ old_head'[q] = chain'[Len(chain)]
        BY <1>4, <1>5, <1>6, <3>1
      <4>. QED  BY <1>1, <1>4, <3>1, <4>1
    <3>2. CASE q # p
      <4>1. PICK i \in 1..(Len(chain) - 1) : old_head[q] = chain[i] /\ new_node[q] = chain[i + 1]
        BY <1>7, <1>8, <2>3, <3>2
      <4>2. i \in 1..(Len(chain') - 1) /\ chain'[i] = chain[i] /\ chain'[i + 1] = chain[i + 1]
        BY <1>4, <1>10
      <4>. QED  BY <1>6, <3>2, <4>1, <4>2
    <3>. QED  BY <3>1, <3>2
  <2>4. cpc = "take" => Len(chain') > 1 /\ popped = chain'[2] /\ next[m_tail] = popped
    <3>1. cpc = "take" => Len(chain) > 1 /\ popped = chain[2] /\ next[m_tail] = popped
      BY DEF NodesOwned
    <3>. QED  BY <1>4, <3>1
  <2>5. cpc = "delete" => old_tail \notin ChainNodes' /\ \A q \in Producers :
                            pc'[q] = "exchange" => new_node[q] # old_tail
    BY <1>1, <1>2, <1>4, <1>6 DEF NodesOwned
  <2>. QED  BY <1>2, <1>3, <2>1, <2>2, <2>3, <2>4, <2>5 DEF NodesOwned
<1>15. LinkersApart'
  BY <1>6, <1>7, <1>8, <1>11 DEF LinkersApart
<1>16. ValuesPresent'
  <2>1. \A i \in 2..Len(chain') : i \in 2..Len(chain) \/ i = Len(chain) + 1
    BY <1>4
  <2>2. \A i \in 2..Len(chain) : i \in 1..Len(chain)
    BY <1>4
  <2>3. value[n] \in Values
    BY <1>1, <1>2 DEF ValuesPresent
  <2>. QED  BY <1>2, <1>4, <1>6, <2>1, <2>2, <2>3 DEF ValuesPresent
<1>. QED  BY <1>12, <1>13, <1>14, <1>15, <1>16

LEMMA LinkKeeps ==
  ASSUME QueueInv, NEW p \in Producers, Link(p)
  PROVE  QueueInv'
<1>. USE DEF QueueInv, NoUseAfterFree
<1>1. PICK k \in 1..(Len(chain) - 1) : old_head[p] = chain[k] /\ new_node[p] = chain[k + 1]
  BY DEF Link, NodesOwned, Linking
<1>2. /\ pc[p] = "link" /\ next' = [next EXCEPT ![chain[k]] = chain[k + 1]]
      /\ pc' = [pc EXCEPT ![p] = "idle"]
      /\ new_node' = [new_node EXCEPT ![p] = Null] /\ old_head' = [old_head EXCEPT ![p] = Null]
      /\ UNCHANGED <<m_head, m_tail, value, allocated, cpc, popped, old_tail, out, chain>>
  BY <1>1 DEF Link, EnqueueReturns, consumerVars
<1>3. cpc \notin {"destroy", "destroyed"}
  BY <1>2 DEF NodesOwned
<1>4. /\ Len(chain) \in Nat \ {0} /\ m_tail = chain[1] /\ 1 \in 1..Len(chain) /\ Len(chain) \in 1..Len(chain)
      /\ \A i \in 1..Len(chain) : chain[i] \in Nodes /\ chain[i] \in ChainNodes
  BY <1>3, ChainShape
<1>5. \A i \in 1..(Len(chain) - 1) : i \in 1..Len(chain) /\ i # Len(chain) /\ i + 1 \in 1..Len(chain)
  BY <1>4
<1>6. \A i, j \in 1..Len(chain) : chain[i] = chain[j] => i = j
  BY DEF ChainLinked
<1>7. /\ next'[chain[k]] = chain[k + 1] /\ \A m \in Nodes \ {chain[k]} : next'[m] = next[m]
      /\ \A q \in Producers \ {p} : pc'[q] = pc[q] /\ new_node'[q] = new_node[q] /\ old_head'[q] = old_head[q]
      /\ pc'[p] = "idle"
  BY <1>2, <1>4, <1>5 DEF TypeOK
<1>8. \A q \in Producers : /\ Linking(q)' <=> Linking(q) /\ q # p
                           /\ pc'[q] = "exchange" <=> pc[q] = "exchange"
                           /\ pc[q] = "exchange" => q # p
                           /\ Linking(q) /\ q # p => old_head[q] # chain[k]
  BY <1>1, <1>2, <1>7 DEF Linking, LinkersApart
<1>9. TypeOK'
  BY <1>2, <1>4, <1>5 DEF TypeOK
<1>10. ChainNodes' = ChainNodes
  BY <1>2 DEF ChainNodes
<1>11. ChainLinked'
  <2>1. next'[chain[Len(chain)]] = Null
    BY <1>4, <1>5, <1>6, <1>7 DEF ChainLinked
  <2>2. ASSUME NEW i \in 1..(Len(chain) - 1)
        PROVE  \/ next'[chain[i]] = chain[i + 1] /\ \A q \in Producers : Linking(q)' => old_head'[q] # chain[i]
               \/ next'[chain[i]] = Null /\ \E q \in Producers :
                    Linking(q)' /\ old_head'[q] = chain[i] /\ new_node'[q] = chain[i + 1]
    <3>1. CASE i = k
      BY <1>7, <1>8, <3>1
    <3>2. CASE i # k
      <4>1. chain[i] # chain[k] /\ chain[i] \in Nodes
        BY <1>4, <1>5, <1>6, <3>2
      <4>2. \/ next[chain[i]] = chain[i + 1] /\ \A q \in Producers : Linking(q) => old_head[q] # chain[i]
            \/ next[chain[i]] = Null /\ \E q \in Producers :
                 Linking(q) /\ old_head[q] = chain[i] /\ new_node[q] = chain[i + 1]
        BY DEF ChainLinked
      <4>. QED  BY <1>1, <1>7, <1>8, <4>1, <4>2
    <3>. QED  BY <3>1, <3>2
  <2>. QED  BY <1>2, <2>1, <2>2 DEF ChainLinked
<1>12. NodesOwned'
  <2>1. {new_node'[q] : q \in {r \in Producers : pc'[r] = "exchange"}}
          = {new_node[q] : q \in {r \in Producers : pc[r] = "exchange"}}
    BY <1>7, <1>8
  <2>2. \A q \in Producers : pc'[q] = "exchange" =>
          /\ new_node'[q] \notin ChainNodes /\ next'[new_node'[q]] = Null
          /\ \A r \in Producers : pc'[r] = "exchange" /\ new_node'[r] = new_node'[q] => q = r
    <3>1. \A q \in Producers : pc[q] = "exchange" => new_node[q] \in Nodes /\ new_node[q] # chain[k]
      BY <1>4, <1>5 DEF NodesOwned, TypeOK
    <3>. QED  BY <1>7, <1>8, <3>1 DEF NodesOwned
  <2>3. \A q \in Producers : Linking(q)' =>
          \E i \in 1..(Len(chain) - 1) : old_head'[q] = chain[i] /\ new_node'[q] = chain[i + 1]
    BY <1>7, <1>8 DEF NodesOwned
  <2>4. cpc = "take" => Len(chain) > 1 /\ popped = chain[2] /\ next'[m_tail] = popped
    <3>1. ASSUME cpc = "take" PROVE next'[m_tail] = popped
      <4>1. next[m_tail] = chain[2] /\ 1 \in 1..(Len(chain) - 1) /\ popped = chain[2]
        BY <1>4, <3>1 DEF NodesOwned
      <4>2. next[chain[1]] # Null
        BY <1>4, <4>1, NodesAssumption, 2 \in 1..Len(chain)
      <4>3. k # 1
        BY <1>1, <1>2, <4>1, <4>2 DEF ChainLinked, Linking
      <4>. QED  BY <1>4, <1>5, <1>6, <1>7, <4>1, <4>3
    <3>. QED  BY <3>1 DEF NodesOwned
  <2>5. cpc = "delete" => old_tail \notin ChainNodes /\ \A q \in Producers :
                            pc'[q] = "exchange" => new_node'[q] # old_tail
    BY <1>7, <1>8 DEF NodesOwned
  <2>. QED  BY <1>2, <1>3, <1>10, <2>1, <2>2, <2>3, <2>4, <2>5 DEF NodesOwned
<1>13. LinkersApart'
  BY <1>7, <1>8 DEF LinkersApart
<1>14. ValuesPresent'
  BY <1>2, <1>7, <1>8 DEF ValuesPresent
<1>. QED  BY <1>9, <1>11, <1>12, <1>13, <1>14

\* TryDequeue looks at the list and ReturnFalse leaves it as it is.
LEMMA LookKeeps ==
  ASSUME QueueInv, TryDequeue \/ ReturnFalse
  PROVE  QueueInv'
<1>. USE DEF QueueInv, NoUseAfterFree
<1>1. UNCHANGED <<m_head, m_tail, next, value, allocated, pc, new_node, old_head, old_tail, out, chain>>
  BY DEF TryDequeue, ReturnFalse, producerVars
<1>2. /\ cpc \in {"idle", "empty"} /\ cpc' \in {"idle", "empty", "take"}
      /\ cpc' = "take" => popped' = next[m_tail] /\ next[m_tail] # Null
      /\ popped' = popped \/ popped' = next[m_tail]
  BY DEF TryDequeue, ReturnFalse
<1>3. /\ Len(chain) \in Nat \ {0} /\ m_tail = chain[1] /\ 1 \in 1..Len(chain) /\ m_tail \in Nodes
  BY <1>2, ChainShape
<1>4. TypeOK'
  <2>1. popped' \in Nodes \cup {Null}
    BY <1>2, <1>3 DEF TypeOK
  <2>. QED  BY <1>1, <1>2, <2>1 DEF TypeOK
<1>5. ChainNodes' = ChainNodes /\ \A q \in Producers : Linking(q)' = Linking(q)
  BY <1>1 DEF ChainNodes, Linking
<1>6. ChainLinked'
  BY <1>1, <1>2, <1>5 DEF ChainLinked
<1>7. ASSUME next[m_tail] # Null PROVE Len(chain) > 1 /\ next[m_tail] = chain[2]
  <2>1. Len(chain) # 1
    BY <1>3, <1>7 DEF ChainLinked
  <2>2. 1 \in 1..(Len(chain) - 1) /\ Len(chain) > 1 /\ 1 + 1 = 2
    <3>1. Len(chain) \in Nat /\ Len(chain) # 0
      BY <1>3
    <3>. QED  BY <2>1, <3>1
  <2>3. next[chain[1]] = chain[1 + 1] \/ next[chain[1]] = Null
    BY <2>2 DEF ChainLinked
  <2>. QED  BY <1>3, <1>7, <2>2, <2>3
<1>8. NodesOwned'
  BY <1>1, <1>2, <1>5, <1>7 DEF NodesOwned
<1>9. LinkersApart' /\ ValuesPresent'
  BY <1>1, <1>2, <1>5 DEF LinkersApart, ValuesPresent
<1>. QED  BY <1>4, <1>6, <1>8, <1>9

\* The list without its first node, when that node is linked to the second one
\* and so no producer is about to link it.
LEMMA RestOfList ==
  ASSUME QueueInv, chain # << >>, chain' = Tail(chain), Len(chain) > 1, next[chain[1]] # Null,
         UNCHANGED <<next, pc, new_node, old_head>>
  PROVE  /\ chain' # << >> /\ chain'[1] = chain[2] /\ chain'[Len(chain')] = chain[Len(chain)]
         /\ \A i, j \in 1..Len(chain') : chain'[i] = chain'[j] => i = j
         /\ next'[chain'[Len(chain')]] = Null
         /\ \A i \in 1..(Len(chain') - 1) :
              \/ next'[chain'[i]] = chain'[i + 1] /\ \A p \in Producers : Linking(p)' => old_head'[p] # chain'[i]
              \/ next'[chain'[i]] = Null /\ \E p \in Producers :
                   Linking(p)' /\ old_head'[p] = chain'[i] /\ new_node'[p] = chain'[i + 1]
         /\ \A p \in Producers : Linking(p)' =>
              \E i \in 1..(Len(chain') - 1) : old_head'[p] = chain'[i] /\ new_node'[p] = chain'[i + 1]
<1>. USE DEF QueueInv, NoUseAfterFree
<1>1. /\ chain' \in Seq(Nodes) /\ Len(chain) \in Nat \ {0} /\ Len(chain') = Len(chain) - 1
      /\ \A i \in 1..Len(chain') : i + 1 \in 1..Len(chain) /\ chain'[i] = chain[i + 1]
      /\ ChainNodes' = ChainNodes \ {chain[1]} /\ chain[1] \in ChainNodes
  BY ChainShortened
<1>2. \A i \in 1..(Len(chain') - 1) : /\ i \in 1..Len(chain') /\ i + 1 \in 1..Len(chain')
                                      /\ i + 1 \in 1..(Len(chain) - 1)
                                      /\ chain'[i] = chain[i + 1] /\ chain'[i + 1] = chain[i + 1 + 1]
  BY <1>1
<1>3. \A p \in Producers : Linking(p)' = Linking(p)
  BY DEF Linking
<1>4. 1 \in 1..Len(chain') /\ Len(chain') \in 1..Len(chain') /\ Len(chain') + 1 = Len(chain) /\ chain' # << >>
  <2>1. Len(chain) \in Nat /\ Len(chain) > 1 /\ Len(chain') = Len(chain) - 1 /\ chain' \in Seq(Nodes)
    BY <1>1
  <2>2. Len(chain') # 0
    BY <2>1
  <2>3. chain' # << >>
    BY <2>1, <2>2
  <2>. QED  BY <2>1, <2>3
<1>5. chain'[1] = chain[2] /\ chain'[Len(chain')] = chain[Len(chain)]
  BY <1>1, <1>4
<1>6. \A i, j \in 1..Len(chain') : chain'[i] = chain'[j] => i = j
  <2>. SUFFICES ASSUME NEW i \in 1..Len(chain'), NEW j \in 1..Len(chain'), chain'[i] = chain'[j]
                PROVE  i = j
    OBVIOUS
  <2>1. i + 1 = j + 1
    BY <1>1 DEF ChainLinked
  <2>. QED  BY <1>1, <2>1
<1>7. next'[chain'[Len(chain')]] = Null
  BY <1>5 DEF ChainLinked
<1>8. ASSUME NEW i \in 1..(Len(chain') - 1)
      PROVE  \/ next[chain'[i]] = chain'[i + 1] /\ \A p \in Producers : Linking(p) => old_head[p] # chain'[i]
             \/ next[chain'[i]] = Null /\ \E p \in Producers :
                  Linking(p) /\ old_head[p] = chain'[i] /\ new_node[p] = chain'[i + 1]
  <2>1. \A j \in 1..(Len(chain) - 1) :
          \/ next[chain[j]] = chain[j + 1] /\ \A p \in Producers : Linking(p) => old_head[p] # chain[j]
          \/ next[chain[j]] = Null /\ \E p \in Producers :
               Linking(p) /\ old_head[p] = chain[j] /\ new_node[p] = chain[j + 1]
    BY DEF ChainLinked
  <2>2. PICK j \in 1..(Len(chain) - 1) : j = i + 1 /\ chain'[i] = chain[j] /\ chain'[i + 1] = chain[j + 1]
    BY <1>2
  <2>. QED  BY <2>1, <2>2
<1>9. ASSUME NEW p \in Producers, Linking(p)
      PROVE  \E i \in 1..(Len(chain') - 1) : old_head[p] = chain'[i] /\ new_node[p] = chain'[i + 1]
  <2>1. PICK k \in 1..(Len(chain) - 1) : old_head[p] = chain[k] /\ new_node[p] = chain[k + 1]
    BY <1>9 DEF NodesOwned
  <2>2. 1 \in 1..(Len(chain) - 1)
    BY <1>1
  <2>3. k # 1
    BY <1>9, <2>1, <2>2 DEF ChainLinked
  <2>4. k - 1 \in 1..(Len(chain') - 1) /\ chain'[k - 1] = chain[k] /\ chain'[k - 1 + 1] = chain[k + 1]
    BY <1>1, <2>3
  <2>. QED  BY <2>1, <2>4
<1>. QED  BY <1>3, <1>4, <1>5, <1>6, <1>7, <1>8, <1>9

LEMMA TakeKeeps ==
  ASSUME QueueInv, Take
  PROVE  QueueInv'
<1>. USE DEF QueueInv, NoUseAfterFree
<1>1. /\ cpc = "take" /\ out' = value[popped] /\ old_tail' = m_tail /\ m_tail' = popped
      /\ value' = [value EXCEPT ![popped] = None] /\ chain' = Tail(chain) /\ cpc' = "delete"
      /\ UNCHANGED <<m_head, next, allocated, pc, new_node, old_head, popped>>
  BY DEF Take, producerVars
<1>2. /\ chain # << >> /\ Len(chain) \in Nat \ {0} /\ m_tail = chain[1] /\ m_head = chain[Len(chain)]
      /\ \A i \in 1..Len(chain) : chain[i] \in Nodes /\ chain[i] \in ChainNodes
  BY <1>1, ChainShape
<1>3. Len(chain) > 1 /\ popped = chain[2] /\ next[chain[1]] = popped
  BY <1>1, <1>2 DEF NodesOwned
<1>4. /\ 1 \in 1..Len(chain) /\ 2 \in 1..Len(chain) /\ 2 \in 2..Len(chain)
      /\ popped \in Nodes /\ chain[1] \in Nodes /\ next[chain[1]] # Null
  BY <1>2, <1>3, NodesAssumption
<1>5. /\ chain' \in Seq(Nodes) /\ Len(chain') = Len(chain) - 1
      /\ \A i \in 1..Len(chain') : i + 1 \in 1..Len(chain) /\ chain'[i] = chain[i + 1]
      /\ ChainNodes' = ChainNodes \ {chain[1]} /\ chain[1] \in ChainNodes
  BY <1>1, <1>2, ChainShortened
<1>6. /\ chain' # << >> /\ chain'[1] = chain[2] /\ chain'[Len(chain')] = chain[Len(chain)]
      /\ \A i, j \in 1..Len(chain') : chain'[i] = chain'[j] => i = j
      /\ next'[chain'[Len(chain')]] = Null
      /\ \A i \in 1..(Len(chain') - 1) :
           \/ next'[chain'[i]] = chain'[i + 1] /\ \A p \in Producers : Linking(p)' => old_head'[p] # chain'[i]
           \/ next'[chain'[i]] = Null /\ \E p \in Producers :
                Linking(p)' /\ old_head'[p] = chain'[i] /\ new_node'[p] = chain'[i + 1]
      /\ \A p \in Producers : Linking(p)' =>
           \E i \in 1..(Len(chain') - 1) : old_head'[p] = chain'[i] /\ new_node'[p] = chain'[i + 1]
  BY <1>1, <1>2, <1>3, <1>4, RestOfList
<1>7. value[popped] \in Values /\ out' \in Values
  BY <1>1, <1>3, <1>4 DEF ValuesPresent
<1>8. TypeOK'
  BY <1>1, <1>2, <1>4, <1>5, <1>7 DEF TypeOK
<1>9. ChainLinked'
  BY <1>1, <1>2, <1>3, <1>6 DEF ChainLinked
<1>10. \A q \in Producers : pc[q] = "exchange" =>
         new_node[q] \in Nodes /\ new_node[q] # chain[1] /\ new_node[q] # popped
  BY <1>2, <1>3, <1>4 DEF NodesOwned, TypeOK
<1>11. NodesOwned'
  <2>1. allocated = ChainNodes' \cup {new_node[q] : q \in {r \in Producers : pc[r] = "exchange"}} \cup {chain[1]}
    BY <1>1, <1>5 DEF NodesOwned
  <2>2. \A q \in Producers : pc[q] = "exchange" =>
          /\ new_node[q] \notin ChainNodes' /\ next[new_node[q]] = Null
          /\ \A r \in Producers : pc[r] = "exchange" /\ new_node[r] = new_node[q] => q = r
    BY <1>5 DEF NodesOwned
  <2>. QED  BY <1>1, <1>2, <1>5, <1>6, <1>10, <2>1, <2>2 DEF NodesOwned
<1>12. LinkersApart'
  BY <1>1 DEF LinkersApart, Linking
<1>13. ValuesPresent'
  <2>1. ASSUME NEW i \in 2..Len(chain') PROVE value'[chain'[i]] \in Values
    <3>1. i \in 1..Len(chain') /\ i + 1 \in 2..Len(chain) /\ i + 1 # 2 /\ i + 1 \in 1..Len(chain)
      BY <1>2, <1>5
    <3>2. chain'[i] = chain[i + 1] /\ chain[i + 1] # popped /\ chain[i + 1] \in Nodes
      BY <1>2, <1>3, <1>4, <1>5, <3>1 DEF ChainLinked
    <3>3. value'[chain'[i]] = value[chain[i + 1]]
      BY <1>1, <3>2 DEF TypeOK
    <3>. QED  BY <3>1, <3>3 DEF ValuesPresent
  <2>2. ASSUME NEW q \in Producers, pc[q] = "exchange" PROVE value'[new_node[q]] = value[new_node[q]]
    BY <1>1, <1>10, <2>2 DEF TypeOK
  <2>. QED  BY <1>1, <1>7, <2>1, <2>2 DEF ValuesPresent
<1>. QED  BY <1>8, <1>9, <1>11, <1>12, <1>13

LEMMA DeleteKeeps ==
  ASSUME QueueInv, Delete
  PROVE  QueueInv'
<1>. USE DEF QueueInv, NoUseAfterFree
<1>1. /\ cpc = "delete" /\ allocated' = allocated \ {old_tail} /\ next' = [next EXCEPT ![old_tail] = Null]
      /\ cpc' = "idle" /\ popped' = Null /\ old_tail' = Null /\ out' = None
      /\ UNCHANGED <<m_head, m_tail, value, pc, new_node, old_head, chain>>
  BY DEF Delete, ReturnTrue, producerVars
<1>2. /\ Len(chain) \in Nat \ {0} /\ Len(chain) \in 1..Len(chain)
      /\ \A i \in 1..Len(chain) : chain[i] \in Nodes /\ chain[i] \in ChainNodes
  BY <1>1, ChainShape
<1>3. old_tail \notin ChainNodes /\ \A q \in Producers : pc[q] = "exchange" => new_node[q] # old_tail
  BY <1>1 DEF NodesOwned
<1>4. \A m \in Nodes : m # old_tail => next'[m] = next[m]
  BY <1>1 DEF TypeOK
<1>5. \A i \in 1..Len(chain) : next'[chain[i]] = next[chain[i]]
  BY <1>2, <1>3, <1>4
<1>6. \A q \in Producers : pc[q] = "exchange" => new_node[q] \in Nodes /\ next'[new_node[q]] = next[new_node[q]]
  BY <1>3, <1>4 DEF NodesOwned, TypeOK
<1>7. TypeOK'
  BY <1>1 DEF TypeOK
<1>8. ChainNodes' = ChainNodes /\ \A q \in Producers : Linking(q)' = Linking(q)
  BY <1>1 DEF ChainNodes, Linking
<1>9. ChainLinked'
  <2>1. \A i \in 1..(Len(chain) - 1) : i \in 1..Len(chain)
    BY <1>2
  <2>. QED  BY <1>1, <1>2, <1>5, <1>8, <2>1 DEF ChainLinked
<1>10. NodesOwned'
  <2>1. allocated' = ChainNodes \cup {new_node[q] : q \in {r \in Producers : pc[r] = "exchange"}}
    BY <1>1, <1>3 DEF NodesOwned
  <2>. QED  BY <1>1, <1>6, <1>8, <2>1 DEF NodesOwned
<1>11. LinkersApart' /\ ValuesPresent'
  BY <1>1, <1>8 DEF LinkersApart, ValuesPresent
<1>. QED  BY <1>7, <1>9, <1>10, <1>11

LEMMA DestroyKeeps ==
  ASSUME QueueInv, Destroy
  PROVE  QueueInv'
<1>. USE DEF QueueInv, NoUseAfterFree
<1>1. /\ cpc = "idle" /\ cpc' = "destroy" /\ \A p \in Producers : pc[p] = "idle"
      /\ UNCHANGED <<m_head, m_tail, next, value, allocated, pc, new_node, old_head, popped, old_tail, out, chain>>
  BY DEF Destroy, producerVars
<1>2. ChainNodes' = ChainNodes /\ \A q \in Producers : Linking(q)' = Linking(q)
  BY <1>1 DEF ChainNodes, Linking
<1>3. TypeOK'
  BY <1>1 DEF TypeOK
<1>4. ChainLinked'
  BY <1>1, <1>2 DEF ChainLinked
<1>5. NodesOwned'
  BY <1>1, <1>2 DEF NodesOwned
<1>6. LinkersApart' /\ ValuesPresent'
  BY <1>1, <1>2 DEF LinkersApart, ValuesPresent
<1>. QED  BY <1>3, <1>4, <1>5, <1>6

LEMMA DestroyNodeKeeps ==
  ASSUME QueueInv, DestroyNode
  PROVE  QueueInv'
<1>. USE DEF QueueInv, NoUseAfterFree
<1>1. /\ cpc = "destroy" /\ m_tail' = next[m_tail] /\ allocated' = allocated \ {m_tail}
      /\ chain' = Tail(chain)
      /\ UNCHANGED <<m_head, next, value, pc, new_node, old_head, popped, old_tail, out>>
  BY DEF DestroyNode, producerVars
<1>2. cpc' = IF next[m_tail] = Null THEN "destroyed" ELSE "destroy"
  BY DEF DestroyNode
<1>3. /\ chain # << >> /\ Len(chain) \in Nat \ {0} /\ m_tail = chain[1] /\ m_head = chain[Len(chain)]
      /\ \A i \in 1..Len(chain) : chain[i] \in Nodes /\ chain[i] \in ChainNodes
      /\ 1 \in 1..Len(chain)
  BY <1>1, ChainShape
<1>4. \A q \in Producers : pc[q] = "idle" /\ ~Linking(q) /\ ~Linking(q)'
  BY <1>1 DEF NodesOwned, Linking
<1>5. /\ chain' \in Seq(Nodes) /\ Len(chain') = Len(chain) - 1
      /\ \A i \in 1..Len(chain') : i + 1 \in 1..Len(chain) /\ chain'[i] = chain[i + 1]
      /\ ChainNodes' = ChainNodes \ {chain[1]} /\ chain[1] \in ChainNodes
  BY <1>1, <1>3, ChainShortened
<1>6. TypeOK'
  <2>1. m_tail' \in Nodes \cup {Null}
    BY <1>1, <1>3 DEF TypeOK
  <2>. QED  BY <1>1, <1>2, <1>5, <2>1 DEF TypeOK
<1>7. CASE Len(chain) = 1
  <2>1. next[chain[1]] = Null /\ cpc' = "destroyed"
    BY <1>2, <1>3, <1>7 DEF ChainLinked
  <2>2. Len(chain') = 0 /\ chain' = << >>
    BY <1>5, <1>7
  <2>. QED  BY <1>1, <1>2, <1>3, <1>4, <1>5, <1>6, <2>1, <2>2 DEF ChainLinked, NodesOwned, LinkersApart, ValuesPresent
<1>8. CASE Len(chain) > 1
  <2>1. 1 \in 1..(Len(chain) - 1) /\ 1 + 1 = 2 /\ 2 \in 1..Len(chain)
    BY <1>3, <1>8
  <2>2. next[chain[1]] = chain[2]
    BY <1>4, <2>1 DEF ChainLinked
  <2>3. next[chain[1]] # Null /\ cpc' = "destroy"
    BY <1>2, <1>3, <2>1, <2>2, NodesAssumption
  <2>4. ChainLinked'
    BY <1>1, <1>3, <1>8, <2>2, <2>3, RestOfList DEF ChainLinked
  <2>5. NodesOwned'
    BY <1>1, <1>3, <1>4, <1>5, <2>3 DEF NodesOwned
  <2>6. LinkersApart'
    BY <1>4 DEF LinkersApart
  <2>7. ValuesPresent'
    <3>1. \A i \in 2..Len(chain') : i \in 1..Len(chain') /\ i + 1 \in 2..Len(chain)
      BY <1>3, <1>5
    <3>. QED  BY <1>1, <1>4, <1>5, <2>3, <3>1 DEF ValuesPresent
  <2>. QED  BY <1>6, <2>4, <2>5, <2>6, <2>7
<1>9. Len(chain) = 1 \/ Len(chain) > 1
  <2>1. Len(chain) \in Nat /\ Len(chain) # 0
    BY <1>3
  <2>. QED  BY <2>1
<1>. QED  BY <1>7, <1>8, <1>9

-----------------------------------------------------------------------------
(* mpsc_queue *)

LEMMA QueueStep == QueueInv /\ [Next]_queueVars => QueueInv'
<1>. SUFFICES ASSUME QueueInv, [Next]_queueVars PROVE QueueInv'
  OBVIOUS
<1>1. ASSUME NEW p \in Producers, ProducerStep(p) PROVE QueueInv'
  BY <1>1, ExchangeKeeps, LinkKeeps DEF ProducerStep
<1>2. ASSUME NEW p \in Producers, NEW v \in Values, Enqueue(p, v) PROVE QueueInv'
  BY <1>2, EnqueueKeeps
<1>3. ASSUME ConsumerStep PROVE QueueInv'
  BY <1>3, LookKeeps, TakeKeeps, DeleteKeeps, DestroyNodeKeeps DEF ConsumerStep
<1>4. ASSUME TryDequeue PROVE QueueInv'
  BY <1>4, LookKeeps
<1>5. ASSUME Destroy PROVE QueueInv'
  BY <1>5, DestroyKeeps
<1>6. ASSUME UNCHANGED queueVars PROVE QueueInv'
  BY <1>6 DEF queueVars, QueueInv, NoUseAfterFree, TypeOK, ChainLinked, NodesOwned, ChainNodes, Linking,
              LinkersApart, ValuesPresent
<1>. QED  BY <1>1, <1>2, <1>3, <1>4, <1>5, <1>6 DEF Next

LEMMA QueueInvariant == Spec => []QueueInv
<1>1. Init => QueueInv
  BY QueueInit
<1>2. QueueInv /\ [Next]_queueVars => QueueInv'
  BY QueueStep
<1>. QED  BY <1>1, <1>2, PTL DEF Spec

\* However the producers' exchanges and links, the consumer's steps and the
\* destructor interleave, the list from m_tail is linked in the order of the
\* exchanges but for the gaps that producers are about to close, every
\* allocated node has one owner, and no step touches a node that was deleted.
THEOREM NodesAreOwned == Spec => []NoUseAfterFree
<1>1. QueueInv => NoUseAfterFree
  BY DEF QueueInv
<1>. QED  BY <1>1, QueueInvariant, PTL

LEMMA EmptyStep == QueueInv /\ [Next]_queueVars => [JustEmpty]_queueVars
<1>. SUFFICES ASSUME QueueInv, Next, cpc # "empty", cpc' = "empty"
              PROVE  Len(chain) = 1 \/ \E p \in Producers : Linking(p) /\ old_head[p] = m_tail
  BY DEF JustEmpty
<1>1. TryDequeue
  BY DEF Next, ProducerStep, ConsumerStep, Enqueue, Exchange, Link, EnqueueReturns, ReturnFalse, Take,
         Delete, ReturnTrue, Destroy, DestroyNode, consumerVars
<1>2. next[m_tail] = Null /\ cpc = "idle"
  BY <1>1 DEF TryDequeue
<1>3. /\ chain # << >> /\ m_tail = chain[1] /\ Len(chain) \in Nat \ {0}
      /\ \A i \in 1..Len(chain) : chain[i] \in Nodes /\ chain[i] \in ChainNodes
  BY <1>2, ChainShape
<1>4. CASE Len(chain) # 1
  <2>1. Len(chain) \in Nat /\ Len(chain) # 0
    BY <1>3
  <2>2. 1 \in 1..(Len(chain) - 1) /\ 1 + 1 = 2 /\ 2 \in 1..Len(chain)
    <3>1. Len(chain) > 1
      BY <1>4, <2>1
    <3>. QED  BY <2>1, <3>1
  <2>3. next[chain[1]] # chain[1 + 1]
    BY <1>2, <1>3, <2>2, NodesAssumption
  <2>4. \E p \in Producers : Linking(p) /\ old_head[p] = chain[1] /\ new_node[p] = chain[1 + 1]
    BY <2>2, <2>3 DEF QueueInv, NoUseAfterFree, ChainLinked
  <2>. QED  BY <1>3, <2>4
<1>. QED  BY <1>4

\* try_dequeue finds no node only in an empty queue, or while the producer
\* next in line is between its exchange and its link.
THEOREM EmptyIsJustified == Spec => EmptyJustified
<1>1. QueueInv /\ [Next]_queueVars => [JustEmpty]_queueVars
  BY EmptyStep
<1>. QED  BY <1>1, QueueInvariant, PTL DEF Spec, EmptyJustified

-----------------------------------------------------------------------------
(* mpsc_queue is a FIFO *)

\* What the consumer took and has not returned yet.
Taken == [t \in {"consumer"} |-> IF cpc = "delete" THEN out ELSE None]

\* The values of the nodes behind the first one.
LEMMA ContentOf ==
  ASSUME NEW c, NEW w, Len(c) \in Nat, Len(c) # 0, \A i \in 2..Len(c) : w[c[i]] \in Values,
         NEW s, s = [i \in 1..(Len(c) - 1) |-> w[c[i + 1]]]
  PROVE  /\ s \in Seq(Values) /\ Len(s) \in Nat /\ Len(c) = Len(s) + 1
         /\ \A i \in 1..Len(s) : i + 1 \in 1..Len(c) /\ s[i] = w[c[i + 1]]
<1>1. PICK n \in Nat : n = Len(c) - 1
  OBVIOUS
<1>2. \A i \in 1..n : i + 1 \in 1..Len(c) /\ i + 1 \in 2..Len(c)
  BY <1>1
<1>3. s = [i \in 1..n |-> w[c[i + 1]]] /\ \A i \in 1..n : w[c[i + 1]] \in Values
  BY <1>1, <1>2
<1>4. s \in Seq(Values) /\ Len(s) = n
  BY <1>3
<1>5. Len(c) = n + 1
  BY <1>1
<1>. QED  BY <1>2, <1>3, <1>4, <1>5

LEMMA ContentType ==
  ASSUME QueueInv, cpc # "destroyed"
  PROVE  /\ Content \in Seq(Values) /\ Len(Content) \in Nat /\ Len(chain) = Len(Content) + 1
         /\ \A i \in 1..Len(Content) : i + 1 \in 1..Len(chain) /\ Content[i] = value[chain[i + 1]]
<1>1. Len(chain) \in Nat /\ Len(chain) # 0
  BY ChainShape
<1>2. \A i \in 2..Len(chain) : value[chain[i]] \in Values
  BY DEF QueueInv, ValuesPresent
<1>. QED  BY <1>1, <1>2, ContentOf DEF Content

\* The list never has more nodes than there are addresses.
LEMMA ChainFits ==
  ASSUME QueueInv, cpc # "destroyed"
  PROVE  Len(Content) < Cardinality(Nodes)
<1>1. chain \in Seq(Nodes) /\ Len(chain) \in Nat
  BY ChainShape
<1>2. chain \in [1..Len(chain) -> Nodes] /\ \A i, j \in 1..Len(chain) : chain[i] = chain[j] => i = j
  BY <1>1, LenProperties DEF QueueInv, NoUseAfterFree, ChainLinked
<1>3. chain \in Injection(1..Len(chain), Nodes)
  BY <1>2 DEF Injection, IsInjective
<1>4. Cardinality(1..Len(chain)) <= Cardinality(Nodes)
  BY <1>3, FS_Injection, NodesAssumption
<1>5. Cardinality(1..Len(chain)) = Len(chain)
  <2>1. 1 \in Int /\ Len(chain) \in Int
    BY <1>1
  <2>2. Cardinality(1..Len(chain)) = IF 1 > Len(chain) THEN 0 ELSE Len(chain) - 1 + 1
    BY <2>1, FS_Interval
  <2>. QED  BY <1>1, <2>2
<1>6. Cardinality(Nodes) \in Nat
  BY FS_CardinalityType, NodesAssumption
<1>7. Len(Content) \in Nat /\ Len(chain) = Len(Content) + 1
  BY ContentType
<1>. QED  BY <1>4, <1>5, <1>6, <1>7

LEMMA EnqueueContent ==
  ASSUME QueueInv, NEW p \in Producers, NEW v \in Values, Enqueue(p, v)
  PROVE  Content' = Content
<1>. USE DEF QueueInv, NoUseAfterFree
<1>1. PICK n \in Nodes \ allocated : value' = [value EXCEPT ![n] = v]
  BY DEF Enqueue
<1>2. chain' = chain /\ cpc # "destroyed"
  BY DEF Enqueue
<1>3. n \notin ChainNodes
  BY <1>1 DEF NodesOwned
<1>4. \A i \in 1..Len(chain) : value'[chain[i]] = value[chain[i]]
  BY <1>1, <1>2, <1>3, ChainShape DEF TypeOK
<1>5. \A i \in 1..(Len(chain) - 1) : i + 1 \in 1..Len(chain)
  BY <1>2, ChainShape
<1>. QED  BY <1>2, <1>4, <1>5 DEF Content

LEMMA ExchangeContent ==
  ASSUME QueueInv, NEW p \in Producers, Exchange(p)
  PROVE  value[new_node[p]] \in Values /\ Content' = Append(Content, value[new_node[p]])
<1>. USE DEF QueueInv, NoUseAfterFree
<1>1. /\ pc[p] = "exchange" /\ chain' = Append(chain, new_node[p]) /\ value' = value /\ cpc' = cpc
      /\ new_node' = new_node
  BY DEF Exchange, consumerVars
<1>2. cpc # "destroyed" /\ cpc' # "destroyed" /\ QueueInv'
  BY <1>1, ExchangeKeeps DEF NodesOwned
<1>3. PICK v \in Values : v = value[new_node[p]]
  BY <1>1 DEF ValuesPresent
<1>4. new_node[p] \in Nodes
  BY <1>1 DEF NodesOwned, TypeOK
<1>5. /\ Len(chain) \in Nat /\ Len(chain') = Len(chain) + 1
      /\ \A i \in 1..Len(chain) : chain'[i] = chain[i]
      /\ chain'[Len(chain) + 1] = new_node[p]
  BY <1>1, <1>4, ChainAppended
<1>6. /\ Content \in Seq(Values) /\ Len(Content) \in Nat /\ Len(chain) = Len(Content) + 1
      /\ \A i \in 1..Len(Content) : i + 1 \in 1..Len(chain) /\ Content[i] = value[chain[i + 1]]
  BY <1>2, ContentType
<1>7. /\ Content' \in Seq(Values) /\ Len(chain') = Len(Content') + 1 /\ Len(Content') \in Nat
      /\ \A i \in 1..Len(Content') : Content'[i] = value'[chain'[i + 1]]
  <2>1. Len(chain') \in Nat /\ Len(chain') # 0
    BY <1>5
  <2>2. \A i \in 2..Len(chain') : value'[chain'[i]] \in Values
    BY <1>2 DEF ValuesPresent
  <2>. QED  BY <2>1, <2>2, ContentOf DEF Content
<1>8. Len(Content') = Len(Content) + 1
  BY <1>5, <1>6, <1>7
<1>9. ASSUME NEW i \in 1..Len(Content) PROVE i \in 1..Len(Content') /\ Content'[i] = Content[i]
  <2>1. i \in 1..Len(Content') /\ i + 1 \in 1..Len(chain)
    BY <1>6, <1>8
  <2>2. Content'[i] = value'[chain'[i + 1]]
    BY <1>7, <2>1
  <2>3. chain'[i + 1] = chain[i + 1] /\ Content[i] = value[chain[i + 1]]
    BY <1>5, <1>6, <2>1
  <2>. QED  BY <1>1, <2>1, <2>2, <2>3
<1>10. Content'[Len(Content) + 1] = v
  <2>1. Len(Content) + 1 \in 1..Len(Content') /\ Len(Content) + 1 + 1 = Len(chain) + 1
    BY <1>6, <1>8
  <2>2. Content'[Len(Content) + 1] = value'[chain'[Len(Content) + 1 + 1]]
    BY <1>7, <2>1
  <2>. QED  BY <1>1, <1>3, <1>5, <2>1, <2>2
<1>11. Content' = Append(Content, v)
  <2>. DEFINE a == Append(Content, v)
  <2>1. /\ a \in Seq(Values) /\ Len(a) = Len(Content) + 1
        /\ \A i \in 1..Len(Content) : a[i] = Content[i]
        /\ a[Len(Content) + 1] = v
    BY <1>6, AppendProperties
  <2>2. \A i \in 1..Len(Content') : i \in 1..Len(Content) \/ i = Len(Content) + 1
    BY <1>6, <1>8
  <2>3. \A i \in 1..Len(Content') : Content'[i] = a[i]
    BY <1>9, <1>10, <2>1, <2>2
  <2>. HIDE DEF a
  <2>4. Content' = a
    BY <1>7, <1>8, <2>1, <2>3, SeqEqual
  <2>. QED  BY <2>4 DEF a
<1>. QED  BY <1>3, <1>11

LEMMA TakeContent ==
  ASSUME QueueInv, Take
  PROVE  Content # << >> /\ Head(Content) = out' /\ Content' = Tail(Content)
<1>. USE DEF QueueInv, NoUseAfterFree
<1>1. /\ cpc = "take" /\ out' = value[popped] /\ chain' = Tail(chain)
      /\ value' = [value EXCEPT ![popped] = None] /\ cpc' = "delete"
  BY DEF Take
<1>2. QueueInv'
  BY TakeKeeps
<1>3. /\ chain # << >> /\ \A i \in 1..Len(chain) : chain[i] \in Nodes /\ chain[i] \in ChainNodes
      /\ Len(chain) > 1 /\ popped = chain[2]
  BY <1>1, ChainShape DEF NodesOwned
<1>4. /\ Content \in Seq(Values) /\ Len(Content) \in Nat /\ Len(chain) = Len(Content) + 1
      /\ \A i \in 1..Len(Content) : i + 1 \in 1..Len(chain) /\ Content[i] = value[chain[i + 1]]
  BY <1>1, ContentType
<1>5. /\ Content' \in Seq(Values) /\ Len(chain') = Len(Content') + 1 /\ Len(Content') \in Nat
      /\ \A i \in 1..Len(Content') : i + 1 \in 1..Len(chain') /\ Content'[i] = value'[chain'[i + 1]]
  <2>1. Len(chain') \in Nat /\ Len(chain') # 0
    BY <1>1, <1>3, <1>4, ChainShortened
  <2>2. \A i \in 2..Len(chain') : value'[chain'[i]] \in Values
    BY <1>2 DEF ValuesPresent
  <2>. QED  BY <2>1, <2>2, ContentOf DEF Content
<1>6. Len(Content) > 0 /\ 1 \in 1..Len(Content) /\ 1 + 1 = 2 /\ 2 \in 1..Len(chain)
  BY <1>3, <1>4
<1>7. Content # << >>
  BY <1>4, <1>6
<1>8. Head(Content) = out'
  BY <1>1, <1>3, <1>4, <1>6, <1>7
<1>9. /\ Len(chain') = Len(chain) - 1
      /\ \A i \in 1..Len(chain') : i + 1 \in 1..Len(chain) /\ chain'[i] = chain[i + 1]
  BY <1>1, <1>3, ChainShortened
<1>10. Len(Content') = Len(Content) - 1
  BY <1>4, <1>5, <1>9
<1>11. ASSUME NEW i \in 1..Len(Content') PROVE Content'[i] = Content[i + 1]
  <2>1. i + 1 \in 1..Len(Content) /\ i + 1 + 1 # 2 /\ i + 1 + 1 \in 1..Len(chain) /\ i + 1 \in 1..Len(chain')
    BY <1>4, <1>5, <1>10
  <2>2. chain'[i + 1] = chain[i + 1 + 1] /\ chain[i + 1 + 1] # popped /\ chain[i + 1 + 1] \in Nodes
    BY <1>3, <1>6, <1>9, <2>1 DEF ChainLinked
  <2>3. value'[chain[i + 1 + 1]] = value[chain[i + 1 + 1]]
    BY <1>1, <2>2 DEF TypeOK
  <2>. QED  BY <1>4, <1>5, <2>1, <2>2, <2>3
<1>12. Content' = Tail(Content)
  <2>. DEFINE r == Tail(Content)
  <2>1. /\ r \in Seq(Values) /\ Len(r) = Len(Content) - 1
        /\ \A i \in 1..Len(r) : r[i] = Content[i + 1]
    BY <1>4, <1>7, HeadTailProperties
  <2>. HIDE DEF r
  <2>2. Content' = r
    BY <1>5, <1>10, <1>11, <2>1, SeqEqual
  <2>. QED  BY <2>2 DEF r
<1>. QED  BY <1>7, <1>8, <1>12

\* A step of the queue appends a value, hands the oldest one to the consumer,
\* ends the consumer's call or changes nothing a caller can see; or the
\* destructor runs.
LEMMA FifoStep == QueueInv /\ [Next]_queueVars => [F!Next \/ cpc' \in {"destroy", "destroyed"}]_(F!vars)
<1>. SUFFICES ASSUME QueueInv, [Next]_queueVars
              PROVE  F!Next \/ cpc' \in {"destroy", "destroyed"} \/ UNCHANGED <<Content, Taken>>
  BY DEF F!vars, Content, Taken
<1>1. ASSUME NEW p \in Producers, Exchange(p) PROVE F!Next
  <2>1. PICK v \in Values : Content' = Append(Content, v)
    BY <1>1, ExchangeContent
  <2>2. Len(Content) < Cardinality(Nodes)
    BY <1>1, ChainFits DEF Exchange, QueueInv, NoUseAfterFree, NodesOwned
  <2>3. Taken' = Taken
    BY <1>1 DEF Exchange, consumerVars, Taken
  <2>4. F!Enqueue(v)
    BY <2>1, <2>2, <2>3 DEF F!Enqueue, Content, Taken
  <2>. QED  BY <2>4 DEF F!Next
<1>2. ASSUME NEW p \in Producers, Link(p) PROVE UNCHANGED <<Content, Taken>>
  BY <1>2 DEF Link, EnqueueReturns, consumerVars, Content, Taken
<1>3. ASSUME NEW p \in Producers, NEW v \in Values, Enqueue(p, v) PROVE UNCHANGED <<Content, Taken>>
  <2>1. Taken' = Taken
    BY <1>3 DEF Enqueue, consumerVars, Taken
  <2>. QED  BY <1>3, <2>1, EnqueueContent
<1>4. ASSUME TryDequeue \/ ReturnFalse PROVE UNCHANGED <<Content, Taken>>
  BY <1>4 DEF TryDequeue, ReturnFalse, Content, Taken
<1>5. ASSUME Take PROVE F!Next
  <2>1. Content # << >> /\ Head(Content) = out' /\ Content' = Tail(Content)
    BY <1>5, TakeContent
  <2>2. Taken["consumer"] = None /\ Taken' = [Taken EXCEPT !["consumer"] = out']
    BY <1>5 DEF Take, Taken
  <2>3. F!Dequeue("consumer")
    BY <2>1, <2>2 DEF F!Dequeue, Content, Taken
  <2>. QED  BY <2>3 DEF F!Next
<1>6. ASSUME Delete PROVE F!Next
  <2>1. Content' = Content
    BY <1>6 DEF Delete, ReturnTrue, Content
  <2>2. cpc = "delete" /\ out \in Values /\ out # None /\ cpc' = "idle"
    BY <1>6, NodesAssumption DEF Delete, ReturnTrue, QueueInv, ValuesPresent
  <2>3. Taken["consumer"] # None /\ Taken' = [Taken EXCEPT !["consumer"] = None]
    BY <2>2 DEF Taken
  <2>4. F!Return("consumer")
    BY <2>1, <2>3 DEF F!Return, Content, Taken
  <2>. QED  BY <2>4 DEF F!Next
<1>7. ASSUME Destroy \/ DestroyNode PROVE cpc' \in {"destroy", "destroyed"}
  BY <1>7 DEF Destroy, DestroyNode
<1>8. ASSUME UNCHANGED queueVars PROVE UNCHANGED <<Content, Taken>>
  BY <1>8 DEF queueVars, Content, Taken
<1>. QED  BY <1>1, <1>2, <1>3, <1>4, <1>5, <1>6, <1>7, <1>8 DEF Next, ProducerStep, ConsumerStep

LEMMA FifoInit == Init => F!Init
<1>. SUFFICES ASSUME Init PROVE F!Init
  OBVIOUS
<1>1. Len(chain) = 1 /\ cpc = "idle"
  BY DEF Init
<1>2. Content = << >>
  BY <1>1 DEF Content
<1>. QED  BY <1>1, <1>2 DEF F!Init, Content

\* mpsc_queue hands its values out in the order of the exchanges, each of them
\* once, until its destructor runs, for any number of producers.
THEOREM QueueIsFifo == Spec => ImplementsFifo
<1>1. Init => F!Init
  BY FifoInit
<1>2. QueueInv /\ [Next]_queueVars => [F!Next \/ cpc' \in {"destroy", "destroyed"}]_(F!vars)
  BY FifoStep
<1>. QED  BY <1>1, <1>2, QueueInvariant, PTL DEF Spec, ImplementsFifo

-----------------------------------------------------------------------------
(* async_worker *)

\* A step of async_worker is a step of its queue or leaves the queue alone.
LEMMA WorkerUsesQueue == [WNext]_vars => [Next]_queueVars
<1>. SUFFICES ASSUME [WNext]_vars PROVE Next \/ UNCHANGED queueVars
  OBVIOUS
<1>1. ASSUME NEW p \in Producers, AddStep(p) PROVE Next \/ UNCHANGED queueVars
  BY <1>1 DEF AddStep, AddExchange, AddLink, AddRaise, AddNotify, Next, ProducerStep
<1>2. ASSUME NEW p \in Producers, NEW v \in Values, Add(p, v) PROVE Next
  BY <1>2 DEF Add, Next
<1>3. ASSUME WorkerStep PROVE Next \/ UNCHANGED queueVars
  BY <1>3 DEF WorkerStep, CheckStop, DrainTry, DrainGot, Payload, DrainEmpty, Lower, Wait, Next, ConsumerStep
<1>4. ASSUME StopStep \/ RequestStop PROVE UNCHANGED queueVars
  BY <1>4 DEF StopStep, StopRaise, StopNotify, Join, RequestStop
<1>5. ASSUME DestroyWorker PROVE Next
  BY <1>5 DEF DestroyWorker, Next, ConsumerStep
<1>6. ASSUME UNCHANGED vars PROVE UNCHANGED queueVars
  BY <1>6 DEF vars
<1>. QED  BY <1>1, <1>2, <1>3, <1>4, <1>5, <1>6 DEF WNext

\* async_worker uses its queue as a producer, a consumer and an owner may: all
\* that is proved of mpsc_queue holds of the one in the worker.
THEOREM WorkerIsQueueUser == WSpec => Spec
<1>1. WInit => Init
  BY DEF WInit
<1>2. [WNext]_vars => [Next]_queueVars
  BY WorkerUsesQueue
<1>. QED  BY <1>1, <1>2, PTL DEF WSpec, Spec

LEMMA WorkerInit == WInit => WInv
<1>. SUFFICES ASSUME WInit PROVE WInv
  OBVIOUS
<1>1. QueueInv
  BY QueueInit DEF WInit
<1>2. cpc = "idle" /\ Len(chain) = 1
  BY DEF WInit, Init
<1>3. WorkerInv
  BY <1>2 DEF WInit, WorkerInv
<1>4. WTypeOK
  <2>1. m_work_added \in BOOLEAN /\ stop_requested \in BOOLEAN
    BY DEF WInit
  <2>2. /\ apc \in [Producers -> {"idle", "enqueue", "raise", "notify"}]
        /\ wpc = "check" /\ queued = None /\ spc = "idle"
        /\ added \in Seq(Values) /\ executed \in Seq(Values)
    BY DEF WInit
  <2>. QED  BY <1>1, <2>1, <2>2 DEF QueueInv, NoUseAfterFree, WTypeOK
<1>5. InHand = << >> /\ Content = << >>
  BY <1>2 DEF WInit, InHand, Content
<1>6. ExecutedInOrder
  BY <1>4, <1>5 DEF ExecutedInOrder, Content, WInit
<1>. QED  BY <1>1, <1>3, <1>6 DEF WInv

\* Adding at the end, and moving the first value from one part to the part
\* before it, keep the whole.
LEMMA Concats ==
  ASSUME NEW e \in Seq(Values), NEW h \in Seq(Values), NEW c \in Seq(Values), NEW v \in Values
  PROVE  /\ Append(e \o h \o c, v) = e \o h \o Append(c, v)
         /\ e \o <<v>> \o c = Append(e, v) \o c
         /\ c # << >> => e \o << >> \o c = e \o <<Head(c)>> \o Tail(c)
<1>1. /\ e \o h \in Seq(Values) /\ <<v>> \in Seq(Values) /\ (e \o h) \o c \in Seq(Values)
  BY ConcatProperties
<1>2. Append(e \o h \o c, v) = e \o h \o Append(c, v)
  <2>1. Append(e \o h \o c, v) = ((e \o h) \o c) \o <<v>>
    BY <1>1, AppendIsConcat
  <2>2. Append(c, v) = c \o <<v>>
    BY AppendIsConcat
  <2>3. \A g, d \in Seq(Values) : (g \o c) \o d = g \o (c \o d)
    BY SMT
  <2>4. ((e \o h) \o c) \o <<v>> = (e \o h) \o (c \o <<v>>)
    BY <1>1, <2>3, Zenon
  <2>. QED  BY <2>1, <2>2, <2>4, Zenon
<1>3. e \o <<v>> \o c = Append(e, v) \o c
  BY AppendIsConcat
<1>4. ASSUME c # << >> PROVE e \o << >> \o c = e \o <<Head(c)>> \o Tail(c)
  <2>1. /\ Head(c) \in Values /\ Tail(c) \in Seq(Values) /\ <<Head(c)>> \in Seq(Values)
        /\ Len(Tail(c)) = Len(c) - 1 /\ \A i \in 1..Len(Tail(c)) : Tail(c)[i] = c[i + 1]
    BY <1>4, HeadTailProperties
  <2>2. c = <<Head(c)>> \o Tail(c)
    BY <1>4, <2>1
  <2>3. e \o << >> = e
    BY ConcatEmptySeq
  <2>4. e \o c = e \o (<<Head(c)>> \o Tail(c))
    BY <2>2
  <2>5. (e \o <<Head(c)>>) \o Tail(c) = e \o (<<Head(c)>> \o Tail(c))
    BY <2>1, ConcatAssociative
  <2>. QED  BY <2>3, <2>4, <2>5
<1>. QED  BY <1>2, <1>3, <1>4

\* What is in the worker's hand.
LEMMA HandType ==
  ASSUME WInv
  PROVE  /\ InHand \in Seq(Values)
         /\ cpc = "delete" => InHand = <<out>> /\ out \in Values
         /\ cpc # "delete" /\ wpc = "payload" => InHand = <<queued>> /\ queued \in Values
         /\ cpc # "delete" /\ wpc # "payload" => InHand = << >>
<1>1. CASE cpc = "delete"
  <2>1. wpc # "payload" /\ out \in Values
    BY <1>1 DEF WInv, WorkerInv, QueueInv, ValuesPresent
  <2>. QED  BY <1>1, <2>1 DEF InHand
<1>2. CASE cpc # "delete" /\ wpc = "payload"
  <2>1. queued \in Values
    BY <1>2 DEF WInv, WorkerInv
  <2>. QED  BY <1>2, <2>1 DEF InHand
<1>3. CASE cpc # "delete" /\ wpc # "payload"
  BY <1>3 DEF InHand
<1>. QED  BY <1>1, <1>2, <1>3

LEMMA WorkerTypes ==
  ASSUME WInv, QueueInv', [WNext]_vars
  PROVE  WTypeOK'
<1>0. TypeOK' /\ WTypeOK /\ out \in Values \cup {None}
  BY DEF QueueInv, NoUseAfterFree, WInv, ExecutedInOrder, WTypeOK, TypeOK
<1>. USE DEF WTypeOK
<1>1. ASSUME NEW p \in Producers, NEW v \in Values, Add(p, v) PROVE WTypeOK'
  BY <1>0, <1>1 DEF Add, workerVars
<1>2. ASSUME NEW p \in Producers, AddExchange(p) PROVE WTypeOK'
  <2>1. value[new_node[p]] \in Values
    BY <1>2, ExchangeContent DEF AddExchange, WInv
  <2>. QED  BY <1>0, <1>2, <2>1 DEF AddExchange, workerVars
<1>3. ASSUME NEW p \in Producers, AddLink(p) PROVE WTypeOK'
  BY <1>0, <1>3 DEF AddLink, workerVars
<1>4. ASSUME NEW p \in Producers, AddRaise(p) PROVE WTypeOK'
  BY <1>0, <1>4 DEF AddRaise, workerVars
<1>5. ASSUME NEW p \in Producers, AddNotify(p) PROVE WTypeOK'
  BY <1>0, <1>5 DEF AddNotify, Wake
<1>6. ASSUME CheckStop PROVE WTypeOK'
  BY <1>0, <1>6 DEF CheckStop, workerOnly
<1>7. ASSUME DrainTry \/ DrainGot \/ DrainEmpty PROVE WTypeOK'
  BY <1>0, <1>7 DEF DrainTry, DrainGot, DrainEmpty, workerVars, workerOnly
<1>8. ASSUME Payload PROVE WTypeOK'
  <2>1. queued \in Values
    BY <1>8 DEF Payload, WInv, WorkerInv
  <2>. QED  BY <1>0, <1>8, <2>1 DEF Payload, workerOnly
<1>9. ASSUME Lower \/ Wait PROVE WTypeOK'
  BY <1>0, <1>9 DEF Lower, Wait, workerOnly
<1>10. ASSUME StopRaise \/ StopNotify \/ Join \/ RequestStop PROVE WTypeOK'
  BY <1>0, <1>10 DEF StopRaise, StopNotify, Join, RequestStop, Wake, workerVars
<1>11. ASSUME DestroyWorker PROVE WTypeOK'
  BY <1>0, <1>11 DEF DestroyWorker, workerVars
<1>12. ASSUME UNCHANGED vars PROVE WTypeOK'
  BY <1>0, <1>12 DEF vars
<1>. QED  BY <1>1, <1>2, <1>3, <1>4, <1>5, <1>6, <1>7, <1>8, <1>9, <1>10, <1>11, <1>12
          DEF WNext, AddStep, WorkerStep, StopStep

LEMMA WorkerPlaces ==
  ASSUME WInv, QueueInv', [WNext]_vars
  PROVE  WorkerInv'
<1>. USE DEF WInv, WorkerInv
<1>1. ASSUME NEW p \in Producers, AddStep(p) \/ \E v \in Values : Add(p, v) PROVE WorkerInv'
  <2>1. cpc' = cpc /\ UNCHANGED <<queued, spc>>
    BY <1>1 DEF AddStep, AddExchange, AddLink, AddRaise, AddNotify, Add, Exchange, Link, EnqueueReturns,
                Enqueue, consumerVars, queueVars, workerVars
  <2>2. wpc' = wpc \/ (wpc = "blocked" /\ wpc' = "wait")
    <3>1. ASSUME AddNotify(p) PROVE wpc' = wpc \/ (wpc = "blocked" /\ wpc' = "wait")
      BY <3>1 DEF AddNotify, Wake
    <3>2. ASSUME ~AddNotify(p) PROVE wpc' = wpc
      BY <1>1, <3>2 DEF AddStep, AddExchange, AddLink, AddRaise, Add, workerVars
    <3>. QED  BY <3>1, <3>2
  <2>. QED  BY <2>1, <2>2
<1>2. ASSUME CheckStop \/ Lower \/ Wait PROVE WorkerInv'
  BY <1>2 DEF CheckStop, Lower, Wait, workerOnly, queueVars
<1>3. ASSUME DrainTry PROVE WorkerInv'
  BY <1>3 DEF DrainTry, TryDequeue, Take, workerVars, workerOnly
<1>4. ASSUME DrainGot PROVE WorkerInv'
  <2>1. out \in Values
    BY <1>4 DEF DrainGot, Delete, QueueInv, ValuesPresent
  <2>. QED  BY <1>4, <2>1 DEF DrainGot, Delete, ReturnTrue, workerOnly
<1>5. ASSUME Payload PROVE WorkerInv'
  BY <1>5 DEF Payload, workerOnly, queueVars
<1>6. ASSUME DrainEmpty PROVE WorkerInv'
  BY <1>6 DEF DrainEmpty, ReturnFalse, workerOnly
<1>7. ASSUME StopRaise \/ StopNotify \/ Join \/ RequestStop PROVE WorkerInv'
  BY <1>7 DEF StopRaise, StopNotify, Join, RequestStop, Wake, workerVars, queueVars
<1>8. ASSUME DestroyWorker PROVE WorkerInv'
  BY <1>8 DEF DestroyWorker, Destroy, DestroyNode, workerVars
<1>9. ASSUME UNCHANGED vars PROVE WorkerInv'
  BY <1>9 DEF vars, queueVars
<1>. QED  BY <1>1, <1>2, <1>3, <1>4, <1>5, <1>6, <1>7, <1>8, <1>9 DEF WNext, WorkerStep, StopStep

\* The items added are those executed, the one in hand and those in the queue.
InOrder == cpc \notin {"destroy", "destroyed"} => added = executed \o InHand \o Content

LEMMA WorkerOrder ==
  ASSUME WInv, [WNext]_vars
  PROVE  InOrder'
<1>. SUFFICES ASSUME cpc' \notin {"destroy", "destroyed"}
              PROVE  added' = executed' \o InHand' \o Content'
  BY DEF InOrder
<1>0. InOrder /\ executed \in Seq(Values) /\ QueueInv
  BY DEF WInv, ExecutedInOrder, InOrder, Content, WTypeOK
<1>1. ASSUME NEW p \in Producers, NEW v \in Values, Add(p, v) PROVE added' = executed' \o InHand' \o Content'
  <2>1. Content' = Content
    BY <1>0, <1>1, EnqueueContent DEF Add
  <2>2. UNCHANGED <<cpc, out, wpc, queued, executed, added>>
    BY <1>1 DEF Add, Enqueue, consumerVars, workerVars
  <2>. QED  BY <1>0, <2>1, <2>2 DEF InOrder, InHand
<1>2. ASSUME NEW p \in Producers, AddExchange(p) PROVE added' = executed' \o InHand' \o Content'
  <2>1. PICK v \in Values : v = value[new_node[p]] /\ Content' = Append(Content, v)
    BY <1>0, <1>2, ExchangeContent DEF AddExchange
  <2>2. UNCHANGED <<cpc, out, wpc, queued, executed>> /\ added' = Append(added, v)
    BY <1>2, <2>1 DEF AddExchange, Exchange, consumerVars, workerVars
  <2>3. InHand' = InHand /\ InHand \in Seq(Values) /\ Content \in Seq(Values)
    BY <1>0, <2>2, HandType, ContentType DEF InHand
  <2>4. added = executed \o InHand \o Content
    BY <1>0, <2>2 DEF InOrder
  <2>. QED  BY <1>0, <2>1, <2>2, <2>3, <2>4, Concats
<1>3. ASSUME NEW p \in Producers, AddLink(p) \/ AddRaise(p) \/ AddNotify(p)
      PROVE  added' = executed' \o InHand' \o Content'
  <2>1. UNCHANGED <<cpc, out, chain, value, queued, executed, added>>
    BY <1>3 DEF AddLink, AddRaise, AddNotify, Link, EnqueueReturns, consumerVars, queueVars, workerVars
  <2>2. wpc' = wpc \/ (wpc = "blocked" /\ wpc' = "wait")
    <3>1. ASSUME AddNotify(p) PROVE wpc' = wpc \/ (wpc = "blocked" /\ wpc' = "wait")
      BY <3>1 DEF AddNotify, Wake
    <3>2. ASSUME AddLink(p) \/ AddRaise(p) PROVE wpc' = wpc
      BY <3>2 DEF AddLink, AddRaise, workerVars
    <3>. QED  BY <1>3, <3>1, <3>2
  <2>. QED  BY <1>0, <2>1, <2>2 DEF InOrder, InHand, Content
<1>4. ASSUME CheckStop \/ Lower \/ Wait \/ StopRaise \/ StopNotify \/ Join \/ RequestStop
      PROVE  added' = executed' \o InHand' \o Content'
  <2>1. UNCHANGED <<cpc, out, chain, value, queued, executed, added>>
    BY <1>4 DEF CheckStop, Lower, Wait, StopRaise, StopNotify, Join, RequestStop, workerOnly, queueVars, workerVars
  <2>2. wpc' = wpc \/ (wpc # "payload" /\ wpc' # "payload")
    <3>1. ASSUME CheckStop \/ Lower \/ Wait PROVE wpc # "payload" /\ wpc' # "payload"
      BY <3>1 DEF CheckStop, Lower, Wait
    <3>2. ASSUME StopNotify PROVE wpc' = wpc \/ (wpc # "payload" /\ wpc' # "payload")
      BY <3>2 DEF StopNotify, Wake
    <3>3. ASSUME StopRaise \/ Join \/ RequestStop PROVE wpc' = wpc
      BY <3>3 DEF StopRaise, Join, RequestStop, workerVars
    <3>. QED  BY <1>4, <3>1, <3>2, <3>3
  <2>. QED  BY <1>0, <2>1, <2>2 DEF InOrder, InHand, Content
<1>5. ASSUME wpc = "drain", TryDequeue \/ ReturnFalse, wpc' \in {"drain", "lower"}, UNCHANGED <<executed, added>>
      PROVE  added' = executed' \o InHand' \o Content'
  <2>1. UNCHANGED <<out, chain, value>> /\ cpc # "delete" /\ cpc' # "delete" /\ cpc \notin {"destroy", "destroyed"}
    BY <1>5 DEF TryDequeue, ReturnFalse
  <2>. QED  BY <1>0, <1>5, <2>1 DEF InOrder, InHand, Content
<1>6. ASSUME wpc = "drain", Take, UNCHANGED <<workerVars, workerOnly>>
      PROVE  added' = executed' \o InHand' \o Content'
  <2>1. Content # << >> /\ Head(Content) = out' /\ Content' = Tail(Content)
    BY <1>0, <1>6, TakeContent
  <2>2. cpc = "take" /\ cpc' = "delete" /\ wpc' = "drain" /\ UNCHANGED <<executed, added>>
    BY <1>6 DEF Take, workerVars, workerOnly
  <2>3. InHand = << >> /\ InHand' = <<Head(Content)>> /\ Content \in Seq(Values)
    BY <1>0, <1>6, <2>1, <2>2, ContentType DEF InHand
  <2>4. added = executed \o << >> \o Content
    BY <1>0, <2>2, <2>3 DEF InOrder
  <2>5. executed \o << >> \o Content = executed \o <<Head(Content)>> \o Tail(Content)
    <3>1. Head(Content) \in Values
      BY <2>1, <2>3, HeadTailProperties
    <3>. QED  BY <1>0, <2>1, <2>3, <3>1, Concats
  <2>. QED  BY <2>1, <2>2, <2>3, <2>4, <2>5
<1>7. ASSUME DrainGot PROVE added' = executed' \o InHand' \o Content'
  <2>1. /\ cpc = "delete" /\ cpc' = "idle" /\ queued' = out /\ wpc = "drain" /\ wpc' = "payload"
        /\ UNCHANGED <<executed, added, chain, value>>
    BY <1>7 DEF DrainGot, Delete, ReturnTrue, workerOnly
  <2>2. InHand = <<out>> /\ InHand' = <<out>> /\ Content' = Content
    BY <2>1 DEF InHand, Content
  <2>. QED  BY <1>0, <2>1, <2>2 DEF InOrder
<1>8. ASSUME Payload PROVE added' = executed' \o InHand' \o Content'
  <2>1. /\ wpc = "payload" /\ wpc' = "drain" /\ executed' = Append(executed, queued)
        /\ UNCHANGED <<cpc, out, added, chain, value>>
    BY <1>8 DEF Payload, workerOnly, queueVars
  <2>2. cpc # "delete" /\ queued \in Values
    BY <2>1 DEF WInv, WorkerInv
  <2>3. InHand = <<queued>> /\ InHand' = << >> /\ Content' = Content /\ Content \in Seq(Values)
    BY <1>0, <2>1, <2>2, ContentType DEF InHand, Content
  <2>4. added = executed \o <<queued>> \o Content
    BY <1>0, <2>1, <2>3 DEF InOrder
  <2>5. executed \o <<queued>> \o Content = Append(executed, queued) \o Content
    BY <1>0, <2>2, <2>3, Concats
  <2>6. Append(executed, queued) \o << >> = Append(executed, queued)
    BY <1>0, <2>2, AppendProperties, ConcatEmptySeq
  <2>. QED  BY <2>1, <2>3, <2>4, <2>5, <2>6, Zenon
<1>9. ASSUME DestroyWorker PROVE FALSE
  BY <1>9 DEF DestroyWorker, Destroy, DestroyNode
<1>10. ASSUME UNCHANGED vars PROVE added' = executed' \o InHand' \o Content'
  BY <1>0, <1>10 DEF vars, queueVars, InOrder, InHand, Content
<1>11. ASSUME DrainTry \/ DrainEmpty PROVE added' = executed' \o InHand' \o Content'
  BY <1>5, <1>6, <1>11 DEF DrainTry, DrainEmpty, workerVars, workerOnly
<1>. QED  BY <1>1, <1>2, <1>3, <1>4, <1>7, <1>8, <1>9, <1>10, <1>11
          DEF WNext, AddStep, WorkerStep, StopStep

LEMMA WorkerStepKeeps == WInv /\ [WNext]_vars => WInv'
<1>. SUFFICES ASSUME WInv, [WNext]_vars PROVE WInv'
  OBVIOUS
<1>1. QueueInv'
  BY WorkerUsesQueue, QueueStep DEF WInv
<1>2. WTypeOK' /\ WorkerInv'
  BY <1>1, WorkerTypes, WorkerPlaces
<1>3. InOrder'
  BY WorkerOrder
<1>. QED  BY <1>1, <1>2, <1>3 DEF WInv, ExecutedInOrder, InOrder, Content

LEMMA WorkerInvariant == WSpec => []WInv
<1>1. WInit => WInv
  BY WorkerInit
<1>2. WInv /\ [WNext]_vars => WInv'
  BY WorkerStepKeeps
<1>. QED  BY <1>1, <1>2, PTL DEF WSpec

\* The payload gets every item once, in the order of the adds: what was added
\* is what was executed, then the item in the worker's hand, then the queue.
THEOREM WorkIsDoneInOrder == WSpec => []ExecutedInOrder
<1>1. WInv => ExecutedInOrder
  BY DEF WInv
<1>. QED  BY <1>1, WorkerInvariant, PTL

\* After stop has returned the worker does not move and the payload is not
\* called, whatever producers add.
THEOREM StopEndsTheWorker == WSpec => StopIsFinal
<1>1. WInv /\ [WNext]_vars => [spc = "stopped" => executed' = executed /\ wpc' = wpc]_vars
  <2>. SUFFICES ASSUME WInv, WNext, spc = "stopped" PROVE executed' = executed /\ wpc' = wpc
    OBVIOUS
  <2>1. wpc = "done"
    BY DEF WInv, WorkerInv
  <2>. QED  BY <2>1 DEF WNext, AddStep, AddExchange, AddLink, AddRaise, AddNotify, Wake, Add, WorkerStep, CheckStop,
                        DrainTry, DrainGot, Payload, DrainEmpty, Lower, Wait, StopStep, StopRaise, StopNotify, Join,
                        RequestStop, DestroyWorker, workerVars
<1>. QED  BY <1>1, WorkerInvariant, PTL DEF WSpec, StopIsFinal

=============================================================================
