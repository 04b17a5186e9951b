----------------------------- MODULE SutterQueue -----------------------------
(***************************************************************************)
(* sutter_queue: a list from m_first to m_last, divided at m_divider: the  *)
(* consumer has passed everything up to it and the producer deletes what   *)
(* lies before it.  Both m_divider and m_last are shared.                  *)
(***************************************************************************)
EXTENDS Naturals, Sequences, FiniteSets

CONSTANTS Values, None,
          Nodes, Null      \* addresses; nullptr

VARIABLES m_first, m_divider, m_last, next, value,
          allocated,       \* nodes between new and delete
          pc, div,         \* of the producer
          cpc, out,        \* of the consumer: its step and item
          chain            \* ghost: the list from m_first on
vars == <<m_first, m_divider, m_last, next, value, allocated, pc, div, cpc, out, chain>>
consumerVars == <<m_divider, cpc, out>>

\* Addresses are alike, so any will do for the first node.
Init == LET dummy == CHOOSE x \in Nodes : TRUE IN
  /\ m_first = dummy /\ m_divider = dummy /\ m_last = dummy /\ chain = <<dummy>>
  /\ allocated = {dummy}
  /\ next = [x \in Nodes |-> Null] /\ value = [x \in Nodes |-> None]
  /\ pc = "idle" /\ div = Null /\ cpc = "idle" /\ out = None

-----------------------------------------------------------------------------
(* enqueue, produce_impl *)

Enqueue(v) == /\ pc = "idle" /\ cpc \notin {"destroy", "destroyed"}
              /\ \E x \in Nodes \ allocated :
                   /\ allocated' = allocated \cup {x}
                   /\ value' = [value EXCEPT ![x] = v]
                   /\ next' = [next EXCEPT ![x] = Null, ![m_last] = x]
                   /\ chain' = Append(chain, x)
              /\ pc' = "publish"
              /\ UNCHANGED <<m_first, m_last, div, consumerVars>>

Publish == /\ pc = "publish" /\ pc' = "load"
           /\ m_last' = next[m_last]
           /\ UNCHANGED <<m_first, next, value, allocated, div, consumerVars, chain>>

LoadDivider_TooFar == /\ pc = "load" /\ pc' = "trim"
                      /\ div' = m_last
                      /\ UNCHANGED <<m_first, m_last, next, value, allocated, consumerVars, chain>>
LoadDivider == /\ pc = "load" /\ pc' = "trim"
               /\ div' = m_divider
               /\ UNCHANGED <<m_first, m_last, next, value, allocated, consumerVars, chain>>

\* One round of the loop, or its end.
Trim == /\ pc = "trim"
        /\ \/ /\ m_first # div
              /\ m_first' = next[m_first]
              /\ allocated' = allocated \ {m_first}
              /\ next' = [next EXCEPT ![m_first] = Null]
              /\ value' = [value EXCEPT ![m_first] = None]
              /\ chain' = Tail(chain)
              /\ pc' = "load" /\ UNCHANGED div
           \/ /\ m_first = div
              /\ pc' = "idle" /\ div' = Null
              /\ UNCHANGED <<m_first, next, value, allocated, chain>>
        /\ UNCHANGED <<m_last, consumerVars>>

-----------------------------------------------------------------------------
(* dequeue *)

Dequeue == /\ cpc = "idle" /\ m_divider # m_last
           /\ cpc' = "move"
           /\ UNCHANGED <<m_first, m_divider, m_last, next, value, allocated, pc, div, out, chain>>

Move_Divider == /\ cpc = "move" /\ cpc' = "store"
                /\ out' = value[m_divider]
                /\ value' = [value EXCEPT ![m_divider] = None]
                /\ UNCHANGED <<m_first, m_divider, m_last, next, allocated, pc, div, chain>>
Move == /\ cpc = "move" /\ cpc' = "store"
        /\ out' = value[next[m_divider]]
        /\ value' = [value EXCEPT ![next[m_divider]] = None]
        /\ UNCHANGED <<m_first, m_divider, m_last, next, allocated, pc, div, chain>>

StoreDivider == /\ cpc = "store" /\ cpc' = "idle"
                /\ m_divider' = next[m_divider] /\ out' = None
                /\ UNCHANGED <<m_first, m_last, next, value, allocated, pc, div, chain>>

-----------------------------------------------------------------------------
(* ~sutter_queue: runs when no call is in progress *)

Destroy == /\ pc = "idle" /\ cpc = "idle" /\ cpc' = "destroy"
           /\ UNCHANGED <<m_first, m_divider, m_last, next, value, allocated, pc, div, out, chain>>

DestroyNode == /\ cpc = "destroy"
               /\ allocated' = allocated \ {m_first}
               /\ m_first' = next[m_first] /\ chain' = Tail(chain)
               /\ cpc' = IF m_first' = Null THEN "destroyed" ELSE "destroy"
               /\ UNCHANGED <<m_divider, m_last, next, value, pc, div, out>>

Next == \/ Publish \/ LoadDivider \/ Trim \/ Dequeue \/ Move \/ StoreDivider
        \/ Destroy \/ DestroyNode
        \/ \E v \in Values : Enqueue(v)
Spec == Init /\ [][Next]_vars

-----------------------------------------------------------------------------
TypeOK == /\ m_first \in Nodes \cup {Null} /\ {m_divider, m_last} \subseteq Nodes
          /\ next \in [Nodes -> Nodes \cup {Null}]
          /\ value \in [Nodes -> Values \cup {None}]
          /\ allocated \in SUBSET Nodes
          /\ pc \in {"idle", "publish", "load", "trim"} /\ div \in Nodes \cup {Null}
          /\ cpc \in {"idle", "move", "store", "destroy", "destroyed"}

ChainNodes == {chain[i] : i \in 1..Len(chain)}
At(x) == CHOOSE i \in 1..Len(chain) : chain[i] = x

\* The producer deletes only nodes before the divider, however far the
\* consumer has moved since div was loaded, and nothing else is ever deleted
\* or left: the consumer's node and the one after it are in the list.
NoUseAfterFree ==
  /\ TypeOK /\ allocated = ChainNodes
  /\ cpc \notin {"destroy", "destroyed"} =>
       /\ {m_first, m_divider, m_last} \subseteq ChainNodes
       /\ Cardinality(ChainNodes) = Len(chain)
       /\ \A i \in 1..Len(chain) : next[chain[i]] = IF i = Len(chain) THEN Null ELSE chain[i + 1]
       /\ At(m_first) = 1 /\ At(m_divider) <= At(m_last)
       /\ At(m_last) = Len(chain) - (IF pc = "publish" THEN 1 ELSE 0)
       /\ pc = "trim" => div \in ChainNodes /\ At(div) <= At(m_divider)
       /\ cpc \in {"move", "store"} => At(m_divider) < At(m_last)

F == INSTANCE Fifo WITH
       Threads <- {"consumer"}, Capacity <- Cardinality(Nodes),
       queue   <- LET first == At(m_divider) + IF cpc = "store" THEN 1 ELSE 0
                  IN  [i \in 1..(At(m_last) - first) |-> value[chain[first + i]]],
       taken   <- [t \in {"consumer"} |-> IF cpc = "store" THEN out ELSE None]

\* The queue is a FIFO whose items appear with the store to m_last; the
\* destructor ends it.
ImplementsFifo == F!Init /\ [][cpc' \in {"destroy", "destroyed"} \/ F!Next]_(F!vars)
=============================================================================
