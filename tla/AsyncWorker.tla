---------------------------- MODULE AsyncWorker -----------------------------
(***************************************************************************)
(* async_worker: producers add items to an mpsc_queue and raise            *)
(* m_work_added; one thread drains the queue into the payload, lowers      *)
(* m_work_added and waits until it is raised; stop asks the thread to end  *)
(* and joins it.  The queue is MpscQueue, step by step.  The worker is its *)
(* consumer, so its cpc tells where try_dequeue is.                        *)
(***************************************************************************)
EXTENDS MpscQueue

CONSTANT MaxAdds    \* bound on the calls of add

ASSUME MaxAddsAssumption == MaxAdds \in Nat

VARIABLES m_work_added,
          apc,             \* of each producer: where add is
          wpc, queued,     \* of the worker: where run is, and the item for the payload
          stop_requested,  \* the stop state shared by m_thread_impl and its token
          spc,             \* where stop is
          added, executed  \* ghost: items in the order of the exchanges, and of the payload calls
workerVars == <<wpc, queued, executed>>
vars == <<queueVars, m_work_added, apc, wpc, queued, stop_requested, spc, added, executed>>

WInit == /\ Init
         /\ m_work_added = FALSE /\ stop_requested = FALSE
         /\ apc = [p \in Producers |-> "idle"]
         /\ wpc = "check" /\ queued = None
         /\ spc = "idle"
         /\ added = << >> /\ executed = << >>

-----------------------------------------------------------------------------
(* add: enqueue, then the flag, then notify_one *)

\* Adds begun: those exchanged and those about to be.
AddsBegun == Len(added) + Cardinality({p \in Producers : pc[p] = "exchange"})

Add(p, v) == /\ apc[p] = "idle" /\ AddsBegun < MaxAdds
             /\ Enqueue(p, v)
             /\ apc' = [apc EXCEPT ![p] = "enqueue"]
             /\ UNCHANGED <<m_work_added, workerVars, stop_requested, spc, added>>

AddExchange(p) == /\ Exchange(p)
                  /\ added' = Append(added, value[new_node[p]])
                  /\ UNCHANGED <<m_work_added, apc, workerVars, stop_requested, spc>>

AddLink(p) == /\ Link(p)
              /\ apc' = [apc EXCEPT ![p] = "raise"]
              /\ UNCHANGED <<m_work_added, workerVars, stop_requested, spc, added>>

AddRaise(p) == /\ apc[p] = "raise"
               /\ m_work_added' = TRUE
               /\ apc' = [apc EXCEPT ![p] = "notify"]
               /\ UNCHANGED <<queueVars, workerVars, stop_requested, spc, added>>

\* notify_one: a blocked worker looks at the flag again.
Wake_Nobody == UNCHANGED wpc
Wake == wpc' = IF wpc = "blocked" THEN "wait" ELSE wpc

AddNotify(p) == /\ apc[p] = "notify"
                /\ Wake
                /\ apc' = [apc EXCEPT ![p] = "idle"]
                /\ UNCHANGED <<queueVars, m_work_added, queued, executed, stop_requested, spc, added>>

-----------------------------------------------------------------------------
(* run *)

workerOnly == <<m_work_added, apc, stop_requested, spc, added>>

CheckStop == /\ wpc = "check"
             /\ wpc' = IF stop_requested THEN "done" ELSE "drain"
             /\ UNCHANGED <<queueVars, queued, executed, workerOnly>>

DrainTry == /\ wpc = "drain" /\ (TryDequeue \/ Take)
            /\ UNCHANGED <<workerVars, workerOnly>>

\* try_dequeue returns true: the item goes to the payload.
DrainGot == /\ wpc = "drain" /\ Delete
            /\ queued' = out /\ wpc' = "payload"
            /\ UNCHANGED <<executed, workerOnly>>

Payload_Twice == /\ wpc = "payload"
                 /\ executed' = Append(executed, queued)
                 /\ wpc' \in {"payload", "drain"}
                 /\ UNCHANGED <<queueVars, queued, workerOnly>>

Payload == /\ wpc = "payload"
           /\ executed' = Append(executed, queued)
           /\ queued' = None /\ wpc' = "drain"
           /\ UNCHANGED <<queueVars, workerOnly>>

DrainEmpty == /\ wpc = "drain" /\ ReturnFalse
              /\ wpc' = "lower"
              /\ UNCHANGED <<queued, executed, workerOnly>>

Lower == /\ wpc = "lower"
         /\ m_work_added' = FALSE
         /\ wpc' = "wait"
         /\ UNCHANGED <<queueVars, queued, executed, apc, stop_requested, spc, added>>

\* m_work_added.wait(false) returns if the flag is up, else blocks; checking
\* and blocking are one step, as a notify in between would be seen.
Wait == /\ wpc = "wait"
        /\ wpc' = IF m_work_added THEN "check" ELSE "blocked"
        /\ UNCHANGED <<queueVars, queued, executed, workerOnly>>

-----------------------------------------------------------------------------
(* stop *)

\* Calling stop again is allowed: there is no thread to ask or to join then.
RequestStop == /\ spc \in {"idle", "stopped"} /\ cpc \notin {"destroy", "destroyed"}
               /\ stop_requested' = TRUE /\ spc' = "raise"
               /\ UNCHANGED <<queueVars, m_work_added, apc, workerVars, added>>

StopRaise == /\ spc = "raise"
             /\ m_work_added' = TRUE /\ spc' = "notify"
             /\ UNCHANGED <<queueVars, apc, workerVars, stop_requested, added>>

StopNotify == /\ spc = "notify"
              /\ Wake /\ spc' = "join"
              /\ UNCHANGED <<queueVars, m_work_added, apc, queued, executed, stop_requested, added>>

Join_Detaches == /\ spc = "join" /\ spc' = "stopped"
                 /\ UNCHANGED <<queueVars, m_work_added, apc, workerVars, stop_requested, added>>

\* m_thread_impl = {} joins the thread, if it still has one.
Join == /\ spc = "join" /\ wpc = "done"
        /\ spc' = "stopped"
        /\ UNCHANGED <<queueVars, m_work_added, apc, workerVars, stop_requested, added>>

(* ~async_worker of a worker that was stopped: its queue is destroyed *)

DestroyWorker == /\ spc = "stopped" /\ \A p \in Producers : apc[p] = "idle"
                 /\ (Destroy \/ DestroyNode)
                 /\ UNCHANGED <<m_work_added, apc, workerVars, stop_requested, spc, added>>

-----------------------------------------------------------------------------
AddStep(p) == AddExchange(p) \/ AddLink(p) \/ AddRaise(p) \/ AddNotify(p)
WorkerStep == \/ CheckStop \/ DrainTry \/ DrainGot \/ Payload
              \/ DrainEmpty \/ Lower \/ Wait
StopStep   == StopRaise \/ StopNotify \/ Join

WNext == \/ \E p \in Producers : AddStep(p) \/ \E v \in Values : Add(p, v)
         \/ WorkerStep \/ StopStep \/ RequestStop \/ DestroyWorker
WSpec == WInit /\ [][WNext]_vars

\* Threads inside a call, and the worker thread, are scheduled again.
WFairSpec == /\ WSpec /\ WF_vars(WorkerStep) /\ WF_vars(StopStep)
             /\ \A p \in Producers : WF_vars(AddStep(p))

-----------------------------------------------------------------------------
WTypeOK == /\ TypeOK
           /\ m_work_added \in BOOLEAN /\ stop_requested \in BOOLEAN
           /\ apc \in [Producers -> {"idle", "enqueue", "raise", "notify"}]
           /\ wpc \in {"check", "drain", "payload", "lower", "wait", "blocked", "done"}
           /\ queued \in Values \cup {None}
           /\ spc \in {"idle", "raise", "notify", "join", "stopped"}
           /\ added \in Seq(Values) /\ executed \in Seq(Values)

\* Items that left the queue and did not reach the payload.
InHand == (IF cpc = "delete" THEN <<out>> ELSE << >>) \o (IF wpc = "payload" THEN <<queued>> ELSE << >>)

\* Every item is executed at most once, in the order of the adds, and those
\* not executed are in the worker's hand or still in the queue.
ExecutedInOrder == WTypeOK /\ (cpc \notin {"destroy", "destroyed"} =>
  added = executed \o InHand \o [i \in 1..(Len(chain) - 1) |-> value[chain[i + 1]]])

\* Once stop has returned the payload is never called again.
StopIsFinal == [][spc = "stopped" => executed' = executed /\ wpc' = wpc]_vars

\* When the flag is raised for a blocked worker, the worker executes all that
\* is in the queue by then, items whose own notification was lost included.
RaisedFlagDrains == \A n \in 1..MaxAdds :
  (wpc = "blocked" /\ m_work_added /\ Len(added) >= n /\ \A p \in Producers : ~Linking(p))
    ~> (Len(executed) >= n \/ stop_requested)

\* "all_processed": every item that was added is executed, unless stop was
\* asked for.
AddedIsExecuted == \A n \in 1..MaxAdds :
  Len(added) >= n ~> (Len(executed) >= n \/ stop_requested)
=============================================================================
