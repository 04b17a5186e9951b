----------------------------- MODULE ThreadPool -----------------------------
(***************************************************************************)
(* thread_pool: add_work hands a job to a free thread or queues it; a      *)
(* thread that finishes a job takes the next queued one or returns itself  *)
(* to m_free_threads; destroy waits until all threads are free and joins   *)
(* them one by one.  What m_queue_guard protects happens in one step, as   *)
(* Spinlock shows it may, except that destroy keeps the guard while it     *)
(* joins.  A job stands for the work_wrapper that carries it.              *)
(* m_work_wrapper_pool is an mpmc_bounded_queue: a call claims a position  *)
(* or fails in one step, as MpmcBoundedQueue shows it may, and passes the  *)
(* cell of that position on in a later one.                                *)
(***************************************************************************)
EXTENDS Naturals, Sequences, FiniteSets

CONSTANTS Callers,        \* threads that call add_work
          NumThreads,     \* threads of the pool
          PoolSize,       \* capacity of m_work_wrapper_pool (1024)
          MaxWork,        \* bound on the calls of add_work that are accepted
          MaxAtDestroy,   \* bound on those accepted when destroy is called
          None

ASSUME PoolAssumption == /\ NumThreads \in Nat /\ PoolSize \in Nat \ {0} /\ MaxWork \in Nat
                         /\ None \notin Nat

Threads == 1..NumThreads    \* in the order of construction
Jobs    == 1..MaxWork

VARIABLES m_queued_work, m_free_threads, m_time_to_die,
          enqueue_pos, dequeue_pos,      \* of m_work_wrapper_pool
          held,                          \* of each caller: position claimed, cell not yet released
          filling,                       \* of each thread: position claimed, cell not yet published
          guard,                         \* destroy holds m_queue_guard
          slot, die,                     \* of each thread: m_queued_work, m_time_to_die
          tpc, current_work,             \* of each thread
          cpc, work, thread,             \* of each caller
          dpc, deleting, deleted,        \* of destroy: step, thread being deleted, threads deleted
          jobs, executed,                \* ghost: jobs accepted, times each ran
          created,                       \* ghost: wrappers made by new
          overlapped                     \* ghost: destroy was called during an add_work
poolVars    == <<m_queued_work, m_free_threads, m_time_to_die, guard>>
wrapperVars == <<enqueue_pos, dequeue_pos, held, filling>>
threadVars  == <<slot, die, tpc, current_work>>
callerVars  == <<cpc, work, thread, jobs>>
destroyVars == <<dpc, deleting, deleted>>
ghostVars   == <<executed, created, overlapped>>
vars == <<poolVars, wrapperVars, threadVars, callerVars, destroyVars, ghostVars>>

AllThreads == Threads \ deleted    \* m_all_threads

Init == /\ m_queued_work = << >> /\ m_free_threads = [i \in Threads |-> i]
        /\ m_time_to_die = FALSE /\ guard = FALSE
        /\ enqueue_pos = 0 /\ dequeue_pos = 0
        /\ held = [c \in Callers |-> None] /\ filling = [t \in Threads |-> None]
        /\ slot = [t \in Threads |-> None] /\ die = [t \in Threads |-> FALSE]
        /\ tpc = [t \in Threads |-> "check"] /\ current_work = [t \in Threads |-> None]
        /\ cpc = [c \in Callers |-> "idle"] /\ work = [c \in Callers |-> None]
        /\ thread = [c \in Callers |-> None] /\ jobs = 0
        /\ dpc = "idle" /\ deleting = 1 /\ deleted = {}
        /\ executed = [j \in Jobs |-> 0] /\ created = 0
        /\ overlapped = FALSE

-----------------------------------------------------------------------------
(* synchronization_event: a condition variable without a condition *)

\* set wakes a waiting thread, and is lost if none waits.
Woken(t, pcs) == IF pcs[t] = "waiting" THEN [pcs EXCEPT ![t] = "check"] ELSE pcs

SpuriousWakeup(t) == /\ tpc[t] = "waiting"
                     /\ tpc' = Woken(t, tpc)
                     /\ UNCHANGED <<poolVars, wrapperVars, slot, die, current_work, callerVars, destroyVars, ghostVars>>

-----------------------------------------------------------------------------
(* add_work *)

AddWork(c) == /\ cpc[c] = "idle" /\ jobs < MaxWork
              /\ ~m_time_to_die
              /\ jobs' = jobs + 1
              /\ work' = [work EXCEPT ![c] = jobs + 1]
              /\ cpc' = [cpc EXCEPT ![c] = "wrapper"]
              /\ UNCHANGED <<poolVars, wrapperVars, threadVars, thread, destroyVars, ghostVars>>

\* try_dequeue of the wrapper pool finds the first position filled and claims
\* it; otherwise, be it that its wrapper is still on the way, a new one is made.
Available == dequeue_pos < enqueue_pos /\ \A t \in Threads : filling[t] # dequeue_pos
AfterTake_Stays(pos) == pos
AfterTake(pos) == pos + 1
GetWrapper(c) ==
  /\ cpc[c] = "wrapper"
  /\ \/ /\ Available
        /\ dequeue_pos' = AfterTake(dequeue_pos) /\ held' = [held EXCEPT ![c] = dequeue_pos]
        /\ cpc' = [cpc EXCEPT ![c] = "release"] /\ UNCHANGED created
     \/ /\ ~Available
        /\ created' = created + 1 /\ cpc' = [cpc EXCEPT ![c] = "dispatch"]
        /\ UNCHANGED <<dequeue_pos, held>>
  /\ UNCHANGED <<poolVars, enqueue_pos, filling, threadVars, work, thread, jobs, destroyVars,
                 executed, overlapped>>

\* The wrapper is out of the cell, which is free for the next lap.
ReleaseCell(c) == /\ cpc[c] = "release"
                  /\ held' = [held EXCEPT ![c] = None]
                  /\ cpc' = [cpc EXCEPT ![c] = "dispatch"]
                  /\ UNCHANGED <<poolVars, enqueue_pos, dequeue_pos, filling, threadVars,
                                 work, thread, jobs, destroyVars, ghostVars>>

Last(s) == s[Len(s)]
AllButLast(s) == SubSeq(s, 1, Len(s) - 1)

Dispatch(c) ==
  /\ cpc[c] = "dispatch" /\ ~guard
  /\ IF m_free_threads = << >>
       THEN /\ m_queued_work' = Append(m_queued_work, work[c])
            /\ work' = [work EXCEPT ![c] = None]
            /\ cpc' = [cpc EXCEPT ![c] = "idle"]
            /\ UNCHANGED <<m_free_threads, thread>>
       ELSE /\ thread' = [thread EXCEPT ![c] = Last(m_free_threads)]
            /\ m_free_threads' = AllButLast(m_free_threads)
            /\ cpc' = [cpc EXCEPT ![c] = "perform"]
            /\ UNCHANGED <<m_queued_work, work>>
  /\ UNCHANGED <<m_time_to_die, guard, wrapperVars, threadVars, jobs, destroyVars, ghostVars>>

Perform(c) == /\ cpc[c] = "perform"
              /\ slot' = [slot EXCEPT ![thread[c]] = work[c]]
              /\ work' = [work EXCEPT ![c] = None]
              /\ cpc' = [cpc EXCEPT ![c] = "set"]
              /\ UNCHANGED <<poolVars, wrapperVars, die, tpc, current_work, thread, jobs, destroyVars, ghostVars>>

PerformSet(c) == /\ cpc[c] = "set"
                 /\ tpc' = Woken(thread[c], tpc)
                 /\ thread' = [thread EXCEPT ![c] = None]
                 /\ cpc' = [cpc EXCEPT ![c] = "idle"]
                 /\ UNCHANGED <<poolVars, wrapperVars, slot, die, current_work, work, jobs, destroyVars, ghostVars>>

-----------------------------------------------------------------------------
(* queued_thread::run *)

GoTo(t, step) == tpc' = [tpc EXCEPT ![t] = step]

CheckDie(t) == /\ tpc[t] = "check"
               /\ GoTo(t, IF die[t] THEN "exited" ELSE "load")
               /\ UNCHANGED <<poolVars, wrapperVars, slot, die, current_work, callerVars, destroyVars, ghostVars>>

LoadWork(t) == /\ tpc[t] = "load"
               /\ current_work' = [current_work EXCEPT ![t] = slot[t]]
               /\ GoTo(t, "clear")
               /\ UNCHANGED <<poolVars, wrapperVars, slot, die, callerVars, destroyVars, ghostVars>>

\* The slot is cleared by a second operation, whatever it holds by then.
ClearWork(t) == /\ tpc[t] = "clear"
                /\ slot' = [slot EXCEPT ![t] = None]
                /\ GoTo(t, IF current_work[t] = None THEN "wait" ELSE "run")
                /\ UNCHANGED <<poolVars, wrapperVars, die, current_work, callerVars, destroyVars, ghostVars>>

Run(t) == /\ tpc[t] = "run"
          /\ executed' = [executed EXCEPT ![current_work[t]] = @ + 1]
          /\ GoTo(t, "return_wrapper")
          /\ UNCHANGED <<poolVars, wrapperVars, slot, die, current_work, callerVars, destroyVars,
                         created, overlapped>>

\* return_wrapper_to_pool: try_enqueue fails if the cell of its position has
\* not been claimed or not been released since the lap before.
Room == /\ enqueue_pos < dequeue_pos + PoolSize
        /\ \A c \in Callers : held[c] # None => held[c] + PoolSize # enqueue_pos
ReturnWrapper(t) ==
  /\ tpc[t] = "return_wrapper"
  /\ \/ /\ Room
        /\ enqueue_pos' = enqueue_pos + 1 /\ filling' = [filling EXCEPT ![t] = enqueue_pos]
        /\ GoTo(t, "publish")
     \/ /\ ~Room
        /\ GoTo(t, "return_or_get") /\ UNCHANGED <<enqueue_pos, filling>>
  /\ current_work' = [current_work EXCEPT ![t] = None]
  /\ UNCHANGED <<poolVars, dequeue_pos, held, slot, die, callerVars, destroyVars,
                 executed, created, overlapped>>

\* The wrapper is in its cell.
PublishWrapper(t) == /\ tpc[t] = "publish"
                     /\ filling' = [filling EXCEPT ![t] = None]
                     /\ GoTo(t, "return_or_get")
                     /\ UNCHANGED <<poolVars, enqueue_pos, dequeue_pos, held, slot, die, current_work,
                                    callerVars, destroyVars, ghostVars>>

BecomeFree(t) == /\ m_free_threads' = Append(m_free_threads, t)
                 /\ GoTo(t, "wait")
                 /\ UNCHANGED <<m_queued_work, current_work>>

TakeQueued_NoPop(t) == /\ current_work' = [current_work EXCEPT ![t] = Head(m_queued_work)]
                       /\ GoTo(t, "run")
                       /\ UNCHANGED <<m_queued_work, m_free_threads>>
TakeQueued_StaysFree(t) == /\ current_work' = [current_work EXCEPT ![t] = Head(m_queued_work)]
                           /\ m_queued_work' = Tail(m_queued_work)
                           /\ GoTo(t, "run")
                           /\ m_free_threads' = Append(m_free_threads, t)

TakeQueued(t) == /\ current_work' = [current_work EXCEPT ![t] = Head(m_queued_work)]
                 /\ m_queued_work' = Tail(m_queued_work)
                 /\ GoTo(t, "run")
                 /\ UNCHANGED m_free_threads

ReturnOrGet(t) ==
  /\ tpc[t] = "return_or_get" /\ ~guard
  /\ IF m_queued_work # << >> THEN TakeQueued(t) ELSE BecomeFree(t)
  /\ UNCHANGED <<m_time_to_die, guard, wrapperVars, slot, die, callerVars, destroyVars, ghostVars>>

Wait(t) == /\ tpc[t] = "wait"
           /\ GoTo(t, "waiting")
           /\ UNCHANGED <<poolVars, wrapperVars, slot, die, current_work, callerVars, destroyVars, ghostVars>>

-----------------------------------------------------------------------------
(* destroy *)

\* The destructor calls destroy again: m_all_threads is empty then.
Destroy == /\ dpc \in {"idle", "destroyed"} /\ ~guard /\ jobs <= MaxAtDestroy
           /\ overlapped' = (overlapped \/ \E c \in Callers : cpc[c] # "idle")
           /\ m_time_to_die' = TRUE /\ m_queued_work' = << >>
           /\ dpc' = "all_free"
           /\ UNCHANGED <<m_free_threads, guard, wrapperVars, threadVars, callerVars,
                          deleting, deleted, executed, created>>

\* The loop that yields until every thread is free.
AllFree_Any == /\ dpc = "all_free" /\ ~guard /\ m_free_threads # << >>
               /\ dpc' = "lock"
               /\ UNCHANGED <<poolVars, wrapperVars, threadVars, callerVars, deleting, deleted, ghostVars>>
AllFree == /\ dpc = "all_free" /\ ~guard /\ Len(m_free_threads) = Cardinality(AllThreads)
           /\ dpc' = "lock"
           /\ UNCHANGED <<poolVars, wrapperVars, threadVars, callerVars, deleting, deleted, ghostVars>>

LockGuard == /\ dpc = "lock" /\ ~guard
             /\ guard' = TRUE
             /\ dpc' = IF AllThreads = {} THEN "finish" ELSE "die"
             /\ UNCHANGED <<m_queued_work, m_free_threads, m_time_to_die, wrapperVars,
                            threadVars, callerVars, deleting, deleted, ghostVars>>

\* shutdown of one thread: the flag, the event, the join.
TellToDie == /\ dpc = "die"
             /\ die' = [die EXCEPT ![deleting] = TRUE]
             /\ dpc' = "set"
             /\ UNCHANGED <<poolVars, wrapperVars, slot, tpc, current_work, callerVars, deleting, deleted, ghostVars>>

DestroySet == /\ dpc = "set"
              /\ tpc' = Woken(deleting, tpc)
              /\ dpc' = "join"
              /\ UNCHANGED <<poolVars, wrapperVars, slot, die, current_work, callerVars, deleting, deleted, ghostVars>>

JoinDelete_Detaches == /\ dpc = "join"
                       /\ deleted' = deleted \cup {deleting}
                       /\ deleting' = deleting + 1
                       /\ dpc' = IF deleting = NumThreads THEN "finish" ELSE "die"
                       /\ UNCHANGED <<poolVars, wrapperVars, threadVars, callerVars, ghostVars>>

JoinDelete == /\ dpc = "join" /\ tpc[deleting] = "exited"
              /\ deleted' = deleted \cup {deleting}
              /\ deleting' = deleting + 1
              /\ dpc' = IF deleting = NumThreads THEN "finish" ELSE "die"
              /\ UNCHANGED <<poolVars, wrapperVars, threadVars, callerVars, ghostVars>>

\* The wrapper pool, which no thread fills any more, is drained, the lists cleared, the guard released.
Finish == /\ dpc = "finish"
          /\ dequeue_pos' = enqueue_pos /\ m_free_threads' = << >> /\ guard' = FALSE
          /\ dpc' = "destroyed"
          /\ UNCHANGED <<m_queued_work, m_time_to_die, enqueue_pos, held, filling, threadVars,
                         callerVars, deleting, deleted, ghostVars>>

-----------------------------------------------------------------------------
CallerStep(c) == GetWrapper(c) \/ ReleaseCell(c) \/ Dispatch(c) \/ Perform(c) \/ PerformSet(c)
ThreadStep(t) == \/ CheckDie(t) \/ LoadWork(t) \/ ClearWork(t) \/ Run(t)
                 \/ ReturnWrapper(t) \/ PublishWrapper(t) \/ ReturnOrGet(t) \/ Wait(t)
DestroyStep   == AllFree \/ LockGuard \/ TellToDie \/ DestroySet \/ JoinDelete \/ Finish

Next == \/ \E c \in Callers : AddWork(c) \/ CallerStep(c)
        \/ \E t \in Threads : ThreadStep(t) \/ SpuriousWakeup(t)
        \/ Destroy \/ DestroyStep
Spec == Init /\ [][Next]_vars

\* Every thread is scheduled again and every job ends.  A spurious wakeup
\* may never come.
FairSpec == /\ Spec /\ WF_vars(DestroyStep)
            /\ \A c \in Callers : WF_vars(CallerStep(c))
            /\ \A t \in Threads : WF_vars(ThreadStep(t))

-----------------------------------------------------------------------------
TypeOK ==
  /\ m_queued_work \in Seq(Jobs) /\ m_free_threads \in Seq(Threads)
  /\ m_time_to_die \in BOOLEAN /\ guard \in BOOLEAN
  /\ enqueue_pos \in Nat /\ dequeue_pos \in 0..enqueue_pos
  /\ held \in [Callers -> Nat \cup {None}] /\ filling \in [Threads -> Nat \cup {None}]
  /\ slot \in [Threads -> Jobs \cup {None}] /\ die \in [Threads -> BOOLEAN]
  /\ tpc \in [Threads -> {"check", "load", "clear", "run", "return_wrapper",
                          "publish", "return_or_get", "wait", "waiting", "exited"}]
  /\ current_work \in [Threads -> Jobs \cup {None}]
  /\ cpc \in [Callers -> {"idle", "wrapper", "release", "dispatch", "perform", "set"}]
  /\ work \in [Callers -> Jobs \cup {None}] /\ thread \in [Callers -> Threads \cup {None}]
  /\ jobs \in 0..MaxWork
  /\ dpc \in {"idle", "all_free", "lock", "die", "set", "join", "finish", "destroyed"}
  /\ deleting \in Nat /\ deleted \in SUBSET Threads
  /\ executed \in [Jobs -> Nat] /\ created \in 0..MaxWork /\ overlapped \in BOOLEAN

Free == {m_free_threads[i] : i \in 1..Len(m_free_threads)}

\* A free thread is in the list once, has nothing to do and nothing coming, and
\* work is queued only while no thread is free to do it.
FreeListExact ==
  /\ TypeOK
  /\ Cardinality(Free) = Len(m_free_threads)
  /\ \A t \in Free : /\ slot[t] = None /\ current_work[t] = None
                     /\ tpc[t] \in {"check", "load", "clear", "wait", "waiting", "exited"}
                     /\ \A c \in Callers : thread[c] = t => cpc[c] = "set"
  /\ m_queued_work # << >> => m_free_threads = << >>

\* The places a job can be in before it is executed.
Pending(j) == \/ \E i \in 1..Len(m_queued_work) : m_queued_work[i] = j
              \/ \E t \in Threads : slot[t] = j \/ (current_work[t] = j /\ tpc[t] # "return_wrapper")
              \/ \E c \in Callers : work[c] = j

\* No job runs twice: once it ran, no list, slot or thread still has it.
ExecutedOnce == \A j \in Jobs : executed[j] <= 1 /\ (executed[j] = 1 => ~Pending(j))

\* A queued_thread is deleted only when its thread has ended, and then nobody
\* will store work into it or set its event, provided that no add_work was
\* in progress when destroy was called.
NoUseAfterDelete == /\ \A t \in deleted : tpc[t] = "exited"
                    /\ ~overlapped => \A c \in Callers : thread[c] \notin deleted

Busy(t) == tpc[t] \in {"run", "return_wrapper", "publish", "return_or_get"}


\* While destroy holds the guard and joins, no thread of the pool is on its way
\* to ask for the guard, provided that no add_work was in progress when destroy
\* was called: the two do not wait for each other.
GuardNotWanted == guard /\ ~overlapped => \A t \in Threads : ~Busy(t)

Refused(t) == tpc[t] = "return_wrapper" /\ tpc'[t] = "return_or_get"
RefusedForReason == (\E t \in Threads : Refused(t)) =>
  \/ created > PoolSize
  \/ \E c \in Callers : cpc[c] = "release" /\ held[c] + PoolSize = enqueue_pos

\* assert(success) in return_wrapper_to_pool, which says that a wrapper always
\* finds room, fails for one of two reasons only: more wrappers were made than
\* the pool has cells, or an add_work has been in try_dequeue since a lap ago.
WrapperReturned == [][RefusedForReason]_vars

\* Work that was accepted is done, unless the pool is destroyed.
AcceptedIsExecuted == \A j \in Jobs : jobs >= j ~> (executed[j] = 1 \/ m_time_to_die)
=============================================================================
