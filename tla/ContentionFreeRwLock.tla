------------------------ MODULE ContentionFreeRwLock ------------------------
(***************************************************************************)
(* contention_free_rw_lock: readers count themselves in the slot of the    *)
(* processor they run on and then look at m_write_lock; a writer sets      *)
(* m_write_lock and then waits for every slot to be zero.  A writer keeps  *)
(* the expected value of its compare-and-swap in lock_ex across attempts.  *)
(***************************************************************************)
EXTENDS Integers, FiniteSets

CONSTANTS Readers, Writers,   \* disjoint
          MaxProcNumber,      \* slots of m_read_lock, at least 1
          Processors          \* what get_proc_id may return

VARIABLES m_write_lock, m_read_lock,
          pc,
          cur_cpu,     \* of each reader
          lock_ex,     \* of each writer
          scanned      \* of each writer: slots seen zero in this pass
vars   == <<m_write_lock, m_read_lock, pc, cur_cpu, lock_ex, scanned>>
shared == <<m_write_lock, m_read_lock>>

Slots == 0..MaxProcNumber-1
GoTo(c, step) == pc' = [pc EXCEPT ![c] = step]

Init == /\ m_write_lock = FALSE
        /\ m_read_lock = [s \in Slots |-> 0]
        /\ pc = [c \in Readers \cup Writers |-> "idle"]
        /\ cur_cpu = [r \in Readers |-> 0]
        /\ lock_ex = [w \in Writers |-> FALSE]
        /\ scanned = [w \in Writers |-> 0]

-----------------------------------------------------------------------------
(* lock_shared, unlock_shared *)

\* Processors beyond the last slot share it.
SlotOf(cpu) == IF cpu < MaxProcNumber - 1 THEN cpu ELSE MaxProcNumber - 1

LockShared(r, cpu) == /\ pc[r] = "idle"
                      /\ cur_cpu' = [cur_cpu EXCEPT ![r] = SlotOf(cpu)]
                      /\ GoTo(r, "r_count")
                      /\ UNCHANGED <<shared, lock_ex, scanned>>

ReadCount(r) == /\ pc[r] = "r_count"
                /\ m_read_lock' = [m_read_lock EXCEPT ![cur_cpu[r]] = @ + 1]
                /\ GoTo(r, "r_check")
                /\ UNCHANGED <<m_write_lock, cur_cpu, lock_ex, scanned>>

ReadCheck_Trusting(r) == /\ pc[r] = "r_check" /\ GoTo(r, "reading")
                         /\ UNCHANGED <<shared, cur_cpu, lock_ex, scanned>>

ReadCheck(r) == /\ pc[r] = "r_check"
                /\ GoTo(r, IF m_write_lock THEN "r_undo" ELSE "reading")
                /\ UNCHANGED <<shared, cur_cpu, lock_ex, scanned>>

ReadUndo_Forgotten(r) == /\ pc[r] = "r_undo" /\ GoTo(r, "r_wait")
                         /\ UNCHANGED <<shared, cur_cpu, lock_ex, scanned>>

ReadUndo(r) == /\ pc[r] = "r_undo"
               /\ m_read_lock' = [m_read_lock EXCEPT ![cur_cpu[r]] = @ - 1]
               /\ GoTo(r, "r_wait")
               /\ UNCHANGED <<m_write_lock, cur_cpu, lock_ex, scanned>>

ReadWait(r) == /\ pc[r] = "r_wait" /\ ~m_write_lock
               /\ GoTo(r, "r_count")
               /\ UNCHANGED <<shared, cur_cpu, lock_ex, scanned>>

UnlockShared(r) == /\ pc[r] = "reading"
                   /\ m_read_lock' = [m_read_lock EXCEPT ![cur_cpu[r]] = @ - 1]
                   /\ GoTo(r, "idle")
                   /\ UNCHANGED <<m_write_lock, cur_cpu, lock_ex, scanned>>

-----------------------------------------------------------------------------
(* lock_exclusive, unlock_exclusive *)

LockExclusive(w) == /\ pc[w] = "idle"
                    /\ lock_ex' = [lock_ex EXCEPT ![w] = FALSE]
                    /\ GoTo(w, "w_cas")
                    /\ UNCHANGED <<shared, cur_cpu, scanned>>

\* A failed compare_exchange_strong stores the value it found in lock_ex, and
\* the loop does not reset it.
WriteCas(w) == /\ pc[w] = "w_cas"
               /\ IF m_write_lock = lock_ex[w]
                    THEN /\ m_write_lock' = TRUE /\ scanned' = [scanned EXCEPT ![w] = 0]
                         /\ GoTo(w, "w_scan") /\ UNCHANGED lock_ex
                    ELSE /\ lock_ex' = [lock_ex EXCEPT ![w] = m_write_lock]
                         /\ UNCHANGED <<m_write_lock, scanned, pc>>
               /\ UNCHANGED <<m_read_lock, cur_cpu>>

\* One slot is looked at; a slot in use starts the pass again.
WriteScan_NoRestart(w) == /\ pc[w] = "w_scan"
                          /\ GoTo(w, IF scanned[w] = MaxProcNumber - 1 THEN "writing" ELSE "w_scan")
                          /\ scanned' = [scanned EXCEPT ![w] = @ + 1]
                          /\ UNCHANGED <<shared, cur_cpu, lock_ex>>

WriteScan(w) == /\ pc[w] = "w_scan"
                /\ IF m_read_lock[scanned[w]] # 0
                     THEN scanned' = [scanned EXCEPT ![w] = 0] /\ UNCHANGED pc
                     ELSE /\ scanned' = [scanned EXCEPT ![w] = @ + 1]
                          /\ GoTo(w, IF scanned[w] = MaxProcNumber - 1 THEN "writing" ELSE "w_scan")
                /\ UNCHANGED <<shared, cur_cpu, lock_ex>>

UnlockExclusive(w) == /\ pc[w] = "writing"
                      /\ m_write_lock' = FALSE
                      /\ GoTo(w, "idle")
                      /\ UNCHANGED <<m_read_lock, cur_cpu, lock_ex, scanned>>

-----------------------------------------------------------------------------
ReaderStep(r) == ReadCount(r) \/ ReadCheck(r) \/ ReadUndo(r) \/ ReadWait(r)
WriterStep(w) == WriteCas(w) \/ WriteScan(w)
Next == \/ \E r \in Readers : \/ ReaderStep(r) \/ UnlockShared(r)
                              \/ \E cpu \in Processors : LockShared(r, cpu)
        \/ \E w \in Writers : WriterStep(w) \/ LockExclusive(w) \/ UnlockExclusive(w)
Spec == Init /\ [][Next]_vars

\* Threads inside a call are scheduled again and every holder releases.
Fairness == /\ \A r \in Readers : WF_vars(ReaderStep(r)) /\ WF_vars(UnlockShared(r))
            /\ \A w \in Writers : WF_vars(WriterStep(w)) /\ WF_vars(UnlockExclusive(w))

-----------------------------------------------------------------------------
ReaderSteps == {"idle", "r_count", "r_check", "r_undo", "r_wait", "reading"}
WriterSteps == {"idle", "w_cas", "w_scan", "writing"}

TypeOK == /\ m_write_lock \in BOOLEAN
          /\ m_read_lock \in [Slots -> Nat]
          /\ pc \in [Readers \cup Writers -> ReaderSteps \cup WriterSteps]
          /\ \A r \in Readers : pc[r] \in ReaderSteps
          /\ \A w \in Writers : pc[w] \in WriterSteps
          /\ cur_cpu \in [Readers -> Slots]
          /\ lock_ex \in [Writers -> BOOLEAN]
          /\ scanned \in [Writers -> 0..MaxProcNumber]

CountedIn(s) == {r \in Readers : pc[r] \in {"r_check", "r_undo", "reading"} /\ cur_cpu[r] = s}

\* Every slot counts exactly the readers that went through it.
SlotCounts == TypeOK /\ \A s \in Slots : m_read_lock[s] = Cardinality(CountedIn(s))

\* A slot that the writer has passed stays without readers that hold the lock:
\* whoever counts itself there later sees m_write_lock.
PassedSlotsEmpty == \A w \in Writers, r \in Readers :
  pc[w] \in {"w_scan", "writing"} /\ pc[r] = "reading" => scanned[w] <= cur_cpu[r]

L == INSTANCE RwLock WITH Clients <- Readers \cup Writers,
                          readers <- {r \in Readers : pc[r] = "reading"},
                          writers <- {w \in Writers : pc[w] = "writing"}

\* The two together are what exclusion rests on: the writer believes the counts
\* of the slots it has looked at, one at a time.
SlotsInv == SlotCounts /\ PassedSlotsEmpty

\* With one writer the lock is a read-write lock.
ImplementsRwLock == L!Spec

\* With one writer, lock_exclusive returns once the readers inside have left,
\* as long as no new reader keeps arriving: a reader that finds m_write_lock
\* set takes its count back and does not come again before the writer is done.
WriterGetsIn == \A w \in Writers : pc[w] \in {"w_cas", "w_scan"} ~> pc[w] = "writing"

\* "A read-write lock": two writers never have it at the same time.
WritersExclude == \A w, x \in Writers : pc[w] = "writing" /\ pc[x] = "writing" => w = x
=============================================================================
