-------------------------- MODULE ThreadPoolProofs --------------------------
(***************************************************************************)
(* Proofs about thread_pool for every number of threads, every set of      *)
(* callers, every number of jobs and every capacity of the wrapper pool.   *)
(***************************************************************************)
EXTENDS ThreadPool, FiniteSetTheorems, SequenceTheorems, TLAPS

\* The elements of a list, and that it has none of them twice.
Elems(s) == {s[i] : i \in 1..Len(s)}
Once(s)  == \A i, k \in 1..Len(s) : s[i] = s[k] => i = k

-----------------------------------------------------------------------------
(* The inductive invariant *)

\* What a caller has at each step of add_work.
CallersInv == \A c \in Callers :
  /\ work[c] # None <=> cpc[c] \in {"wrapper", "release", "dispatch", "perform"}
  /\ held[c] # None <=> cpc[c] = "release"
  /\ thread[c] # None <=> cpc[c] \in {"perform", "set"}

\* A thread was given to the caller that is about to store work into it.
Given(t) == \E c \in Callers : cpc[c] = "perform" /\ thread[c] = t

\* A thread that has work or is about to get some is not free, and one caller
\* at a time stores work into it.
ThreadsInv ==
  /\ \A t \in Threads :
       /\ tpc[t] \in {"run", "return_wrapper"} => current_work[t] # None
       /\ current_work[t] # None => \/ tpc[t] \in {"run", "return_wrapper"}
                                    \/ tpc[t] = "clear" /\ slot[t] = current_work[t]
       /\ slot[t] # None => ~Busy(t)
       /\ slot[t] # None \/ Busy(t) => t \notin Free /\ ~Given(t)
       /\ t \in Free => ~Given(t)
  /\ \A c, d \in Callers : cpc[c] = "perform" /\ cpc[d] = "perform" /\ thread[c] = thread[d] => c = d

\* A free thread is in the list once, and work is queued only if there is none.
ListsInv ==
  /\ Once(m_free_threads)
  /\ m_queued_work # << >> => m_free_threads = << >>

Queued == Elems(m_queued_work)

\* A job is in one place, or in the slot and the hands of one thread that is
\* about to clear the slot; a job that has run is in the hands of the thread
\* that ran it or nowhere.
JobsInv ==
  /\ Once(m_queued_work)
  /\ \A t, u \in Threads :
       /\ slot[t] # None /\ slot[t] = slot[u] => t = u
       /\ slot[t] # None /\ slot[t] = current_work[u] => t = u
       /\ current_work[t] # None /\ current_work[t] = current_work[u] => t = u
  /\ \A c, d \in Callers : work[c] # None /\ work[c] = work[d] => c = d
  /\ \A t \in Threads : /\ slot[t] \notin Queued /\ current_work[t] \notin Queued
                        /\ \A c \in Callers : work[c] # None => work[c] # slot[t] /\ work[c] # current_work[t]
  /\ \A c \in Callers : work[c] \notin Queued
  /\ \A j \in Queued : j <= jobs
  /\ \A t \in Threads : (slot[t] # None => slot[t] <= jobs) /\ (current_work[t] # None => current_work[t] <= jobs)
  /\ \A c \in Callers : work[c] # None => work[c] <= jobs
  /\ \A j \in Jobs : j > jobs => executed[j] = 0
  /\ ExecutedOnce

Joining == dpc \in {"die", "set", "join", "finish"}

\* destroy deletes the threads in their order; if no add_work was in progress
\* when it was called, none is afterwards, and once it has seen every thread
\* free all of them stay free.
DestroyInv ==
  /\ m_time_to_die <=> dpc # "idle"
  /\ guard <=> Joining
  /\ deleting \in 1..(NumThreads + 1) /\ deleted = 1..(deleting - 1)
  /\ dpc = "idle" => deleting = 1
  /\ dpc \in {"all_free", "lock"} => deleting \in {1, NumThreads + 1}
  /\ dpc \in {"die", "set", "join"} => deleting <= NumThreads
  /\ dpc \in {"finish", "destroyed"} => deleting = NumThreads + 1
  /\ \A t \in deleted : tpc[t] = "exited"
  /\ ~overlapped /\ dpc # "idle" => \A c \in Callers : cpc[c] = "idle"
  /\ ~overlapped /\ (dpc = "lock" \/ Joining) => Free = Threads \/ deleted = Threads

\* Jobs that wait for a wrapper, and jobs that have one.
Wanting == {j \in Jobs : \E c \in Callers : cpc[c] = "wrapper" /\ work[c] = j}
Carried == {j \in Jobs : \/ j \in Queued
                         \/ \E t \in Threads : slot[t] = j \/ current_work[t] = j
                         \/ \E c \in Callers : cpc[c] # "wrapper" /\ work[c] = j}

\* A wrapper was made for every job that has one and every one in the pool.
WrappersInv ==
  /\ created + Cardinality(Wanting) <= jobs
  /\ enqueue_pos + Cardinality(Carried) <= created + dequeue_pos

IInv == TypeOK /\ CallersInv /\ ThreadsInv /\ ListsInv /\ JobsInv /\ DestroyInv /\ WrappersInv

-----------------------------------------------------------------------------
(* Lists of threads and of jobs *)

LEMMA AppendElems ==
  ASSUME NEW S, NEW s \in Seq(S), NEW e \in S
  PROVE  /\ Append(s, e) \in Seq(S) /\ Append(s, e) # << >>
         /\ Elems(Append(s, e)) = Elems(s) \cup {e}
         /\ Once(s) /\ e \notin Elems(s) => Once(Append(s, e))
<1>1. /\ Append(s, e) \in Seq(S) /\ Append(s, e) # << >> /\ Len(Append(s, e)) = Len(s) + 1
      /\ \A i \in 1..Len(s) : Append(s, e)[i] = s[i]
      /\ Append(s, e)[Len(s) + 1] = e
      /\ Len(s) \in Nat
  OBVIOUS
<1>2. Elems(Append(s, e)) = Elems(s) \cup {e}
  <2>1. ASSUME NEW i \in 1..Len(Append(s, e)) PROVE Append(s, e)[i] \in Elems(s) \cup {e}
    <3>1. i \in 1..Len(s) \/ i = Len(s) + 1
      BY <1>1
    <3>. QED  BY <1>1, <3>1 DEF Elems
  <2>2. \A i \in 1..Len(s) : i \in 1..Len(Append(s, e)) /\ s[i] = Append(s, e)[i]
    BY <1>1
  <2>3. Len(s) + 1 \in 1..Len(Append(s, e))
    BY <1>1
  <2>. QED  BY <1>1, <2>1, <2>2, <2>3 DEF Elems
<1>3. ASSUME Once(s), e \notin Elems(s) PROVE Once(Append(s, e))
  <2>1. ASSUME NEW i \in 1..Len(Append(s, e)), NEW k \in 1..Len(Append(s, e)),
               Append(s, e)[i] = Append(s, e)[k]
        PROVE  i = k
    <3>1. /\ i \in 1..Len(s) \/ i = Len(s) + 1
          /\ k \in 1..Len(s) \/ k = Len(s) + 1
      BY <1>1
    <3>. QED  BY <1>1, <1>3, <2>1, <3>1 DEF Elems, Once
  <2>. QED  BY <2>1 DEF Once
<1>. QED  BY <1>1, <1>2, <1>3

LEMMA TailElems ==
  ASSUME NEW S, NEW s \in Seq(S), s # << >>, Once(s)
  PROVE  /\ Tail(s) \in Seq(S) /\ Head(s) \in S /\ Head(s) \in Elems(s)
         /\ Elems(Tail(s)) = Elems(s) \ {Head(s)}
         /\ Once(Tail(s))
<1>1. /\ Tail(s) \in Seq(S) /\ Len(s) \in Nat \ {0} /\ Len(Tail(s)) = Len(s) - 1
      /\ \A i \in 1..(Len(s) - 1) : Tail(s)[i] = s[i + 1]
      /\ Head(s) = s[1] /\ Head(s) \in S
  OBVIOUS
<1>2. \A i \in 1..Len(Tail(s)) : i + 1 \in 1..Len(s) /\ i + 1 # 1 /\ Tail(s)[i] = s[i + 1]
  BY <1>1
<1>3. \A i \in 1..Len(s) : i # 1 => i - 1 \in 1..Len(Tail(s)) /\ s[i] = Tail(s)[i - 1]
  BY <1>1
<1>4. 1 \in 1..Len(s)
  BY <1>1
<1>5. Elems(Tail(s)) = Elems(s) \ {Head(s)}
  <2>1. ASSUME NEW i \in 1..Len(Tail(s)) PROVE Tail(s)[i] \in Elems(s) \ {Head(s)}
    BY <1>1, <1>2, <1>4 DEF Elems, Once
  <2>2. ASSUME NEW i \in 1..Len(s), s[i] # Head(s) PROVE s[i] \in Elems(Tail(s))
    BY <1>1, <1>3, <2>2 DEF Elems
  <2>. QED  BY <2>1, <2>2 DEF Elems
<1>6. Once(Tail(s))
  <2>1. ASSUME NEW i \in 1..Len(Tail(s)), NEW k \in 1..Len(Tail(s)), Tail(s)[i] = Tail(s)[k]
        PROVE  i = k
    <3>1. s[i + 1] = s[k + 1] /\ i + 1 \in 1..Len(s) /\ k + 1 \in 1..Len(s)
      BY <1>2, <2>1
    <3>2. i + 1 = k + 1
      BY <3>1 DEF Once
    <3>. QED  BY <3>2
  <2>. QED  BY <2>1 DEF Once
<1>. QED  BY <1>1, <1>4, <1>5, <1>6 DEF Elems

LEMMA AllButLastElems ==
  ASSUME NEW S, NEW s \in Seq(S), s # << >>, Once(s)
  PROVE  /\ AllButLast(s) \in Seq(S) /\ Last(s) \in S /\ Last(s) \in Elems(s)
         /\ Elems(AllButLast(s)) = Elems(s) \ {Last(s)}
         /\ Once(AllButLast(s))
<1>1. /\ AllButLast(s) \in Seq(S) /\ Len(s) \in Nat \ {0} /\ Len(AllButLast(s)) = Len(s) - 1
      /\ \A i \in 1..(Len(s) - 1) : AllButLast(s)[i] = s[i]
      /\ Last(s) = s[Len(s)] /\ Last(s) \in S
  <2>1. Len(s) \in Nat \ {0} /\ \A i \in 1..Len(s) : s[i] \in S
    OBVIOUS
  <2>2. Last(s) = s[Len(s)] /\ Last(s) \in S
    BY <2>1 DEF Last
  <2>3. /\ SubSeq(s, 1, Len(s) - 1) \in Seq(S) /\ Len(SubSeq(s, 1, Len(s) - 1)) = Len(s) - 1
        /\ \A i \in 1..(Len(s) - 1) : SubSeq(s, 1, Len(s) - 1)[i] = s[i]
    <3>1. \A i \in 1..(Len(s) - 1) : s[i] \in S
      BY <2>1
    <3>2. /\ SubSeq(s, 1, Len(s) - 1) \in Seq(S)
          /\ Len(SubSeq(s, 1, Len(s) - 1)) = IF 1 <= Len(s) - 1 THEN Len(s) - 1 - 1 + 1 ELSE 0
          /\ \A i \in 1..(Len(s) - 1 - 1 + 1) : SubSeq(s, 1, Len(s) - 1)[i] = s[1 + i - 1]
      BY <2>1, <3>1, SubSeqProperties
    <3>3. /\ (IF 1 <= Len(s) - 1 THEN Len(s) - 1 - 1 + 1 ELSE 0) = Len(s) - 1
          /\ Len(s) - 1 - 1 + 1 = Len(s) - 1 /\ \A i \in 1..(Len(s) - 1) : 1 + i - 1 = i
      <4>1. \A n \in Nat \ {0} : /\ (IF 1 <= n - 1 THEN n - 1 - 1 + 1 ELSE 0) = n - 1
                                 /\ n - 1 - 1 + 1 = n - 1 /\ \A i \in 1..(n - 1) : 1 + i - 1 = i
        OBVIOUS
      <4>. QED  BY <2>1, <4>1, Zenon
    <3>. QED  BY <3>2, <3>3, Zenon
  <2>. QED  BY <2>1, <2>2, <2>3 DEF AllButLast
<1>2. \A i \in 1..Len(AllButLast(s)) : i \in 1..Len(s) /\ i # Len(s) /\ AllButLast(s)[i] = s[i]
  BY <1>1
<1>3. \A i \in 1..Len(s) : i # Len(s) => i \in 1..Len(AllButLast(s)) /\ s[i] = AllButLast(s)[i]
  BY <1>1
<1>4. Len(s) \in 1..Len(s)
  BY <1>1
<1>5. Elems(AllButLast(s)) = Elems(s) \ {Last(s)}
  <2>1. ASSUME NEW i \in 1..Len(AllButLast(s)) PROVE AllButLast(s)[i] \in Elems(s) \ {Last(s)}
    BY <1>1, <1>2, <1>4 DEF Elems, Once
  <2>2. ASSUME NEW i \in 1..Len(s), s[i] # Last(s) PROVE s[i] \in Elems(AllButLast(s))
    BY <1>1, <1>3, <2>2 DEF Elems
  <2>. QED  BY <2>1, <2>2 DEF Elems
<1>6. Once(AllButLast(s))
  <2>1. ASSUME NEW i \in 1..Len(AllButLast(s)), NEW k \in 1..Len(AllButLast(s)),
               AllButLast(s)[i] = AllButLast(s)[k]
        PROVE  i = k
    <3>1. s[i] = s[k] /\ i \in 1..Len(s) /\ k \in 1..Len(s)
      BY <1>2, <2>1
    <3>. QED  BY <3>1 DEF Once
  <2>. QED  BY <2>1 DEF Once
<1>. QED  BY <1>1, <1>4, <1>5, <1>6 DEF Elems

\* A list without repetitions is as long as the set of its elements is large.
LEMMA OnceCounts ==
  ASSUME NEW S, NEW s \in Seq(S), Once(s)
  PROVE  IsFiniteSet(Elems(s)) /\ Cardinality(Elems(s)) = Len(s)
<1>. DEFINE f == [i \in 1..Len(s) |-> s[i]]
<1>1. f \in Bijection(1..Len(s), Elems(s))
  <2>1. f \in [1..Len(s) -> Elems(s)] /\ \A x \in Elems(s) : \E i \in 1..Len(s) : f[i] = x
    BY Zenon DEF Elems
  <2>2. \A i, k \in 1..Len(s) : f[i] = f[k] => i = k
    BY DEF Once
  <2>. QED  BY <2>1, <2>2 DEF Bijection, Injection, IsInjective, Surjection
<1>2. ExistsBijection(1..Len(s), Elems(s)) /\ Len(s) \in Nat
  BY <1>1 DEF ExistsBijection
<1>3. IsFiniteSet(1..Len(s)) /\ Cardinality(1..Len(s)) = Len(s)
  <2>1. /\ IsFiniteSet(1..Len(s))
        /\ Cardinality(1..Len(s)) = IF 1 > Len(s) THEN 0 ELSE Len(s) - 1 + 1
    BY <1>2, FS_Interval, 1 \in Int, Len(s) \in Int
  <2>. QED  BY <1>2, <2>1
<1>. QED  BY <1>2, <1>3, FS_Bijection

-----------------------------------------------------------------------------
(* Consequences of the invariant *)

LEMMA FreeIsList == Free = Elems(m_free_threads)
BY DEF Free, Elems

\* The invariants that the run checks follow from the invariant.
LEMMA IInvImplies == IInv => FreeListExact /\ ExecutedOnce /\ NoUseAfterDelete /\ GuardNotWanted
<1>. SUFFICES ASSUME IInv PROVE FreeListExact /\ ExecutedOnce /\ NoUseAfterDelete /\ GuardNotWanted
  OBVIOUS
<1>1. Cardinality(Free) = Len(m_free_threads)
  BY FreeIsList, OnceCounts DEF IInv, TypeOK, ListsInv
<1>2. Free \subseteq Threads
  BY FreeIsList DEF IInv, TypeOK, Elems
<1>3. ASSUME NEW t \in Free
      PROVE  /\ slot[t] = None /\ current_work[t] = None
             /\ tpc[t] \in {"check", "load", "clear", "wait", "waiting", "exited"}
             /\ \A c \in Callers : thread[c] = t => cpc[c] = "set"
  <2>1. t \in Threads /\ ~Busy(t) /\ slot[t] = None /\ ~Given(t)
    BY <1>2 DEF IInv, ThreadsInv
  <2>2. tpc[t] \in {"check", "load", "clear", "wait", "waiting", "exited"}
    BY <2>1 DEF Busy, IInv, TypeOK
  <2>3. current_work[t] = None
    BY <2>1, <2>2 DEF IInv, ThreadsInv
  <2>4. ASSUME NEW c \in Callers, thread[c] = t PROVE cpc[c] = "set"
    <3>1. thread[c] # None
      BY <2>1, <2>4, PoolAssumption DEF Threads
    <3>. QED  BY <2>1, <2>4, <3>1 DEF IInv, CallersInv, Given
  <2>. QED  BY <2>1, <2>2, <2>3, <2>4
<1>4. FreeListExact
  BY <1>1, <1>3 DEF IInv, FreeListExact, ListsInv
<1>5. ExecutedOnce
  BY DEF IInv, JobsInv
<1>6. NoUseAfterDelete
  <2>1. ASSUME ~overlapped, NEW c \in Callers PROVE thread[c] \notin deleted
    <3>1. CASE dpc = "idle"
      BY <3>1 DEF IInv, DestroyInv
    <3>2. CASE dpc # "idle"
      <4>1. thread[c] = None
        BY <2>1, <3>2 DEF IInv, DestroyInv, CallersInv
      <4>2. deleted \subseteq Nat
        BY PoolAssumption DEF IInv, DestroyInv
      <4>. QED  BY <4>1, <4>2, PoolAssumption
    <3>. QED  BY <3>1, <3>2
  <2>. QED  BY <2>1 DEF NoUseAfterDelete, IInv, DestroyInv
<1>7. GuardNotWanted
  <2>. SUFFICES ASSUME guard, ~overlapped, NEW t \in Threads PROVE ~Busy(t)
    BY DEF GuardNotWanted
  <2>1. Free = Threads \/ deleted = Threads
    BY DEF IInv, DestroyInv
  <2>2. t \in deleted => tpc[t] = "exited"
    BY DEF IInv, DestroyInv
  <2>. QED  BY <2>1, <2>2 DEF IInv, ThreadsInv, Busy
<1>. QED  BY <1>4, <1>5, <1>6, <1>7

\* The sets of jobs whose size matters are finite.
LEMMA JobSetsFinite == IsFiniteSet(Wanting) /\ IsFiniteSet(Carried) /\ Cardinality(Wanting) \in Nat /\ Cardinality(Carried) \in Nat
<1>1. IsFiniteSet(Jobs)
  BY FS_Interval, PoolAssumption DEF Jobs
<1>2. Wanting \in SUBSET Jobs /\ Carried \in SUBSET Jobs
  BY DEF Wanting, Carried
<1>3. IsFiniteSet(Wanting) /\ IsFiniteSet(Carried)
  BY <1>1, <1>2, FS_Subset
<1>. QED  BY <1>3, FS_CardinalityType

LEMMA InitInv == Init => IInv
<1>. SUFFICES ASSUME Init PROVE IInv
  OBVIOUS
<1>1. TypeOK
  <2>1. [i \in Threads |-> i] \in Seq(Threads)
    <3>1. 1..NumThreads = Threads /\ NumThreads \in Nat
      BY PoolAssumption DEF Threads
    <3>2. [i \in 1..NumThreads |-> i] \in [1..NumThreads -> Threads]
      BY <3>1
    <3>. QED  BY <3>1, <3>2
  <2>2. /\ << >> \in Seq(Jobs) /\ 0 \in Nat /\ 0 \in 0..0 /\ 0 \in 0..MaxWork /\ [j \in Jobs |-> 0] \in [Jobs -> Nat]
    BY PoolAssumption
  <2>. QED  BY <2>1, <2>2 DEF Init, TypeOK
<1>2. CallersInv /\ ListsInv
  BY PoolAssumption DEF Init, CallersInv, ListsInv, Once, Threads
<1>3. ThreadsInv
  BY DEF Init, ThreadsInv, Busy, Given
<1>4. Queued = {}
  BY DEF Init, Queued, Elems
<1>5. JobsInv
  BY <1>4, PoolAssumption DEF Init, JobsInv, ExecutedOnce, Pending, Once, Jobs
<1>6. DestroyInv
  BY PoolAssumption DEF Init, DestroyInv, Joining
<1>7. WrappersInv
  <2>1. Wanting = {}
    BY DEF Init, Wanting
  <2>2. Carried = {}
    BY <1>4, PoolAssumption DEF Init, Carried, Jobs
  <2>. QED  BY <2>1, <2>2, FS_EmptySet DEF Init, WrappersInv
<1>. QED  BY <1>1, <1>2, <1>3, <1>5, <1>6, <1>7 DEF IInv

-----------------------------------------------------------------------------
(* What a step that does not touch a part leaves as it is *)

LEMMA SameCallers ==
  ASSUME IInv, UNCHANGED <<cpc, work, thread, held>>
  PROVE  CallersInv'
BY DEF IInv, CallersInv

LEMMA SameLists ==
  ASSUME IInv, UNCHANGED <<m_free_threads, m_queued_work>>
  PROVE  ListsInv' /\ Free' = Free /\ Queued' = Queued
BY DEF IInv, ListsInv, Free, Queued, Elems, Once

\* A thread that has nothing to do at its step.
Quiet == {"check", "load", "wait", "waiting", "exited"}

LEMMA SameThreads ==
  ASSUME IInv, Free' = Free, UNCHANGED <<slot, current_work>>,
         \A t \in Threads : tpc'[t] = tpc[t] \/ (tpc[t] \in Quiet /\ tpc'[t] \in Quiet),
         \A c \in Callers : /\ cpc'[c] = "perform" <=> cpc[c] = "perform"
                            /\ cpc[c] = "perform" => thread'[c] = thread[c]
  PROVE  ThreadsInv'
<1>1. \A t \in Threads : /\ Busy(t)' <=> Busy(t)
                         /\ Given(t)' <=> Given(t)
                         /\ tpc'[t] = "clear" <=> tpc[t] = "clear"
                         /\ tpc'[t] \in {"run", "return_wrapper"} <=> tpc[t] \in {"run", "return_wrapper"}
  BY DEF Quiet, Busy, Given
<1>. QED  BY <1>1 DEF IInv, ThreadsInv

LEMMA SameJobs ==
  ASSUME IInv, UNCHANGED <<m_queued_work, slot, current_work, work, jobs, executed>>,
         \A t \in Threads : current_work[t] # None /\ tpc[t] = "return_wrapper" => tpc'[t] = "return_wrapper"
  PROVE  JobsInv'
<1>1. Queued' = Queued
  BY DEF Queued, Elems
<1>2. \A j \in Jobs : Pending(j)' => Pending(j)
  BY PoolAssumption DEF Pending, Jobs
<1>3. ExecutedOnce'
  BY <1>2 DEF IInv, JobsInv, ExecutedOnce
<1>. QED  BY <1>1, <1>3 DEF IInv, JobsInv

\* destroy goes on as before if it is not concerned, which no add_work is
\* while destroy relies on there being none.
LEMMA SameDestroy ==
  ASSUME IInv, UNCHANGED <<dpc, deleting, deleted, guard, m_time_to_die, overlapped>>,
         \A t \in Threads : tpc[t] = "exited" => tpc'[t] = "exited",
         \/ UNCHANGED cpc /\ (dpc = "lock" \/ Joining => Free' = Free \/ overlapped)
         \/ dpc = "idle"
         \/ \E c \in Callers : cpc[c] # "idle"
  PROVE  DestroyInv'
<1>1. \A t \in deleted : t \in Threads
  BY DEF IInv, TypeOK
<1>. QED  BY <1>1 DEF IInv, DestroyInv, Joining

LEMMA SameWrappers ==
  ASSUME IInv, UNCHANGED <<enqueue_pos, dequeue_pos, created, jobs>>,
         Wanting' = Wanting, Carried' \subseteq Carried
  PROVE  WrappersInv'
<1>1. IsFiniteSet(Carried) /\ Cardinality(Carried) \in Nat
  BY JobSetsFinite
<1>2. Cardinality(Carried') <= Cardinality(Carried) /\ Cardinality(Carried') \in Nat
  <2>1. Carried' \in SUBSET Carried
    OBVIOUS
  <2>2. IsFiniteSet(Carried') /\ Cardinality(Carried') <= Cardinality(Carried)
    BY <1>1, <2>1, FS_Subset
  <2>. QED  BY <2>2, FS_CardinalityType
<1>. QED  BY <1>1, <1>2 DEF IInv, TypeOK, WrappersInv

LEMMA SameJobSets ==
  ASSUME UNCHANGED <<m_queued_work, slot, current_work, work, cpc>>
  PROVE  Wanting' = Wanting /\ Carried' = Carried
BY DEF Wanting, Carried, Queued, Elems

-----------------------------------------------------------------------------
(* The steps of a thread of the pool *)

LEMMA QuietStep ==
  ASSUME IInv, NEW t \in Threads, CheckDie(t) \/ Wait(t) \/ SpuriousWakeup(t)
  PROVE  IInv'
<1>1. PICK s \in Quiet : tpc' = [tpc EXCEPT ![t] = s]
  BY DEF CheckDie, Wait, SpuriousWakeup, GoTo, Woken, Quiet
<1>2. tpc[t] \in {"check", "wait", "waiting"}
  BY DEF CheckDie, Wait, SpuriousWakeup
<1>3. UNCHANGED <<poolVars, wrapperVars, slot, die, current_work, callerVars, destroyVars, ghostVars>>
  BY DEF CheckDie, Wait, SpuriousWakeup
<1>. USE DEF poolVars, wrapperVars, callerVars, destroyVars, ghostVars
<1>4. TypeOK'
  BY <1>1, <1>3 DEF IInv, TypeOK, Quiet
<1>5. CallersInv' /\ ListsInv' /\ Free' = Free
  BY <1>3, SameCallers, SameLists
<1>6. \A u \in Threads : /\ tpc'[u] = tpc[u] \/ (tpc[u] \in Quiet /\ tpc'[u] \in Quiet)
                         /\ tpc[u] \in {"exited", "return_wrapper"} => tpc'[u] = tpc[u]
  BY <1>1, <1>2 DEF IInv, TypeOK, Quiet
<1>7. ThreadsInv'
  BY <1>3, <1>5, <1>6, SameThreads
<1>8. JobsInv'
  BY <1>3, <1>6, SameJobs
<1>9. DestroyInv'
  BY <1>3, <1>5, <1>6, SameDestroy
<1>10. WrappersInv'
  BY <1>3, SameWrappers, SameJobSets
<1>. QED  BY <1>4, <1>5, <1>7, <1>8, <1>9, <1>10 DEF IInv

LEMMA LoadStep ==
  ASSUME IInv, NEW t \in Threads, LoadWork(t)
  PROVE  IInv'
<1>1. /\ tpc[t] = "load" /\ tpc' = [tpc EXCEPT ![t] = "clear"]
      /\ current_work' = [current_work EXCEPT ![t] = slot[t]]
      /\ UNCHANGED <<poolVars, wrapperVars, slot, die, callerVars, destroyVars, ghostVars>>
  BY DEF LoadWork, GoTo
<1>. USE DEF poolVars, wrapperVars, callerVars, destroyVars, ghostVars
<1>2. TypeOK'
  BY <1>1 DEF IInv, TypeOK
<1>3. CallersInv' /\ ListsInv' /\ Free' = Free /\ Queued' = Queued
  BY <1>1, SameCallers, SameLists
<1>4. /\ tpc'[t] = "clear" /\ current_work'[t] = slot[t]
      /\ \A u \in Threads \ {t} : tpc'[u] = tpc[u] /\ current_work'[u] = current_work[u]
  BY <1>1 DEF IInv, TypeOK
<1>5. ThreadsInv'
  <2>1. \A u \in Threads : (Busy(u)' <=> Busy(u)) /\ (Given(u)' <=> Given(u))
    BY <1>1, <1>4 DEF Busy, Given
  <2>. QED  BY <1>1, <1>3, <1>4, <2>1 DEF IInv, ThreadsInv
<1>6. JobsInv'
  <2>1. \A j \in Jobs : Pending(j)' => Pending(j)
    BY <1>1, <1>4 DEF Pending
  <2>2. ExecutedOnce'
    BY <1>1, <2>1 DEF IInv, JobsInv, ExecutedOnce
  <2>. QED  BY <1>1, <1>3, <1>4, <2>2 DEF IInv, JobsInv
<1>7. DestroyInv'
  BY <1>1, <1>3, <1>4, SameDestroy
<1>8. WrappersInv'
  <2>1. Wanting' = Wanting /\ Carried' \subseteq Carried
    BY <1>1, <1>3, <1>4 DEF Wanting, Carried
  <2>. QED  BY <1>1, <2>1, SameWrappers
<1>. QED  BY <1>2, <1>3, <1>5, <1>6, <1>7, <1>8 DEF IInv

LEMMA ClearStep ==
  ASSUME IInv, NEW t \in Threads, ClearWork(t)
  PROVE  IInv'
<1>1. /\ tpc[t] = "clear" /\ tpc' = [tpc EXCEPT ![t] = IF current_work[t] = None THEN "wait" ELSE "run"]
      /\ slot' = [slot EXCEPT ![t] = None]
      /\ UNCHANGED <<poolVars, wrapperVars, die, current_work, callerVars, destroyVars, ghostVars>>
  BY DEF ClearWork, GoTo
<1>. USE DEF poolVars, wrapperVars, callerVars, destroyVars, ghostVars
<1>2. TypeOK'
  BY <1>1 DEF IInv, TypeOK
<1>3. CallersInv' /\ ListsInv' /\ Free' = Free /\ Queued' = Queued
  BY <1>1, SameCallers, SameLists
<1>4. /\ tpc'[t] = (IF current_work[t] = None THEN "wait" ELSE "run") /\ slot'[t] = None
      /\ \A u \in Threads \ {t} : tpc'[u] = tpc[u] /\ slot'[u] = slot[u]
  BY <1>1 DEF IInv, TypeOK
<1>5. ThreadsInv'
  <2>1. \A u \in Threads : /\ Busy(u)' <=> Busy(u) \/ (u = t /\ current_work[t] # None)
                           /\ Given(u)' <=> Given(u)
    BY <1>1, <1>4 DEF Busy, Given
  <2>2. current_work[t] # None => slot[t] # None
    BY <1>1 DEF IInv, ThreadsInv
  <2>. QED  BY <1>1, <1>3, <1>4, <2>1, <2>2 DEF IInv, ThreadsInv
<1>6. JobsInv'
  <2>1. \A j \in Jobs : Pending(j)' => Pending(j)
    <3>1. \A j \in Jobs : j # None
      BY PoolAssumption DEF Jobs
    <3>. QED  BY <1>1, <1>4, <3>1 DEF Pending
  <2>2. ExecutedOnce'
    BY <1>1, <2>1 DEF IInv, JobsInv, ExecutedOnce
  <2>3. None \notin Queued
    BY PoolAssumption DEF IInv, TypeOK, Queued, Elems, Jobs
  <2>. QED  BY <1>1, <1>3, <1>4, <2>2, <2>3 DEF IInv, JobsInv
<1>7. DestroyInv'
  BY <1>1, <1>3, <1>4, SameDestroy
<1>8. WrappersInv'
  <2>1. \A j \in Jobs : j # None
    BY PoolAssumption DEF Jobs
  <2>2. Wanting' = Wanting /\ Carried' \subseteq Carried
    BY <1>1, <1>3, <1>4, <2>1 DEF Wanting, Carried
  <2>. QED  BY <1>1, <2>2, SameWrappers
<1>. QED  BY <1>2, <1>3, <1>5, <1>6, <1>7, <1>8 DEF IInv

LEMMA RunStep ==
  ASSUME IInv, NEW t \in Threads, Run(t)
  PROVE  IInv'
<1>1. /\ tpc[t] = "run" /\ tpc' = [tpc EXCEPT ![t] = "return_wrapper"]
      /\ executed' = [executed EXCEPT ![current_work[t]] = @ + 1]
      /\ UNCHANGED <<poolVars, wrapperVars, slot, die, current_work, callerVars, destroyVars,
                     created, overlapped>>
  BY DEF Run, GoTo
<1>. USE DEF poolVars, wrapperVars, callerVars, destroyVars, ghostVars
<1>2. PICK j \in Jobs : j = current_work[t] /\ j # None
  BY <1>1 DEF IInv, ThreadsInv, TypeOK
<1>3. TypeOK'
  <2>1. executed' \in [Jobs -> Nat]
    BY <1>1, <1>2 DEF IInv, TypeOK
  <2>. QED  BY <1>1, <2>1 DEF IInv, TypeOK
<1>4. CallersInv' /\ ListsInv' /\ Free' = Free /\ Queued' = Queued
  BY <1>1, SameCallers, SameLists
<1>5. tpc'[t] = "return_wrapper" /\ \A u \in Threads \ {t} : tpc'[u] = tpc[u]
  BY <1>1 DEF IInv, TypeOK
<1>6. ThreadsInv'
  <2>1. \A u \in Threads : (Busy(u)' <=> Busy(u)) /\ (Given(u)' <=> Given(u))
    BY <1>1, <1>5 DEF Busy, Given
  <2>. QED  BY <1>1, <1>2, <1>4, <1>5, <2>1 DEF IInv, ThreadsInv
<1>7. JobsInv'
  <2>1. executed'[j] = executed[j] + 1 /\ \A i \in Jobs \ {j} : executed'[i] = executed[i]
    BY <1>1, <1>2 DEF IInv, TypeOK
  <2>2. executed[j] = 0
    <3>1. Pending(j)
      BY <1>1, <1>2 DEF Pending
    <3>. QED  BY <1>2, <3>1 DEF IInv, JobsInv, ExecutedOnce, TypeOK
  <2>3. ~Pending(j)'
    <3>1. j \notin Queued /\ \A c \in Callers : work[c] # j
      BY <1>2 DEF IInv, JobsInv
    <3>2. slot[t] = None
      BY <1>1 DEF IInv, ThreadsInv, Busy
    <3>3. \A u \in Threads : slot[u] # j /\ (current_work[u] = j => u = t)
      BY <1>2, <3>2 DEF IInv, JobsInv
    <3>. QED  BY <1>1, <1>5, <3>1, <3>3 DEF Pending, Queued, Elems
  <2>4. \A i \in Jobs : Pending(i)' => Pending(i)
    BY <1>1, <1>5 DEF Pending
  <2>5. ExecutedOnce'
    <3>1. ASSUME NEW i \in Jobs PROVE executed'[i] <= 1 /\ (executed'[i] = 1 => ~Pending(i)')
      <4>1. CASE i = j
        BY <2>1, <2>2, <2>3, <4>1
      <4>2. CASE i # j
        BY <2>1, <2>4, <4>2 DEF IInv, JobsInv, ExecutedOnce
      <4>. QED  BY <4>1, <4>2
    <3>. QED  BY <3>1 DEF ExecutedOnce
  <2>6. j <= jobs
    BY <1>2 DEF IInv, JobsInv
  <2>7. \A i \in Jobs : i > jobs => executed'[i] = 0
    <3>1. \A i \in Jobs : i > jobs => i # j
      BY <2>6 DEF IInv, TypeOK, Jobs
    <3>. QED  BY <2>1, <3>1 DEF IInv, JobsInv
  <2>. QED  BY <1>1, <1>4, <2>5, <2>7 DEF IInv, JobsInv
<1>8. DestroyInv'
  BY <1>1, <1>4, <1>5, SameDestroy
<1>9. WrappersInv'
  BY <1>1, SameWrappers, SameJobSets
<1>. QED  BY <1>3, <1>4, <1>6, <1>7, <1>8, <1>9 DEF IInv

LEMMA ReturnWrapperStep ==
  ASSUME IInv, NEW t \in Threads, ReturnWrapper(t)
  PROVE  IInv'
<1>. DEFINE j == current_work[t]
<1>1. /\ tpc[t] = "return_wrapper" /\ current_work' = [current_work EXCEPT ![t] = None]
      /\ \/ enqueue_pos < dequeue_pos + PoolSize /\ enqueue_pos' = enqueue_pos + 1
         \/ enqueue_pos' = enqueue_pos
      /\ UNCHANGED <<poolVars, dequeue_pos, held, slot, die, callerVars, destroyVars,
                     executed, created, overlapped>>
  BY DEF ReturnWrapper, Room
<1>step. PICK s \in {"publish", "return_or_get"} : tpc' = [tpc EXCEPT ![t] = s]
  BY DEF ReturnWrapper, GoTo
<1>cell. filling' = filling \/ filling' = [filling EXCEPT ![t] = enqueue_pos]
  BY DEF ReturnWrapper
<1>. USE DEF poolVars, callerVars, destroyVars
<1>2. j \in Jobs /\ j # None
  BY <1>1 DEF IInv, ThreadsInv, TypeOK
<1>3. TypeOK'
  <2>1. enqueue_pos \in Nat /\ dequeue_pos \in 0..enqueue_pos
    BY DEF IInv, TypeOK
  <2>2. enqueue_pos' \in Nat /\ dequeue_pos' \in 0..enqueue_pos'
    BY <1>1, <2>1
  <2>3. filling' \in [Threads -> Nat \cup {None}]
    BY <1>cell, <2>1 DEF IInv, TypeOK
  <2>. QED  BY <1>1, <1>step, <2>2, <2>3 DEF IInv, TypeOK
<1>4. CallersInv' /\ ListsInv' /\ Free' = Free /\ Queued' = Queued
  BY <1>1, SameCallers, SameLists
<1>5. /\ tpc'[t] \in {"publish", "return_or_get"} /\ current_work'[t] = None
      /\ \A u \in Threads \ {t} : tpc'[u] = tpc[u] /\ current_work'[u] = current_work[u]
  BY <1>1, <1>step DEF IInv, TypeOK
<1>6. ThreadsInv'
  <2>1. \A u \in Threads : (Busy(u)' <=> Busy(u)) /\ (Given(u)' <=> Given(u))
    BY <1>1, <1>5 DEF Busy, Given
  <2>. QED  BY <1>1, <1>4, <1>5, <2>1 DEF IInv, ThreadsInv
<1>7. JobsInv'
  <2>1. \A i \in Jobs : i # None
    BY PoolAssumption DEF Jobs
  <2>2. \A i \in Jobs : Pending(i)' => Pending(i)
    BY <1>1, <1>5, <2>1 DEF Pending
  <2>3. ExecutedOnce'
    BY <1>1, <2>2 DEF IInv, JobsInv, ExecutedOnce
  <2>4. None \notin Queued
    BY PoolAssumption DEF IInv, TypeOK, Queued, Elems, Jobs
  <2>. QED  BY <1>1, <1>4, <1>5, <2>3, <2>4 DEF IInv, JobsInv
<1>8. DestroyInv'
  BY <1>1, <1>4, <1>5, SameDestroy
<1>9. WrappersInv'
  <2>1. \A i \in Jobs : i # None
    BY PoolAssumption DEF Jobs
  <2>2. Wanting' = Wanting
    BY <1>1 DEF Wanting
  <2>3. j \in Carried
    BY <1>2 DEF Carried
  <2>4. slot[t] = None
    BY <1>1 DEF IInv, ThreadsInv, Busy
  <2>5. j \notin Queued /\ (\A c \in Callers : work[c] # j) /\ \A u \in Threads : slot[u] # j /\ (current_work[u] = j => u = t)
    BY <1>2, <2>4 DEF IInv, JobsInv
  <2>6. Carried' = Carried \ {j}
    BY <1>1, <1>4, <1>5, <2>1, <2>5 DEF Carried
  <2>7. Cardinality(Carried') = Cardinality(Carried) - 1 /\ Cardinality(Carried) \in Nat \ {0}
    <3>1. Cardinality(Carried \ {j}) = Cardinality(Carried) - 1
      BY <2>3, JobSetsFinite, FS_RemoveElement
    <3>2. Cardinality(Carried) # 0
      BY <2>3, JobSetsFinite, FS_EmptySet
    <3>. QED  BY <2>6, <3>1, <3>2, JobSetsFinite
  <2>8. /\ enqueue_pos \in Nat /\ dequeue_pos \in Nat /\ created \in Nat
        /\ enqueue_pos + Cardinality(Carried) <= created + dequeue_pos
    BY PoolAssumption DEF IInv, TypeOK, WrappersInv
  <2>9. enqueue_pos' \in {enqueue_pos, enqueue_pos + 1}
    BY <1>1
  <2>10. enqueue_pos' + Cardinality(Carried') <= created + dequeue_pos
    BY <2>7, <2>8, <2>9
  <2>. QED  BY <1>1, <2>2, <2>10 DEF IInv, WrappersInv
<1>. QED  BY <1>3, <1>4, <1>6, <1>7, <1>8, <1>9 DEF IInv

LEMMA PublishStep ==
  ASSUME IInv, NEW t \in Threads, PublishWrapper(t)
  PROVE  IInv'
<1>1. /\ tpc[t] = "publish" /\ tpc' = [tpc EXCEPT ![t] = "return_or_get"]
      /\ filling' = [filling EXCEPT ![t] = None]
      /\ UNCHANGED <<poolVars, enqueue_pos, dequeue_pos, held, slot, die, current_work,
                     callerVars, destroyVars, ghostVars>>
  BY DEF PublishWrapper, GoTo
<1>. USE DEF poolVars, callerVars, destroyVars, ghostVars
<1>2. TypeOK'
  BY <1>1 DEF IInv, TypeOK
<1>3. CallersInv' /\ ListsInv' /\ Free' = Free
  BY <1>1, SameCallers, SameLists
<1>4. tpc'[t] = "return_or_get" /\ \A u \in Threads \ {t} : tpc'[u] = tpc[u]
  BY <1>1 DEF IInv, TypeOK
<1>5. ThreadsInv'
  <2>1. \A u \in Threads : (Busy(u)' <=> Busy(u)) /\ (Given(u)' <=> Given(u))
    BY <1>1, <1>4 DEF Busy, Given
  <2>. QED  BY <1>1, <1>3, <1>4, <2>1 DEF IInv, ThreadsInv
<1>6. JobsInv'
  BY <1>1, <1>4, SameJobs
<1>7. DestroyInv'
  BY <1>1, <1>3, <1>4, SameDestroy
<1>8. WrappersInv'
  BY <1>1, SameWrappers, SameJobSets
<1>. QED  BY <1>2, <1>3, <1>5, <1>6, <1>7, <1>8 DEF IInv

LEMMA TakeQueuedStep ==
  ASSUME IInv, NEW t \in Threads, ReturnOrGet(t), m_queued_work # << >>
  PROVE  IInv'
<1>. DEFINE j == Head(m_queued_work)
<1>1. /\ tpc[t] = "return_or_get" /\ tpc' = [tpc EXCEPT ![t] = "run"]
      /\ current_work' = [current_work EXCEPT ![t] = j]
      /\ m_queued_work' = Tail(m_queued_work)
      /\ UNCHANGED <<m_free_threads, m_time_to_die, guard, wrapperVars, slot, die, callerVars, destroyVars, ghostVars>>
  BY DEF ReturnOrGet, TakeQueued, GoTo
<1>. USE DEF wrapperVars, callerVars, destroyVars, ghostVars
<1>2. /\ j \in Jobs /\ j # None /\ j \in Queued /\ m_queued_work' \in Seq(Jobs)
      /\ Queued' = Queued \ {j} /\ Once(m_queued_work')
  <2>1. m_queued_work \in Seq(Jobs) /\ Once(m_queued_work) /\ Jobs \subseteq Nat
    BY PoolAssumption DEF IInv, TypeOK, JobsInv, Jobs
  <2>2. /\ Tail(m_queued_work) \in Seq(Jobs) /\ j \in Jobs /\ j \in Elems(m_queued_work)
        /\ Elems(Tail(m_queued_work)) = Elems(m_queued_work) \ {j} /\ Once(Tail(m_queued_work))
    BY <2>1, TailElems
  <2>3. Queued' = Elems(m_queued_work')
    BY DEF Queued, Elems
  <2>. QED  BY <1>1, <2>1, <2>2, <2>3, PoolAssumption DEF Queued
<1>3. TypeOK'
  BY <1>1, <1>2 DEF IInv, TypeOK
<1>4. CallersInv' /\ ListsInv' /\ Free' = Free
  BY <1>1, SameCallers DEF IInv, ListsInv, Free
<1>5. /\ tpc'[t] = "run" /\ current_work'[t] = j
      /\ \A u \in Threads \ {t} : tpc'[u] = tpc[u] /\ current_work'[u] = current_work[u]
  BY <1>1 DEF IInv, TypeOK
<1>6. current_work[t] = None /\ slot[t] = None
  BY <1>1 DEF IInv, ThreadsInv, Busy
<1>7. ThreadsInv'
  <2>1. \A u \in Threads : (Busy(u)' <=> Busy(u)) /\ (Given(u)' <=> Given(u))
    BY <1>1, <1>5 DEF Busy, Given
  <2>. QED  BY <1>1, <1>2, <1>4, <1>5, <2>1 DEF IInv, ThreadsInv
<1>8. JobsInv'
  <2>1. \A i \in Jobs : Pending(i)' => Pending(i)
    <3>1. \A i \in Jobs : Pending(i) <=> \/ i \in Queued
                                         \/ \E u \in Threads : slot[u] = i \/ (current_work[u] = i /\ tpc[u] # "return_wrapper")
                                         \/ \E c \in Callers : work[c] = i
      BY DEF Pending, Queued, Elems
    <3>2. \A i \in Jobs : Pending(i)' <=> \/ i \in Queued'
                                          \/ \E u \in Threads : slot'[u] = i \/ (current_work'[u] = i /\ tpc'[u] # "return_wrapper")
                                          \/ \E c \in Callers : work'[c] = i
      BY DEF Pending, Queued, Elems
    <3>. QED  BY <1>1, <1>2, <1>5, <3>1, <3>2
  <2>2. ExecutedOnce'
    BY <1>1, <2>1 DEF IInv, JobsInv, ExecutedOnce
  <2>3. /\ \A u \in Threads : slot[u] # j /\ current_work[u] # j
        /\ \A c \in Callers : work[c] # j
    BY <1>2 DEF IInv, JobsInv
  <2>. QED  BY <1>1, <1>2, <1>5, <2>2, <2>3 DEF IInv, JobsInv
<1>9. DestroyInv'
  BY <1>1, <1>4, <1>5, SameDestroy
<1>10. WrappersInv'
  <2>1. Wanting' = Wanting /\ Carried' \subseteq Carried
    BY <1>1, <1>2, <1>5 DEF Wanting, Carried
  <2>. QED  BY <1>1, <2>1, SameWrappers
<1>. QED  BY <1>3, <1>4, <1>7, <1>8, <1>9, <1>10 DEF IInv

LEMMA BecomeFreeStep ==
  ASSUME IInv, NEW t \in Threads, ReturnOrGet(t), m_queued_work = << >>
  PROVE  IInv'
<1>1. /\ tpc[t] = "return_or_get" /\ tpc' = [tpc EXCEPT ![t] = "wait"]
      /\ m_free_threads' = Append(m_free_threads, t)
      /\ UNCHANGED <<m_queued_work, current_work, m_time_to_die, guard, wrapperVars, slot, die,
                     callerVars, destroyVars, ghostVars>>
  BY DEF ReturnOrGet, BecomeFree, GoTo
<1>. USE DEF wrapperVars, callerVars, destroyVars, ghostVars
<1>2. /\ t \notin Free /\ ~Given(t) /\ current_work[t] = None /\ slot[t] = None
  BY <1>1 DEF IInv, ThreadsInv, Busy
<1>3. /\ m_free_threads' \in Seq(Threads) /\ Free' = Free \cup {t} /\ Once(m_free_threads')
  <2>1. m_free_threads \in Seq(Threads) /\ Once(m_free_threads)
    BY DEF IInv, TypeOK, ListsInv
  <2>2. Free' = Elems(m_free_threads')
    BY DEF Free, Elems
  <2>. QED  BY <1>1, <1>2, <2>1, <2>2, AppendElems, FreeIsList
<1>4. TypeOK'
  BY <1>1, <1>3 DEF IInv, TypeOK
<1>5. CallersInv' /\ ListsInv' /\ Queued' = Queued
  BY <1>1, <1>3, SameCallers DEF IInv, ListsInv, Queued
<1>6. tpc'[t] = "wait" /\ \A u \in Threads \ {t} : tpc'[u] = tpc[u]
  BY <1>1 DEF IInv, TypeOK
<1>7. ThreadsInv'
  <2>1. \A u \in Threads : /\ Busy(u)' <=> Busy(u) /\ u # t
                           /\ Given(u)' <=> Given(u)
    BY <1>1, <1>6 DEF Busy, Given
  <2>. QED  BY <1>1, <1>2, <1>3, <1>6, <2>1 DEF IInv, ThreadsInv
<1>8. JobsInv'
  BY <1>1, <1>2, <1>6, SameJobs
<1>9. DestroyInv'
  <2>1. ASSUME ~overlapped PROVE dpc # "lock" /\ ~Joining
    <3>1. t \notin deleted
      BY <1>1 DEF IInv, DestroyInv
    <3>. QED  BY <1>2, <2>1, <3>1 DEF IInv, DestroyInv
  <2>. QED  BY <1>1, <1>6, <2>1, SameDestroy
<1>10. WrappersInv'
  BY <1>1, SameWrappers, SameJobSets
<1>. QED  BY <1>4, <1>5, <1>7, <1>8, <1>9, <1>10 DEF IInv

LEMMA ThreadStepInv ==
  ASSUME IInv, NEW t \in Threads, ThreadStep(t) \/ SpuriousWakeup(t)
  PROVE  IInv'
BY QuietStep, LoadStep, ClearStep, RunStep, ReturnWrapperStep, PublishStep, TakeQueuedStep, BecomeFreeStep
DEF ThreadStep

-----------------------------------------------------------------------------
(* The steps of add_work *)

LEMMA AddWorkStep ==
  ASSUME IInv, NEW c \in Callers, AddWork(c)
  PROVE  IInv'
<1>. DEFINE j == jobs + 1
<1>1. /\ cpc[c] = "idle" /\ cpc' = [cpc EXCEPT ![c] = "wrapper"] /\ ~m_time_to_die
      /\ jobs < MaxWork /\ jobs' = j /\ work' = [work EXCEPT ![c] = j]
      /\ UNCHANGED <<poolVars, wrapperVars, threadVars, thread, destroyVars, ghostVars>>
  BY DEF AddWork
<1>. USE DEF poolVars, wrapperVars, threadVars, destroyVars, ghostVars
<1>2. j \in Jobs /\ j # None /\ jobs \in Nat /\ j \in 0..MaxWork
  BY <1>1, PoolAssumption DEF IInv, TypeOK, Jobs
<1>3. TypeOK'
  BY <1>1, <1>2 DEF IInv, TypeOK
<1>4. /\ cpc'[c] = "wrapper" /\ work'[c] = j
      /\ \A d \in Callers \ {c} : cpc'[d] = cpc[d] /\ work'[d] = work[d]
  BY <1>1 DEF IInv, TypeOK
<1>5. CallersInv'
  BY <1>1, <1>2, <1>4 DEF IInv, CallersInv
<1>6. ListsInv' /\ Free' = Free /\ Queued' = Queued
  BY <1>1, SameLists
<1>7. ThreadsInv'
  <2>1. \A d \in Callers : cpc'[d] = "perform" <=> cpc[d] = "perform"
    BY <1>1, <1>4
  <2>. QED  BY <1>1, <1>6, <2>1, SameThreads
<1>8. JobsInv'
  <2>1. \A i \in Nat : i <= jobs => i # j /\ i <= jobs'
    BY <1>1, <1>2
  <2>2. /\ j \notin Queued /\ \A i \in Queued : i <= jobs'
    <3>1. \A i \in Queued : i \in Nat /\ i <= jobs
      BY PoolAssumption DEF IInv, JobsInv, TypeOK, Queued, Elems, Jobs
    <3>. QED  BY <2>1, <3>1
  <2>3. \A t \in Threads : /\ slot[t] # None => slot[t] <= jobs' /\ slot[t] # j
                           /\ current_work[t] # None => current_work[t] <= jobs' /\ current_work[t] # j
    <3>1. \A t \in Threads : /\ slot[t] # None => slot[t] \in Nat /\ slot[t] <= jobs
                             /\ current_work[t] # None => current_work[t] \in Nat /\ current_work[t] <= jobs
      BY PoolAssumption DEF IInv, JobsInv, TypeOK, Jobs
    <3>. QED  BY <2>1, <3>1
  <2>4. \A d \in Callers : work[d] # None => work[d] <= jobs' /\ work[d] # j
    BY <2>1, PoolAssumption DEF IInv, JobsInv, TypeOK, Jobs
  <2>5. executed[j] = 0
    BY <1>2 DEF IInv, JobsInv
  <2>6. ASSUME NEW i \in Jobs, i # j, Pending(i)' PROVE Pending(i)
    BY <1>1, <1>4, <2>6 DEF Pending
  <2>7. ExecutedOnce'
    <3>1. ASSUME NEW i \in Jobs PROVE executed'[i] <= 1 /\ (executed'[i] = 1 => ~Pending(i)')
      BY <1>1, <2>5, <2>6 DEF IInv, JobsInv, ExecutedOnce
    <3>. QED  BY <3>1 DEF ExecutedOnce
  <2>8. \A i \in Jobs : i > jobs' => executed'[i] = 0
    <3>1. \A i \in Jobs : i > jobs' => i > jobs
      BY <1>1, <1>2 DEF Jobs
    <3>. QED  BY <1>1, <3>1 DEF IInv, JobsInv
  <2>9. \A d, e \in Callers : work'[d] # None /\ work'[d] = work'[e] => d = e
    BY <1>4, <2>4 DEF IInv, JobsInv
  <2>10. \A d \in Callers : work'[d] \notin Queued /\ (work'[d] # None => work'[d] <= jobs')
    BY <1>1, <1>2, <1>4, <2>2, <2>4 DEF IInv, JobsInv
  <2>11. \A d \in Callers, t \in Threads : work'[d] # None => work'[d] # slot[t] /\ work'[d] # current_work[t]
    BY <1>2, <1>4, <2>3 DEF IInv, JobsInv
  <2>. QED  BY <1>1, <1>6, <2>2, <2>3, <2>7, <2>8, <2>9, <2>10, <2>11 DEF IInv, JobsInv
<1>9. DestroyInv'
  <2>1. dpc = "idle"
    BY <1>1 DEF IInv, DestroyInv
  <2>. QED  BY <1>1, <2>1, SameDestroy
<1>10. WrappersInv'
  <2>1. work[c] = None
    BY <1>1 DEF IInv, CallersInv
  <2>2. Wanting' = Wanting \cup {j}
    BY <1>1, <1>2, <1>4 DEF Wanting
  <2>3. Carried' = Carried
    <3>1. \A i \in Jobs : i # None
      BY PoolAssumption DEF Jobs
    <3>. QED  BY <1>1, <1>4, <1>6, <2>1, <3>1 DEF Carried
  <2>4. Cardinality(Wanting') <= Cardinality(Wanting) + 1
    <3>1. Cardinality(Wanting \cup {j}) = IF j \in Wanting THEN Cardinality(Wanting) ELSE Cardinality(Wanting) + 1
      BY JobSetsFinite, FS_AddElement
    <3>. QED  BY <2>2, <3>1, JobSetsFinite
  <2>5. Cardinality(Wanting') \in Nat
    <3>1. IsFiniteSet(Wanting \cup {j})
      BY JobSetsFinite, FS_AddElement
    <3>. QED  BY <2>2, <3>1, FS_CardinalityType
  <2>6. created' + Cardinality(Wanting') <= jobs'
    BY <1>1, <1>2, <2>4, <2>5, JobSetsFinite DEF IInv, TypeOK, WrappersInv
  <2>. QED  BY <1>1, <2>3, <2>6 DEF IInv, WrappersInv
<1>. QED  BY <1>3, <1>5, <1>6, <1>7, <1>8, <1>9, <1>10 DEF IInv

LEMMA GetWrapperStep ==
  ASSUME IInv, NEW c \in Callers, GetWrapper(c)
  PROVE  IInv'
<1>. DEFINE j == work[c]
<1>1. /\ cpc[c] = "wrapper"
      /\ UNCHANGED <<poolVars, enqueue_pos, filling, threadVars, work, thread, jobs, destroyVars,
                     executed, overlapped>>
  BY DEF GetWrapper
<1>. USE DEF poolVars, threadVars, destroyVars
<1>got. \/ /\ dequeue_pos < enqueue_pos /\ dequeue_pos' = dequeue_pos + 1 /\ created' = created
          /\ held' = [held EXCEPT ![c] = dequeue_pos] /\ cpc' = [cpc EXCEPT ![c] = "release"]
       \/ /\ created' = created + 1 /\ dequeue_pos' = dequeue_pos
          /\ held' = held /\ cpc' = [cpc EXCEPT ![c] = "dispatch"]
  BY DEF GetWrapper, AfterTake, Available
<1>2. j \in Jobs /\ j # None
  BY <1>1 DEF IInv, CallersInv, TypeOK
<1>3. /\ cpc'[c] \in {"release", "dispatch"}
      /\ \A d \in Callers \ {c} : cpc'[d] = cpc[d] /\ held'[d] = held[d]
      /\ held'[c] # None <=> cpc'[c] = "release"
      /\ held' \in [Callers -> Nat \cup {None}]
      /\ cpc' \in [Callers -> {"idle", "wrapper", "release", "dispatch", "perform", "set"}]
  <2>1. dequeue_pos \in Nat /\ dequeue_pos # None /\ held[c] = None
    BY <1>1, PoolAssumption DEF IInv, TypeOK, CallersInv
  <2>2. /\ held \in [Callers -> Nat \cup {None}]
        /\ cpc \in [Callers -> {"idle", "wrapper", "release", "dispatch", "perform", "set"}]
    BY DEF IInv, TypeOK
  <2>3. CASE held' = [held EXCEPT ![c] = dequeue_pos] /\ cpc' = [cpc EXCEPT ![c] = "release"]
    BY <2>1, <2>2, <2>3
  <2>4. CASE held' = held /\ cpc' = [cpc EXCEPT ![c] = "dispatch"]
    BY <2>1, <2>2, <2>4
  <2>. QED  BY <1>got, <2>3, <2>4
<1>4. CallersInv'
  BY <1>1, <1>3 DEF IInv, CallersInv
<1>5. ListsInv' /\ Free' = Free /\ Queued' = Queued
  BY <1>1, SameLists
<1>6. ThreadsInv'
  <2>1. \A d \in Callers : cpc'[d] = "perform" <=> cpc[d] = "perform"
    BY <1>1, <1>3
  <2>. QED  BY <1>1, <1>5, <2>1, SameThreads
<1>7. JobsInv'
  BY <1>1, SameJobs
<1>8. DestroyInv'
  BY <1>1, SameDestroy
<1>9. /\ Wanting' = Wanting \ {j} /\ j \in Wanting /\ Carried' = Carried \cup {j} /\ j \notin Carried
  <2>1. \A d \in Callers : work[d] = j => d = c
    BY <1>2 DEF IInv, JobsInv
  <2>2. j \notin Queued /\ \A t \in Threads : slot[t] # j /\ current_work[t] # j
    BY <1>2 DEF IInv, JobsInv
  <2>3. Wanting' = Wanting \ {j} /\ j \in Wanting
    BY <1>1, <1>2, <1>3, <2>1 DEF Wanting
  <2>4. Carried' = Carried \cup {j}
    BY <1>1, <1>2, <1>3, <1>5 DEF Carried
  <2>5. j \notin Carried
    BY <1>1, <2>1, <2>2 DEF Carried
  <2>. QED  BY <2>3, <2>4, <2>5
<1>10. /\ Cardinality(Wanting') = Cardinality(Wanting) - 1 /\ Cardinality(Wanting) \in Nat \ {0}
       /\ Cardinality(Carried') = Cardinality(Carried) + 1 /\ Cardinality(Carried) \in Nat
  <2>1. Cardinality(Wanting \ {j}) = Cardinality(Wanting) - 1
    BY <1>9, JobSetsFinite, FS_RemoveElement
  <2>2. Cardinality(Carried \cup {j}) = Cardinality(Carried) + 1
    BY <1>9, JobSetsFinite, FS_AddElement
  <2>3. Cardinality(Wanting) # 0
    BY <1>9, JobSetsFinite, FS_EmptySet
  <2>. QED  BY <1>9, <2>1, <2>2, <2>3, JobSetsFinite
<1>11. /\ enqueue_pos \in Nat /\ dequeue_pos \in 0..enqueue_pos /\ created \in 0..MaxWork
       /\ jobs \in 0..MaxWork /\ MaxWork \in Nat
       /\ created + Cardinality(Wanting) <= jobs
       /\ enqueue_pos + Cardinality(Carried) <= created + dequeue_pos
  BY PoolAssumption DEF IInv, TypeOK, WrappersInv
<1>12. \/ dequeue_pos < enqueue_pos /\ dequeue_pos' = dequeue_pos + 1 /\ created' = created
       \/ created' = created + 1 /\ dequeue_pos' = dequeue_pos
  BY <1>got
<1>13. TypeOK'
  <2>1. dequeue_pos' \in 0..enqueue_pos /\ created' \in 0..MaxWork
    BY <1>10, <1>11, <1>12
  <2>. QED  BY <1>1, <1>3, <2>1 DEF IInv, TypeOK
<1>14. WrappersInv'
  <2>1. /\ created' + Cardinality(Wanting') <= jobs
        /\ enqueue_pos + Cardinality(Carried') <= created' + dequeue_pos'
    BY <1>10, <1>11, <1>12
  <2>. QED  BY <1>1, <2>1 DEF WrappersInv
<1>. QED  BY <1>4, <1>5, <1>6, <1>7, <1>8, <1>13, <1>14 DEF IInv

LEMMA ReleaseStep ==
  ASSUME IInv, NEW c \in Callers, ReleaseCell(c)
  PROVE  IInv'
<1>1. /\ cpc[c] = "release" /\ cpc' = [cpc EXCEPT ![c] = "dispatch"] /\ held' = [held EXCEPT ![c] = None]
      /\ UNCHANGED <<poolVars, enqueue_pos, dequeue_pos, filling, threadVars,
                     work, thread, jobs, destroyVars, ghostVars>>
  BY DEF ReleaseCell
<1>. USE DEF poolVars, threadVars, destroyVars, ghostVars
<1>2. TypeOK'
  BY <1>1 DEF IInv, TypeOK
<1>3. /\ cpc'[c] = "dispatch" /\ held'[c] = None
      /\ \A d \in Callers \ {c} : cpc'[d] = cpc[d] /\ held'[d] = held[d]
  BY <1>1 DEF IInv, TypeOK
<1>4. CallersInv'
  BY <1>1, <1>3 DEF IInv, CallersInv
<1>5. ListsInv' /\ Free' = Free /\ Queued' = Queued
  BY <1>1, SameLists
<1>6. ThreadsInv'
  <2>1. \A d \in Callers : cpc'[d] = "perform" <=> cpc[d] = "perform"
    BY <1>1, <1>3
  <2>. QED  BY <1>1, <1>5, <2>1, SameThreads
<1>7. JobsInv'
  BY <1>1, SameJobs
<1>8. DestroyInv'
  BY <1>1, SameDestroy
<1>9. WrappersInv'
  <2>1. Wanting' = Wanting /\ Carried' \subseteq Carried
    BY <1>1, <1>3, <1>5 DEF Wanting, Carried
  <2>. QED  BY <1>1, <2>1, SameWrappers
<1>. QED  BY <1>2, <1>4, <1>5, <1>6, <1>7, <1>8, <1>9 DEF IInv

LEMMA QueueWorkStep ==
  ASSUME IInv, NEW c \in Callers, Dispatch(c), m_free_threads = << >>
  PROVE  IInv'
<1>1. PICK j \in Jobs : j = work[c] /\ j # None
  BY DEF Dispatch, IInv, CallersInv, TypeOK
<1>2. /\ cpc[c] = "dispatch" /\ cpc' = [cpc EXCEPT ![c] = "idle"]
      /\ m_queued_work' = Append(m_queued_work, j) /\ work' = [work EXCEPT ![c] = None]
      /\ UNCHANGED <<m_free_threads, thread, m_time_to_die, guard, wrapperVars, threadVars, jobs, destroyVars, ghostVars>>
  BY <1>1 DEF Dispatch
<1>. USE DEF wrapperVars, threadVars, destroyVars, ghostVars
<1>3. /\ j \notin Queued /\ \A t \in Threads : slot[t] # j /\ current_work[t] # j
      /\ \A d \in Callers : work[d] = j => d = c
  BY <1>1 DEF IInv, JobsInv
<1>4. m_queued_work' \in Seq(Jobs) /\ Queued' = Queued \cup {j} /\ Once(m_queued_work')
  <2>1. m_queued_work \in Seq(Jobs) /\ Once(m_queued_work)
    BY DEF IInv, TypeOK, JobsInv
  <2>2. Queued' = Elems(m_queued_work')
    BY DEF Queued, Elems
  <2>. QED  BY <1>2, <1>3, <2>1, <2>2, AppendElems DEF Queued
<1>5. TypeOK'
  BY <1>2, <1>4 DEF IInv, TypeOK
<1>6. /\ cpc'[c] = "idle" /\ work'[c] = None
      /\ \A d \in Callers \ {c} : cpc'[d] = cpc[d] /\ work'[d] = work[d]
  BY <1>2 DEF IInv, TypeOK
<1>7. CallersInv' /\ ListsInv' /\ Free' = Free
  BY <1>2, <1>6 DEF IInv, CallersInv, ListsInv, Free, Once
<1>8. ThreadsInv'
  <2>1. \A d \in Callers : cpc'[d] = "perform" <=> cpc[d] = "perform"
    BY <1>2, <1>6
  <2>. QED  BY <1>2, <1>7, <2>1, SameThreads
<1>9. JobsInv'
  <2>1. \A i \in Jobs : Pending(i) <=> \/ i \in Queued
                                       \/ \E u \in Threads : slot[u] = i \/ (current_work[u] = i /\ tpc[u] # "return_wrapper")
                                       \/ \E d \in Callers : work[d] = i
    BY DEF Pending, Queued, Elems
  <2>2. \A i \in Jobs : Pending(i)' <=> \/ i \in Queued'
                                        \/ \E u \in Threads : slot'[u] = i \/ (current_work'[u] = i /\ tpc'[u] # "return_wrapper")
                                        \/ \E d \in Callers : work'[d] = i
    BY DEF Pending, Queued, Elems
  <2>3. \A i \in Jobs : i # None
    BY PoolAssumption DEF Jobs
  <2>4. \A i \in Jobs : Pending(i)' => Pending(i)
    BY <1>1, <1>2, <1>4, <1>6, <2>1, <2>2, <2>3
  <2>5. ExecutedOnce'
    BY <1>2, <2>4 DEF IInv, JobsInv, ExecutedOnce
  <2>6. None \notin Queued /\ j <= jobs
    BY <1>1, <2>3 DEF IInv, JobsInv, TypeOK, Queued, Elems
  <2>. QED  BY <1>1, <1>2, <1>3, <1>4, <1>6, <2>5, <2>6 DEF IInv, JobsInv
<1>10. DestroyInv'
  BY <1>2, SameDestroy
<1>11. WrappersInv'
  <2>1. \A i \in Jobs : i # None
    BY PoolAssumption DEF Jobs
  <2>2. Wanting' = Wanting
    BY <1>2, <1>6 DEF Wanting
  <2>3. Carried' \subseteq Carried
    BY <1>1, <1>2, <1>4, <1>6, <2>1 DEF Carried
  <2>. QED  BY <1>2, <2>2, <2>3, SameWrappers
<1>. QED  BY <1>5, <1>7, <1>8, <1>9, <1>10, <1>11 DEF IInv

LEMMA TakeThreadStep ==
  ASSUME IInv, NEW c \in Callers, Dispatch(c), m_free_threads # << >>
  PROVE  IInv'
<1>1. /\ cpc[c] = "dispatch" /\ cpc' = [cpc EXCEPT ![c] = "perform"]
      /\ thread' = [thread EXCEPT ![c] = Last(m_free_threads)]
      /\ m_free_threads' = AllButLast(m_free_threads)
      /\ UNCHANGED <<m_queued_work, work, m_time_to_die, guard, wrapperVars, threadVars, jobs, destroyVars, ghostVars>>
  BY DEF Dispatch
<1>. USE DEF wrapperVars, threadVars, destroyVars, ghostVars
<1>2. PICK t \in Threads : /\ t = Last(m_free_threads) /\ t \in Free /\ Free' = Free \ {t}
                           /\ m_free_threads' \in Seq(Threads) /\ Once(m_free_threads')
  <2>1. m_free_threads \in Seq(Threads) /\ Once(m_free_threads)
    BY DEF IInv, TypeOK, ListsInv
  <2>2. Free' = Elems(m_free_threads')
    BY DEF Free, Elems
  <2>. QED  BY <1>1, <2>1, <2>2, AllButLastElems, FreeIsList
<1>3. t # None
  BY PoolAssumption DEF Threads
<1>4. TypeOK'
  BY <1>1, <1>2 DEF IInv, TypeOK
<1>5. /\ cpc'[c] = "perform" /\ thread'[c] = t
      /\ \A d \in Callers \ {c} : cpc'[d] = cpc[d] /\ thread'[d] = thread[d]
  BY <1>1, <1>2 DEF IInv, TypeOK
<1>6. CallersInv'
  BY <1>1, <1>3, <1>5 DEF IInv, CallersInv
<1>7. ListsInv'
  BY <1>1, <1>2 DEF IInv, ListsInv
<1>8. ThreadsInv'
  <2>1. ~Busy(t) /\ slot[t] = None /\ ~Given(t)
    BY <1>2 DEF IInv, ThreadsInv
  <2>2. \A u \in Threads : /\ Busy(u)' <=> Busy(u)
                           /\ Given(u)' <=> Given(u) \/ u = t
    BY <1>1, <1>5 DEF Busy, Given
  <2>3. \A d, e \in Callers : cpc'[d] = "perform" /\ cpc'[e] = "perform" /\ thread'[d] = thread'[e] => d = e
    BY <1>5, <2>1 DEF IInv, ThreadsInv, Given
  <2>. QED  BY <1>1, <1>2, <2>1, <2>2, <2>3 DEF IInv, ThreadsInv
<1>9. JobsInv'
  BY <1>1, SameJobs
<1>10. DestroyInv'
  BY <1>1, SameDestroy
<1>11. WrappersInv'
  <2>1. Wanting' = Wanting
    BY <1>1, <1>5 DEF Wanting
  <2>2. Carried' \subseteq Carried
    BY <1>1, <1>5 DEF Carried, Queued
  <2>. QED  BY <1>1, <2>1, <2>2, SameWrappers
<1>. QED  BY <1>4, <1>6, <1>7, <1>8, <1>9, <1>10, <1>11 DEF IInv

LEMMA PerformStep ==
  ASSUME IInv, NEW c \in Callers, Perform(c)
  PROVE  IInv'
<1>1. PICK j \in Jobs, t \in Threads : j = work[c] /\ t = thread[c] /\ j # None
  BY DEF Perform, IInv, CallersInv, TypeOK
<1>2. /\ cpc[c] = "perform" /\ cpc' = [cpc EXCEPT ![c] = "set"]
      /\ slot' = [slot EXCEPT ![t] = j] /\ work' = [work EXCEPT ![c] = None]
      /\ UNCHANGED <<poolVars, wrapperVars, die, tpc, current_work, thread, jobs, destroyVars, ghostVars>>
  BY <1>1 DEF Perform
<1>. USE DEF poolVars, wrapperVars, destroyVars, ghostVars
<1>3. TypeOK'
  BY <1>1, <1>2 DEF IInv, TypeOK
<1>4. /\ cpc'[c] = "set" /\ work'[c] = None
      /\ \A d \in Callers \ {c} : cpc'[d] = cpc[d] /\ work'[d] = work[d]
      /\ slot'[t] = j /\ \A u \in Threads \ {t} : slot'[u] = slot[u]
  BY <1>1, <1>2 DEF IInv, TypeOK
<1>5. CallersInv'
  BY <1>2, <1>4 DEF IInv, CallersInv
<1>6. ListsInv' /\ Free' = Free /\ Queued' = Queued
  BY <1>2, SameLists
<1>7. Given(t) /\ t \notin Free /\ ~Busy(t) /\ slot[t] = None /\ current_work[t] = None
  <2>1. Given(t)
    BY <1>1, <1>2 DEF Given
  <2>2. t \notin Free /\ ~Busy(t) /\ slot[t] = None
    BY <2>1 DEF IInv, ThreadsInv
  <2>3. current_work[t] = None
    BY <2>2 DEF IInv, ThreadsInv, Busy
  <2>. QED  BY <2>1, <2>2, <2>3
<1>8. ThreadsInv'
  <2>1. \A u \in Threads : /\ Busy(u)' <=> Busy(u)
                           /\ Given(u)' => Given(u) /\ u # t
    BY <1>1, <1>2, <1>4 DEF Busy, Given, IInv, ThreadsInv
  <2>. QED  BY <1>2, <1>4, <1>6, <1>7, <2>1 DEF IInv, ThreadsInv
<1>9. JobsInv'
  <2>1. \A i \in Jobs : i # None
    BY PoolAssumption DEF Jobs
  <2>2. \A i \in Jobs : Pending(i)' => Pending(i)
    BY <1>1, <1>2, <1>4, <2>1 DEF Pending
  <2>3. ExecutedOnce'
    BY <1>2, <2>2 DEF IInv, JobsInv, ExecutedOnce
  <2>4. /\ j \notin Queued /\ j <= jobs /\ \A u \in Threads : slot[u] # j /\ current_work[u] # j
        /\ \A d \in Callers : work[d] = j => d = c
    BY <1>1 DEF IInv, JobsInv
  <2>5. None \notin Queued
    BY <2>1 DEF IInv, TypeOK, Queued, Elems
  <2>. QED  BY <1>1, <1>2, <1>4, <1>6, <2>3, <2>4, <2>5 DEF IInv, JobsInv
<1>10. DestroyInv'
  BY <1>2, SameDestroy
<1>11. WrappersInv'
  <2>1. \A i \in Jobs : i # None
    BY PoolAssumption DEF Jobs
  <2>2. Wanting' = Wanting
    BY <1>2, <1>4 DEF Wanting
  <2>3. Carried' \subseteq Carried
    BY <1>1, <1>2, <1>4, <1>6, <2>1 DEF Carried
  <2>. QED  BY <1>2, <2>2, <2>3, SameWrappers
<1>. QED  BY <1>3, <1>5, <1>6, <1>8, <1>9, <1>10, <1>11 DEF IInv

LEMMA WokenQuiet ==
  ASSUME IInv, NEW t \in Threads, tpc' = Woken(t, tpc)
  PROVE  /\ tpc' \in [Threads -> {"check", "load", "clear", "run", "return_wrapper",
                                  "publish", "return_or_get", "wait", "waiting", "exited"}]
         /\ \A u \in Threads : /\ tpc'[u] = tpc[u] \/ (tpc[u] \in Quiet /\ tpc'[u] \in Quiet)
                               /\ tpc[u] \in {"exited", "return_wrapper"} => tpc'[u] = tpc[u]
BY DEF IInv, TypeOK, Woken, Quiet

LEMMA PerformSetStep ==
  ASSUME IInv, NEW c \in Callers, PerformSet(c)
  PROVE  IInv'
<1>1. PICK t \in Threads : t = thread[c]
  BY DEF PerformSet, IInv, CallersInv, TypeOK
<1>2. /\ cpc[c] = "set" /\ cpc' = [cpc EXCEPT ![c] = "idle"]
      /\ tpc' = Woken(t, tpc) /\ thread' = [thread EXCEPT ![c] = None]
      /\ UNCHANGED <<poolVars, wrapperVars, slot, die, current_work, work, jobs, destroyVars, ghostVars>>
  BY <1>1 DEF PerformSet
<1>. USE DEF poolVars, wrapperVars, destroyVars, ghostVars
<1>3. /\ tpc' \in [Threads -> {"check", "load", "clear", "run", "return_wrapper",
                               "publish", "return_or_get", "wait", "waiting", "exited"}]
      /\ \A u \in Threads : /\ tpc'[u] = tpc[u] \/ (tpc[u] \in Quiet /\ tpc'[u] \in Quiet)
                            /\ tpc[u] \in {"exited", "return_wrapper"} => tpc'[u] = tpc[u]
  BY <1>2, WokenQuiet
<1>4. TypeOK'
  BY <1>2, <1>3 DEF IInv, TypeOK
<1>5. /\ cpc'[c] = "idle" /\ thread'[c] = None
      /\ \A d \in Callers \ {c} : cpc'[d] = cpc[d] /\ thread'[d] = thread[d]
  BY <1>2 DEF IInv, TypeOK
<1>6. CallersInv'
  BY <1>2, <1>5 DEF IInv, CallersInv
<1>7. ListsInv' /\ Free' = Free /\ Queued' = Queued
  BY <1>2, SameLists
<1>8. ThreadsInv'
  <2>1. \A d \in Callers : /\ cpc'[d] = "perform" <=> cpc[d] = "perform"
                           /\ cpc[d] = "perform" => thread'[d] = thread[d]
    BY <1>2, <1>5
  <2>. QED  BY <1>2, <1>3, <1>7, <2>1, SameThreads
<1>9. JobsInv'
  BY <1>2, <1>3, SameJobs
<1>10. DestroyInv'
  BY <1>2, <1>3, SameDestroy
<1>11. WrappersInv'
  <2>1. Wanting' = Wanting /\ Carried' \subseteq Carried
    BY <1>2, <1>5, <1>7 DEF Wanting, Carried
  <2>. QED  BY <1>2, <2>1, SameWrappers
<1>. QED  BY <1>4, <1>6, <1>7, <1>8, <1>9, <1>10, <1>11 DEF IInv

LEMMA CallerStepInv ==
  ASSUME IInv, NEW c \in Callers, AddWork(c) \/ CallerStep(c)
  PROVE  IInv'
BY AddWorkStep, GetWrapperStep, ReleaseStep, QueueWorkStep, TakeThreadStep, PerformStep, PerformSetStep
DEF CallerStep

-----------------------------------------------------------------------------
(* The steps of destroy *)

\* What a step of destroy does to the other parts of the invariant: nothing,
\* unless it touches the lists or wakes a thread.
LEMMA DestroyFrame ==
  ASSUME IInv, UNCHANGED <<m_queued_work, m_free_threads, slot, current_work, callerVars, executed>>,
         \A u \in Threads : /\ tpc'[u] = tpc[u] \/ (tpc[u] \in Quiet /\ tpc'[u] \in Quiet)
                            /\ tpc[u] \in {"exited", "return_wrapper"} => tpc'[u] = tpc[u],
         UNCHANGED <<wrapperVars, created>>
  PROVE  CallersInv' /\ ThreadsInv' /\ ListsInv' /\ JobsInv' /\ WrappersInv' /\ Free' = Free
<1>. USE DEF wrapperVars, callerVars
<1>1. CallersInv' /\ ListsInv' /\ Free' = Free
  BY SameCallers, SameLists
<1>2. ThreadsInv'
  BY <1>1, SameThreads
<1>3. JobsInv'
  BY SameJobs
<1>4. WrappersInv'
  BY SameWrappers, SameJobSets
<1>. QED  BY <1>1, <1>2, <1>3, <1>4

LEMMA DestroyBegins ==
  ASSUME IInv, Destroy
  PROVE  IInv'
<1>1. /\ dpc \in {"idle", "destroyed"} /\ ~guard /\ m_time_to_die' = TRUE /\ m_queued_work' = << >>
      /\ dpc' = "all_free"
      /\ UNCHANGED <<m_free_threads, guard, wrapperVars, threadVars, callerVars, deleting, deleted, executed,
                     created>>
  BY DEF Destroy
<1>2. overlapped' \in BOOLEAN /\ (overlapped' <=> overlapped \/ \E c \in Callers : cpc[c] # "idle")
  BY DEF Destroy
<1>. USE DEF wrapperVars, threadVars, callerVars
<1>3. TypeOK'
  BY <1>1, <1>2 DEF IInv, TypeOK
<1>4. CallersInv'
  BY <1>1, SameCallers
<1>5. ListsInv' /\ Free' = Free /\ Queued' = {} /\ Once(m_queued_work')
  BY <1>1 DEF IInv, ListsInv, Free, Queued, Elems, Once
<1>6. ThreadsInv'
  BY <1>1, <1>5, SameThreads
<1>7. JobsInv'
  <2>1. \A j \in Jobs : Pending(j)' => Pending(j)
    BY <1>1 DEF Pending
  <2>2. ExecutedOnce'
    BY <1>1, <2>1 DEF IInv, JobsInv, ExecutedOnce
  <2>. QED  BY <1>1, <1>5, <2>2 DEF IInv, JobsInv
<1>8. DestroyInv'
  <2>1. ~overlapped' => \A c \in Callers : cpc'[c] = "idle"
    BY <1>1, <1>2
  <2>2. ~Joining'
    BY <1>1 DEF Joining
  <2>3. deleting \in {1, NumThreads + 1}
    BY <1>1 DEF IInv, DestroyInv
  <2>. QED  BY <1>1, <2>1, <2>2, <2>3 DEF IInv, DestroyInv
<1>9. WrappersInv'
  <2>1. Wanting' = Wanting /\ Carried' \subseteq Carried
    BY <1>1, <1>5 DEF Wanting, Carried
  <2>. QED  BY <1>1, <2>1, SameWrappers
<1>. QED  BY <1>3, <1>4, <1>5, <1>6, <1>7, <1>8, <1>9 DEF IInv

\* m_free_threads is as long as m_all_threads only if all threads are in it.
LEMMA AllAreFree ==
  ASSUME IInv, AllFree
  PROVE  Free = Threads \/ deleted = Threads
<1>1. deleting \in {1, NumThreads + 1} /\ deleted = 1..(deleting - 1)
  BY DEF AllFree, IInv, DestroyInv
<1>2. CASE deleting = 1
  <2>1. AllThreads = Threads
    BY <1>1, <1>2 DEF AllThreads
  <2>2. Cardinality(Free) = Cardinality(Threads)
    BY <2>1, IInvImplies DEF AllFree, FreeListExact
  <2>3. Free \in SUBSET Threads
    BY FreeIsList DEF IInv, TypeOK, Elems
  <2>4. IsFiniteSet(Threads)
    BY FS_Interval, PoolAssumption DEF Threads
  <2>. QED  BY <2>2, <2>3, <2>4, FS_Subset
<1>3. CASE deleting = NumThreads + 1
  BY <1>1, <1>3, PoolAssumption DEF Threads
<1>. QED  BY <1>1, <1>2, <1>3

LEMMA AllFreeStep ==
  ASSUME IInv, AllFree
  PROVE  IInv'
<1>1. /\ dpc = "all_free" /\ dpc' = "lock"
      /\ UNCHANGED <<poolVars, wrapperVars, threadVars, callerVars, deleting, deleted, ghostVars>>
  BY DEF AllFree
<1>. USE DEF poolVars, wrapperVars, threadVars, ghostVars
<1>2. CallersInv' /\ ThreadsInv' /\ ListsInv' /\ JobsInv' /\ WrappersInv' /\ Free' = Free
  BY <1>1, DestroyFrame
<1>3. TypeOK'
  BY <1>1 DEF IInv, TypeOK, callerVars
<1>4. DestroyInv'
  BY <1>1, <1>2, AllAreFree DEF IInv, DestroyInv, Joining, callerVars
<1>. QED  BY <1>2, <1>3, <1>4 DEF IInv

LEMMA LockGuardStep ==
  ASSUME IInv, LockGuard
  PROVE  IInv'
<1>1. /\ dpc = "lock" /\ guard' = TRUE /\ dpc' = (IF AllThreads = {} THEN "finish" ELSE "die")
      /\ UNCHANGED <<m_queued_work, m_free_threads, m_time_to_die, wrapperVars,
                     threadVars, callerVars, deleting, deleted, ghostVars>>
  BY DEF LockGuard
<1>. USE DEF wrapperVars, threadVars, ghostVars
<1>2. CallersInv' /\ ThreadsInv' /\ ListsInv' /\ JobsInv' /\ WrappersInv' /\ Free' = Free
  BY <1>1, DestroyFrame
<1>3. TypeOK'
  BY <1>1 DEF IInv, TypeOK, callerVars
<1>4. DestroyInv'
  <2>1. deleting \in 1..(NumThreads + 1) /\ deleted = 1..(deleting - 1) /\ NumThreads \in Nat
    BY PoolAssumption DEF IInv, DestroyInv
  <2>2. AllThreads = {} => deleting = NumThreads + 1
    <3>1. deleting # NumThreads + 1 => deleting \in Threads /\ deleting \notin deleted
      BY <2>1 DEF Threads
    <3>. QED  BY <3>1 DEF AllThreads
  <2>3. AllThreads # {} => deleting <= NumThreads
    <3>1. ~(deleting <= NumThreads) => deleting = NumThreads + 1
      BY <2>1
    <3>2. ~(deleting <= NumThreads) => deleted = Threads
      BY <2>1, <3>1 DEF Threads
    <3>. QED  BY <3>2 DEF AllThreads
  <2>4. m_time_to_die
    BY <1>1 DEF IInv, DestroyInv
  <2>5. Joining'
    BY <1>1 DEF Joining
  <2>6. /\ \A t \in deleted : tpc[t] = "exited"
        /\ ~overlapped => \A c \in Callers : cpc[c] = "idle"
        /\ ~overlapped => Free = Threads \/ deleted = Threads
    BY <1>1 DEF IInv, DestroyInv
  <2>7. guard' /\ m_time_to_die' /\ dpc' \in {"finish", "die"}
    BY <1>1, <2>4
  <2>8. /\ dpc' = "die" => deleting' <= NumThreads
        /\ dpc' = "finish" => deleting' = NumThreads + 1
    BY <1>1, <2>2, <2>3
  <2>. QED  BY <1>1, <1>2, <2>1, <2>5, <2>6, <2>7, <2>8 DEF DestroyInv, callerVars
<1>. QED  BY <1>2, <1>3, <1>4 DEF IInv

LEMMA TellToDieStep ==
  ASSUME IInv, TellToDie
  PROVE  IInv'
<1>1. /\ dpc = "die" /\ die' = [die EXCEPT ![deleting] = TRUE] /\ dpc' = "set"
      /\ UNCHANGED <<poolVars, wrapperVars, slot, tpc, current_work, callerVars, deleting, deleted, ghostVars>>
  BY DEF TellToDie
<1>. USE DEF poolVars, wrapperVars, ghostVars
<1>2. CallersInv' /\ ThreadsInv' /\ ListsInv' /\ JobsInv' /\ WrappersInv' /\ Free' = Free
  BY <1>1, DestroyFrame
<1>3. TypeOK'
  BY <1>1 DEF IInv, TypeOK, callerVars
<1>4. DestroyInv'
  BY <1>1, <1>2 DEF IInv, DestroyInv, Joining, callerVars
<1>. QED  BY <1>2, <1>3, <1>4 DEF IInv

LEMMA DestroySetStep ==
  ASSUME IInv, DestroySet
  PROVE  IInv'
<1>1. /\ dpc = "set" /\ tpc' = Woken(deleting, tpc) /\ dpc' = "join"
      /\ UNCHANGED <<poolVars, wrapperVars, slot, die, current_work, callerVars, deleting, deleted, ghostVars>>
  BY DEF DestroySet
<1>2. deleting \in Threads
  BY <1>1, PoolAssumption DEF IInv, DestroyInv, Threads
<1>. USE DEF poolVars, wrapperVars, ghostVars
<1>3. /\ tpc' \in [Threads -> {"check", "load", "clear", "run", "return_wrapper",
                               "publish", "return_or_get", "wait", "waiting", "exited"}]
      /\ \A u \in Threads : /\ tpc'[u] = tpc[u] \/ (tpc[u] \in Quiet /\ tpc'[u] \in Quiet)
                            /\ tpc[u] \in {"exited", "return_wrapper"} => tpc'[u] = tpc[u]
  BY <1>1, <1>2, WokenQuiet
<1>4. CallersInv' /\ ThreadsInv' /\ ListsInv' /\ JobsInv' /\ WrappersInv' /\ Free' = Free
  BY <1>1, <1>3, DestroyFrame
<1>5. TypeOK'
  BY <1>1, <1>3 DEF IInv, TypeOK, callerVars
<1>6. \A t \in deleted : tpc'[t] = "exited"
  BY <1>3 DEF IInv, DestroyInv, TypeOK
<1>7. DestroyInv'
  BY <1>1, <1>4, <1>6 DEF IInv, DestroyInv, Joining, callerVars
<1>. QED  BY <1>4, <1>5, <1>7 DEF IInv

LEMMA JoinDeleteStep ==
  ASSUME IInv, JoinDelete
  PROVE  IInv'
<1>1. /\ dpc = "join" /\ tpc[deleting] = "exited"
      /\ deleted' = deleted \cup {deleting} /\ deleting' = deleting + 1
      /\ dpc' = (IF deleting = NumThreads THEN "finish" ELSE "die")
      /\ UNCHANGED <<poolVars, wrapperVars, threadVars, callerVars, ghostVars>>
  BY DEF JoinDelete
<1>. USE DEF poolVars, wrapperVars, threadVars, ghostVars
<1>2. CallersInv' /\ ThreadsInv' /\ ListsInv' /\ JobsInv' /\ WrappersInv' /\ Free' = Free
  BY <1>1, DestroyFrame
<1>3. deleting \in 1..NumThreads /\ deleted = 1..(deleting - 1) /\ NumThreads \in Nat
  BY <1>1, PoolAssumption DEF IInv, DestroyInv
<1>4. TypeOK'
  <2>1. deleting' \in Nat /\ deleted' \in SUBSET Threads
    BY <1>1, <1>3 DEF IInv, TypeOK, Threads
  <2>. QED  BY <1>1, <2>1 DEF IInv, TypeOK, callerVars
<1>5. DestroyInv'
  <2>1. deleting' \in 1..(NumThreads + 1) /\ deleted' = 1..(deleting' - 1)
    BY <1>1, <1>3
  <2>2. /\ dpc' = "die" => deleting' <= NumThreads
        /\ dpc' = "finish" => deleting' = NumThreads + 1
    BY <1>1, <1>3
  <2>3. dpc' \in {"die", "finish"} /\ Joining' /\ Joining
    BY <1>1 DEF Joining
  <2>4. guard' /\ m_time_to_die'
    BY <1>1, <2>3 DEF IInv, DestroyInv
  <2>5. /\ \A t \in deleted : tpc[t] = "exited"
        /\ ~overlapped => \A c \in Callers : cpc[c] = "idle"
        /\ ~overlapped => Free = Threads \/ deleted = Threads
    BY <1>1, <2>3 DEF IInv, DestroyInv
  <2>6. \A t \in deleted' : tpc'[t] = "exited"
    BY <1>1, <2>5
  <2>7. deleted # Threads
    BY <1>3 DEF Threads
  <2>8. ~overlapped' => (\A c \in Callers : cpc'[c] = "idle") /\ Free' = Threads
    BY <1>1, <1>2, <2>5, <2>7 DEF callerVars
  <2>. QED  BY <2>1, <2>2, <2>3, <2>4, <2>6, <2>8 DEF DestroyInv
<1>. QED  BY <1>2, <1>4, <1>5 DEF IInv

LEMMA FinishStep ==
  ASSUME IInv, Finish
  PROVE  IInv'
<1>1. /\ dpc = "finish" /\ dequeue_pos' = enqueue_pos /\ m_free_threads' = << >> /\ guard' = FALSE /\ dpc' = "destroyed"
      /\ UNCHANGED <<m_queued_work, m_time_to_die, enqueue_pos, held, filling, threadVars, callerVars,
                     deleting, deleted, ghostVars>>
  BY DEF Finish
<1>. USE DEF threadVars, callerVars, ghostVars
<1>2. TypeOK'
  <2>1. dequeue_pos' \in 0..enqueue_pos /\ << >> \in Seq(Threads)
    BY <1>1 DEF IInv, TypeOK
  <2>. QED  BY <1>1, <2>1 DEF IInv, TypeOK
<1>3. CallersInv' /\ JobsInv'
  BY <1>1, SameCallers, SameJobs
<1>4. ListsInv' /\ Free' = {}
  BY <1>1 DEF ListsInv, Once, Free
<1>5. ThreadsInv'
  <2>1. \A t \in Threads : (Busy(t)' <=> Busy(t)) /\ (Given(t)' <=> Given(t))
    BY <1>1 DEF Busy, Given
  <2>. QED  BY <1>1, <1>4, <2>1 DEF IInv, ThreadsInv
<1>6. DestroyInv'
  BY <1>1 DEF IInv, DestroyInv, Joining
<1>7. WrappersInv'
  <2>1. Wanting' = Wanting /\ Carried' = Carried
    BY <1>1, SameJobSets
  <2>2. enqueue_pos + Cardinality(Carried) <= created + enqueue_pos
    BY JobSetsFinite DEF IInv, TypeOK, WrappersInv
  <2>. QED  BY <1>1, <2>1, <2>2 DEF IInv, WrappersInv
<1>. QED  BY <1>2, <1>3, <1>4, <1>5, <1>6, <1>7 DEF IInv

-----------------------------------------------------------------------------
(* The theorems *)

LEMMA NextInv == IInv /\ [Next]_vars => IInv'
<1>. SUFFICES ASSUME IInv, [Next]_vars PROVE IInv'
  OBVIOUS
<1>1. ASSUME NEW c \in Callers, AddWork(c) \/ CallerStep(c) PROVE IInv'
  BY <1>1, CallerStepInv
<1>2. ASSUME NEW t \in Threads, ThreadStep(t) \/ SpuriousWakeup(t) PROVE IInv'
  BY <1>2, ThreadStepInv
<1>3. CASE Destroy \/ DestroyStep
  BY <1>3, DestroyBegins, AllFreeStep, LockGuardStep, TellToDieStep, DestroySetStep, JoinDeleteStep, FinishStep
  DEF DestroyStep
<1>4. CASE UNCHANGED vars
  <2>1. UNCHANGED <<poolVars, wrapperVars, threadVars, callerVars, destroyVars, ghostVars>>
    BY <1>4 DEF vars
  <2>2. CallersInv' /\ ThreadsInv' /\ ListsInv' /\ JobsInv' /\ WrappersInv' /\ Free' = Free
    BY <2>1, DestroyFrame DEF poolVars, wrapperVars, threadVars, ghostVars
  <2>3. TypeOK'
    BY <2>1 DEF IInv, TypeOK, poolVars, wrapperVars, threadVars, callerVars, destroyVars, ghostVars
  <2>4. DestroyInv'
    BY <2>1, <2>2, SameDestroy DEF poolVars, threadVars, callerVars, destroyVars, ghostVars
  <2>. QED  BY <2>2, <2>3, <2>4 DEF IInv
<1>. QED  BY <1>1, <1>2, <1>3, <1>4 DEF Next

LEMMA PoolInv == Spec => []IInv
<1>1. Init => IInv
  BY InitInv
<1>2. IInv /\ [Next]_vars => IInv'
  BY NextInv
<1>. QED  BY <1>1, <1>2, PTL DEF Spec

\* m_free_threads of thread_pool holds each free thread once and only threads
\* that add_work may store work into, and work is queued only while it is empty.
THEOREM FreeThreadsAreFree == Spec => []FreeListExact
<1>1. IInv => FreeListExact
  BY IInvImplies
<1>. QED  BY <1>1, PoolInv, PTL

\* No job given to add_work is executed twice.
THEOREM JobsRunOnce == Spec => []ExecutedOnce
<1>1. IInv => ExecutedOnce
  BY IInvImplies
<1>. QED  BY <1>1, PoolInv, PTL

\* destroy deletes a queued_thread only after its thread has ended, and no
\* add_work that came before destroy still refers to it.
THEOREM DeletedIsUnused == Spec => []NoUseAfterDelete
<1>1. IInv => NoUseAfterDelete
  BY IInvImplies
<1>. QED  BY <1>1, PoolInv, PTL

\* destroy, which joins the threads while it holds m_queue_guard, joins no
\* thread that wants the guard.
THEOREM JoinIsNotWaitedFor == Spec => []GuardNotWanted
<1>1. IInv => GuardNotWanted
  BY IInvImplies
<1>. QED  BY <1>1, PoolInv, PTL

\* The step at which try_enqueue refuses a wrapper.
LEMMA RefusedStep ==
  ASSUME IInv, Next, NEW t \in Threads, Refused(t)
  PROVE  ReturnWrapper(t) /\ ~Room
<1>1. tpc[t] = "return_wrapper" /\ tpc'[t] = "return_or_get"
  BY DEF Refused
<1>2. ASSUME NEW c \in Callers, AddWork(c) \/ CallerStep(c) PROVE FALSE
  BY <1>1, <1>2 DEF AddWork, CallerStep, GetWrapper, ReleaseCell, Dispatch, Perform, PerformSet, Woken, threadVars,
                    IInv, TypeOK
<1>3. ~(Destroy \/ DestroyStep)
  BY <1>1 DEF Destroy, DestroyStep, AllFree, LockGuard, TellToDie, DestroySet, JoinDelete, Finish, Woken, threadVars,
              IInv, TypeOK
<1>4. PICK u \in Threads : ThreadStep(u) \/ SpuriousWakeup(u)
  BY <1>2, <1>3 DEF Next
<1>5. u = t
  BY <1>1, <1>4 DEF ThreadStep, SpuriousWakeup, CheckDie, LoadWork, ClearWork, Run, ReturnWrapper, PublishWrapper,
                    ReturnOrGet, TakeQueued, BecomeFree, Wait, GoTo, Woken, IInv, TypeOK
<1>6. ReturnWrapper(t)
  BY <1>1, <1>4, <1>5 DEF ThreadStep, SpuriousWakeup, CheckDie, LoadWork, ClearWork, Run, PublishWrapper,
                          ReturnOrGet, Wait
<1>7. ~Room
  BY <1>1, <1>6 DEF ReturnWrapper, GoTo, IInv, TypeOK
<1>. QED  BY <1>6, <1>7

\* return_wrapper_to_pool fails to give a wrapper back only if more wrappers
\* were made than the pool has cells, or while an add_work is stalled in
\* try_dequeue with the cell that the wrapper should go to.
THEOREM WrappersFit == Spec => WrapperReturned
<1>1. IInv /\ [Next]_vars => [RefusedForReason]_vars
  <2>. SUFFICES ASSUME IInv, Next, NEW t \in Threads, Refused(t)
                PROVE  \/ created > PoolSize
                       \/ \E c \in Callers : cpc[c] = "release" /\ held[c] + PoolSize = enqueue_pos
    BY DEF RefusedForReason
  <2>1. ReturnWrapper(t) /\ ~Room
    BY RefusedStep
  <2>2. current_work[t] \in Jobs
    BY <2>1 DEF ReturnWrapper, IInv, ThreadsInv, TypeOK
  <2>3. Cardinality(Carried) \in Nat \ {0}
    <3>1. current_work[t] \in Carried
      BY <2>2 DEF Carried
    <3>. QED  BY <3>1, JobSetsFinite, FS_EmptySet
  <2>4. CASE ~(enqueue_pos < dequeue_pos + PoolSize)
    BY <2>3, <2>4, PoolAssumption DEF IInv, TypeOK, WrappersInv
  <2>5. ASSUME NEW c \in Callers, held[c] # None, held[c] + PoolSize = enqueue_pos
        PROVE  cpc[c] = "release"
    BY <2>5 DEF IInv, CallersInv
  <2>. QED  BY <2>1, <2>4, <2>5 DEF Room
<1>. QED  BY <1>1, PoolInv, PTL DEF Spec, WrapperReturned
=============================================================================
