---------------------------- MODULE SharedMemory ----------------------------
(***************************************************************************)
(* create_or_open_shared_memory of the POSIX build, the segment in which   *)
(* processes put the broadcast queues.  Processes call it with one valid   *)
(* name and sizes that may differ, one segment each; a system call is a    *)
(* step, may fail, and the process may die before any of them.  What a     *)
(* dead process leaves under the name is what a later one finds.           *)
(***************************************************************************)
EXTENDS Naturals

CONSTANTS Processes,
          Sizes,       \* in bytes; a call with size 0 fails at once
          Objects,     \* shared memory objects that can exist at the same time
          NoObject

VARIABLES named,                          \* the object that bears the name
          st_size,                        \* of each object
          pc, size_bytes, attempt, fd,    \* of each process: the call it is in
          data, created_new,              \* its segment: the object mapped, by size_bytes
          apart                           \* ghost: a size differed, or the name was taken away
processVars == <<pc, size_bytes, attempt, fd, data, created_new>>
shmVars == <<named, st_size, apart, processVars>>

Init == /\ named = NoObject /\ st_size = [o \in Objects |-> 0]
        /\ pc = [p \in Processes |-> "idle"] /\ size_bytes = [p \in Processes |-> 0]
        /\ attempt = [p \in Processes |-> 0] /\ fd = [p \in Processes |-> NoObject]
        /\ data = [p \in Processes |-> NoObject] /\ created_new = [p \in Processes |-> FALSE]
        /\ apart = FALSE

GoTo(p, step) == pc' = [pc EXCEPT ![p] = step]

\* An object lives while it bears the name or a process has it open or mapped.
Alive(o) == o = named \/ \E p \in Processes : o \in {fd[p], data[p]}

\* The descriptor is closed, the segment is gone; the process can call again.
Ended(p) == /\ GoTo(p, "idle") /\ fd' = [fd EXCEPT ![p] = NoObject]
            /\ size_bytes' = [size_bytes EXCEPT ![p] = 0]
            /\ attempt' = [attempt EXCEPT ![p] = 0]
            /\ data' = [data EXCEPT ![p] = NoObject]
            /\ created_new' = [created_new EXCEPT ![p] = FALSE]

-----------------------------------------------------------------------------
(* create_or_open_shared_memory *)

\* The sizes asked for by processes in a call or with a segment, and that of
\* the named object; 0 for none.
SizesInUse == {size_bytes[q] : q \in Processes} \cup {st_size[o] : o \in Objects \cap {named}}

Call(p, size) == /\ pc[p] = "idle" /\ data[p] = NoObject
                 /\ size_bytes' = [size_bytes EXCEPT ![p] = size] /\ GoTo(p, "open")
                 /\ apart' = (apart \/ ~(SizesInUse \subseteq {0, size}))
                 /\ UNCHANGED <<named, st_size, attempt, fd, data, created_new>>

\* shm_open with O_CREAT: opens the named object or creates one of no size.
ShmOpen(p) ==
  /\ pc[p] = "open" /\ GoTo(p, "stat")
  /\ \/ named # NoObject /\ UNCHANGED <<named, st_size>>
     \/ /\ named = NoObject /\ named' = CHOOSE o \in Objects : ~Alive(o)
        /\ st_size' = [st_size EXCEPT ![named'] = 0]
  /\ fd' = [fd EXCEPT ![p] = named']
  /\ UNCHANGED <<size_bytes, attempt, data, created_new, apart>>

TooSmall_OrEqual(p) == st_size[fd[p]] <= size_bytes[p]
TooSmall(p) == st_size[fd[p]] < size_bytes[p]

\* The object is empty, or too small, or large enough.
Fstat(p) ==
  /\ pc[p] = "stat"
  /\ \/ /\ st_size[fd[p]] = 0 /\ GoTo(p, "truncate")
        /\ UNCHANGED fd
     \/ /\ st_size[fd[p]] # 0 /\ TooSmall(p) /\ attempt[p] = 0
        /\ fd' = [fd EXCEPT ![p] = NoObject] /\ GoTo(p, "unlink")
     \/ /\ st_size[fd[p]] # 0 /\ ~TooSmall(p) /\ GoTo(p, "map")
        /\ UNCHANGED fd
  /\ UNCHANGED <<named, st_size, apart, size_bytes, attempt, data, created_new>>

\* Too small a second time: the call fails.
StillTooSmall(p) == /\ pc[p] = "stat" /\ st_size[fd[p]] # 0 /\ TooSmall(p) /\ attempt[p] = 1
                    /\ Ended(p) /\ UNCHANGED <<named, st_size, apart>>

\* The name may bear another object by now; the result is not looked at.
Retry_Uncounted(p) == /\ pc[p] = "unlink" /\ named' \in {named, NoObject} /\ GoTo(p, "open")
                      /\ UNCHANGED <<st_size, apart, size_bytes, attempt, fd, data, created_new>>
Retry(p) == /\ pc[p] = "unlink" /\ named' \in {named, NoObject}
            /\ attempt' = [attempt EXCEPT ![p] = 1] /\ GoTo(p, "open")
            /\ UNCHANGED <<st_size, apart, size_bytes, fd, data, created_new>>

Ftruncate(p) == /\ pc[p] = "truncate" /\ GoTo(p, "map")
                /\ st_size' = [st_size EXCEPT ![fd[p]] = size_bytes[p]]
                /\ created_new' = [created_new EXCEPT ![p] = TRUE]
                /\ UNCHANGED <<named, size_bytes, attempt, fd, data, apart>>

\* map_fd; the segment keeps the descriptor.
Map(p) == /\ pc[p] = "map" /\ GoTo(p, "idle")
          /\ data' = [data EXCEPT ![p] = fd[p]] /\ attempt' = [attempt EXCEPT ![p] = 0]
          /\ UNCHANGED <<named, st_size, apart, size_bytes, fd, created_new>>

\* One of the system calls fails; what the calls before it did remains.
Fails(p) == /\ pc[p] \in {"open", "stat", "truncate", "map"}
            /\ Ended(p) /\ UNCHANGED <<named, st_size, apart>>

-----------------------------------------------------------------------------
close_shared_memory(p) == /\ pc[p] = "idle" /\ data[p] # NoObject
                          /\ Ended(p) /\ UNCHANGED <<named, st_size, apart>>

unlink_shared_memory(p) == /\ pc[p] = "idle" /\ named' = NoObject
                           /\ apart' = (apart \/ \E q \in Processes : fd[q] # NoObject)
                           /\ UNCHANGED <<st_size, processVars>>

\* The process dies, and another one may start in its place.
Crash(p) == /\ pc[p] # "idle" \/ data[p] # NoObject
            /\ Ended(p) /\ UNCHANGED <<named, st_size, apart>>

-----------------------------------------------------------------------------
CallStep(p) == \/ ShmOpen(p) \/ Fstat(p) \/ StillTooSmall(p) \/ Retry(p) \/ Ftruncate(p) \/ Map(p)
Next == \E p \in Processes :
  \/ \E size \in Sizes : Call(p, size)
  \/ CallStep(p) \/ Fails(p) \/ Crash(p)
  \/ close_shared_memory(p) \/ unlink_shared_memory(p)
Spec == Init /\ [][Next]_shmVars

\* The operating system answers.
Fairness == \A p \in Processes : WF_shmVars(CallStep(p))

-----------------------------------------------------------------------------
TypeOK == /\ named \in Objects \cup {NoObject} /\ st_size \in [Objects -> Sizes \cup {0}]
          /\ pc \in [Processes -> {"idle", "open", "stat", "truncate", "map", "unlink"}]
          /\ size_bytes \in [Processes -> Sizes \cup {0}] /\ attempt \in [Processes -> {0, 1}]
          /\ fd \in [Processes -> Objects \cup {NoObject}]
          /\ data \in [Processes -> Objects \cup {NoObject}]
          /\ created_new \in [Processes -> BOOLEAN]
          /\ apart \in BOOLEAN

\* Processes that ask for the same size share one object of that size, as
\* lines 184-185 promise, although creating it and sizing it are two calls,
\* several processes may size it, and any of them may fail or die in between.
\* It is not so when a size differs from that of the object or of another
\* process, or when the name is taken away while a process has the object open.
SegmentsShared == /\ TypeOK
                  /\ ~apart => \A p \in Processes : data[p] # NoObject =>
                       data[p] = named /\ st_size[named] = size_bytes[p]

\* A call returns although other processes keep putting objects that are too
\* small under the name.
ShmReturns == \A p \in Processes : pc[p] # "idle" ~> pc[p] = "idle"
=============================================================================
