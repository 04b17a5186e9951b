------------------------------- MODULE RwLock -------------------------------
(***************************************************************************)
(* What every lock of hope_thread promises: any number of clients share    *)
(* it, or one client has it alone.  A client is one acquisition.           *)
(***************************************************************************)
CONSTANT Clients

VARIABLES readers, writers
vars == <<readers, writers>>

Init == readers = {} /\ writers = {}

AcquireShared(c)    == /\ c \notin readers /\ writers = {}
                       /\ readers' = readers \cup {c} /\ UNCHANGED writers
AcquireExclusive(c) == /\ readers = {} /\ writers = {}
                       /\ writers' = {c} /\ UNCHANGED readers
ReleaseShared(c)    == /\ c \in readers
                       /\ readers' = readers \ {c} /\ UNCHANGED writers
ReleaseExclusive(c) == /\ c \in writers
                       /\ writers' = writers \ {c} /\ UNCHANGED readers

Next == \E c \in Clients : \/ AcquireShared(c) \/ AcquireExclusive(c)
                           \/ ReleaseShared(c) \/ ReleaseExclusive(c)

Spec == Init /\ [][Next]_vars
=============================================================================
