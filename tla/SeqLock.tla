------------------------------ MODULE SeqLock -------------------------------
(***************************************************************************)
(* seq_lock<T>: the writer makes m_seq odd, writes the value word by word  *)
(* and makes m_seq even again; a reader copies the words between two loads *)
(* of m_seq and reports success if the two agree.  The copy races with the *)
(* writer, in any order of the words.  m_val starts uninitialised.         *)
(***************************************************************************)
EXTENDS Integers, FiniteSets

CONSTANTS Loaders,
          Words,      \* the words that make up a T
          MaxStores   \* bound on the calls of store

ASSUME WordsAssumption  == Words # {} /\ IsFiniteSet(Words)
ASSUME StoresAssumption == MaxStores \in Nat

\* The value of the k-th store has k in every word; what an uninitialised
\* m_val holds is 0 in every word.
VARIABLES m_seq, m_val,
          writing,    \* words the running store has yet to write
          wpc,
          lpc, seq, val, copying   \* of each reader: step, first load, copy, words to copy
seqVars == <<m_seq, m_val, writing, wpc, lpc, seq, val, copying>>
writerVars == <<m_seq, m_val, writing, wpc>>
readerVars == <<lpc, seq, val, copying>>

SeqInit == /\ m_seq = 0
           /\ m_val = [w \in Words |-> 0]
           /\ writing = {} /\ wpc = "idle"
           /\ lpc = [r \in Loaders |-> "idle"]
           /\ seq = [r \in Loaders |-> 0]
           /\ val = [r \in Loaders |-> [w \in Words |-> 0]]
           /\ copying = [r \in Loaders |-> {}]

\* The store whose version is s, and the stores made so far.
StoreOf(s) == (s + 1) \div 2

-----------------------------------------------------------------------------
(* store: one writer, so m_seq is still what it loaded when it stores it *)

Store_NoOdd == /\ wpc = "idle" /\ StoreOf(m_seq) < MaxStores
               /\ writing' = Words /\ wpc' = "write"
               /\ UNCHANGED <<m_seq, m_val, readerVars>>

Store == /\ wpc = "idle" /\ StoreOf(m_seq) < MaxStores
         /\ m_seq' = m_seq + 1
         /\ writing' = Words /\ wpc' = "write"
         /\ UNCHANGED <<m_val, readerVars>>

StoreWord(w) == /\ wpc = "write" /\ w \in writing
                /\ m_val' = [m_val EXCEPT ![w] = StoreOf(m_seq)]
                /\ writing' = writing \ {w}
                /\ UNCHANGED <<m_seq, wpc, readerVars>>

StoreEnd == /\ wpc = "write" /\ writing = {}
            /\ m_seq' = m_seq + 1 /\ wpc' = "idle"
            /\ UNCHANGED <<m_val, writing, readerVars>>

-----------------------------------------------------------------------------
(* load *)

Load(r) == /\ lpc[r] \in {"idle", "success", "failure"}
           /\ seq' = [seq EXCEPT ![r] = m_seq]
           /\ copying' = [copying EXCEPT ![r] = Words]
           /\ lpc' = [lpc EXCEPT ![r] = "copy"]
           /\ UNCHANGED <<val, writerVars>>

LoadWord(r, w) == /\ lpc[r] = "copy" /\ w \in copying[r]
                  /\ val' = [val EXCEPT ![r][w] = m_val[w]]
                  /\ copying' = [copying EXCEPT ![r] = @ \ {w}]
                  /\ UNCHANGED <<lpc, seq, writerVars>>

LoadEnd_Unchecked(r) == /\ lpc[r] = "copy" /\ copying[r] = {}
                        /\ lpc' = [lpc EXCEPT ![r] = "success"]
                        /\ UNCHANGED <<seq, val, copying, writerVars>>

\* Success does not look at whether the version is odd.
LoadEnd(r) == /\ lpc[r] = "copy" /\ copying[r] = {}
              /\ lpc' = [lpc EXCEPT ![r] = IF m_seq = seq[r] THEN "success" ELSE "failure"]
              /\ UNCHANGED <<seq, val, copying, writerVars>>

-----------------------------------------------------------------------------
StoreStep == StoreEnd \/ \E w \in Words : StoreWord(w)
LoadStep(r) == LoadEnd(r) \/ \E w \in Words : LoadWord(r, w)
SeqNext == Store \/ StoreStep \/ \E r \in Loaders : Load(r) \/ LoadStep(r)
SeqSpec == SeqInit /\ [][SeqNext]_seqVars

-----------------------------------------------------------------------------
IsEven(n) == n % 2 = 0
Version(k) == [w \in Words |-> k]

SeqTypeOK == /\ m_seq \in Nat
             /\ m_val \in [Words -> Nat]
             /\ writing \in SUBSET Words /\ wpc \in {"idle", "write"}
             /\ lpc \in [Loaders -> {"idle", "copy", "success", "failure"}]
             /\ seq \in [Loaders -> Nat]
             /\ val \in [Loaders -> [Words -> Nat]]
             /\ copying \in [Loaders -> SUBSET Words]

\* A load that succeeds on an even version returns exactly the value of that
\* version: no word of an older store, and none of a newer one.
EvenLoadsExact == \A r \in Loaders :
  lpc[r] = "success" /\ IsEven(seq[r]) => val[r] = Version(StoreOf(seq[r]))

\* The words are those of the version while m_seq is even,
\* and a reader whose version is still current has copied such words.
WriterInv == /\ wpc = "idle" <=> IsEven(m_seq)
             /\ \A w \in Words \ writing : m_val[w] = StoreOf(m_seq)
             /\ wpc = "idle" => writing = {}
ReaderInv == \A r \in Loaders : lpc[r] \in {"copy", "success"} =>
               /\ seq[r] <= m_seq
               /\ lpc[r] = "success" => copying[r] = {}
               /\ IsEven(seq[r]) /\ (seq[r] = m_seq \/ lpc[r] = "success") =>
                    \A w \in Words \ copying[r] : val[r][w] = StoreOf(seq[r])
\* The version protocol: whoever sees the same even m_seq before and after
\* has copied words that no store touched in between.
VersionInv == SeqTypeOK /\ WriterInv /\ ReaderInv

\* Every load that returns true got a value that was stored, at least if the
\* first store was complete when the load began (before that m_val is
\* uninitialised and load returns true as well).
LaterLoadsAreStores == \A r \in Loaders :
  lpc[r] = "success" /\ seq[r] >= 2 => \E k \in 1..MaxStores : val[r] = Version(k)
=============================================================================
