----------------------- MODULE MpmcBoundedQueueProofs -----------------------
(***************************************************************************)
(* Proofs about mpmc_bounded_queue for every number of threads, every set  *)
(* of values, every buffer size and every MaxPos.                          *)
(***************************************************************************)
EXTENDS MpmcBoundedQueue, TLAPS

\* What the proofs use of the buffer size (m_size): a number above one.
LEMMA SizeNat == Size \in Nat /\ Size > 1
BY SizeAssumption

\* A remainder is determined by the quotient it leaves.
LEMMA DivMod ==
  ASSUME NEW p \in Int, NEW N \in Nat, N > 0
  PROVE  /\ p \div N \in Int /\ p % N \in 0..N-1
         /\ p = N * (p \div N) + (p % N)
OBVIOUS

\* Multiples of N that differ do so by at least N.
LEMMA Multiples ==
  ASSUME NEW N \in Nat, N > 0, NEW a \in Int, NEW b \in Int, N * a < N * b
  PROVE  N * a + N <= N * b
<1>1. a < b
  OBVIOUS
<1>2. N * (b - a - 1) >= 0
  BY <1>1
<1>3. N * (b - a - 1) = N * b - N * a - N
  OBVIOUS
<1>. QED  BY <1>2, <1>3

\* The masked position pos & m_mask is an index of the buffer.
LEMMA CellType ==
  ASSUME NEW p \in Int
  PROVE  Cell(p) \in 0..Size-1
BY SizeNat DEF Cell

\* Two different positions that use the same cell are at least a lap apart.
LEMMA SameCell ==
  ASSUME NEW p \in Int, NEW q \in Int, Cell(p) = Cell(q), p < q
  PROVE  p + Size <= q
<1>1. Size \in Nat /\ Size > 0
  BY SizeNat
<1>2. PICK a \in Int : p = Size * a + (p % Size)
  BY <1>1, DivMod
<1>3. PICK b \in Int : q = Size * b + (q % Size)
  BY <1>1, DivMod
<1>4. Size * a \in Int /\ Size * b \in Int /\ p % Size \in Int
  BY <1>1
<1>5. Size * a < Size * b
  BY <1>2, <1>3, <1>4 DEF Cell
<1>6. Size * a + Size <= Size * b
  BY <1>1, <1>5, Multiples
<1>. QED  BY <1>1, <1>2, <1>3, <1>4, <1>6 DEF Cell

\* Division with remainder by N leaves one remainder.
LEMMA Unique ==
  ASSUME NEW N \in Nat, N > 0, NEW r \in 0..N-1, NEW s \in 0..N-1,
         NEW a \in Int, NEW b \in Int, N * a + r = N * b + s
  PROVE  r = s
<1>1. CASE N * a < N * b
  <2>1. N * a + N <= N * b
    BY <1>1, Multiples
  <2>. QED  BY <2>1
<1>2. CASE N * b < N * a
  <2>1. N * b + N <= N * a
    BY <1>2, Multiples
  <2>. QED  BY <2>1
<1>. QED  BY <1>1, <1>2

\* Positions that differ by whole laps use the same cell.
LEMMA LapsApart ==
  ASSUME NEW p \in Int, NEW q \in Int, NEW k \in Int, q = p + Size * k
  PROVE  Cell(q) = Cell(p)
<1>1. Size \in Nat /\ Size > 0
  BY SizeNat
<1>2. PICK a \in Int : p = Size * a + (p % Size)
  BY <1>1, DivMod
<1>3. PICK b \in Int : q = Size * b + (q % Size)
  BY <1>1, DivMod
<1>4. p % Size \in 0..Size-1 /\ q % Size \in 0..Size-1
  BY <1>1, DivMod
<1>5. Size * (a + k) = Size * a + Size * k /\ Size * a \in Int /\ Size * k \in Int /\ a + k \in Int
  BY <1>1
<1>6. Size * (a + k) + (p % Size) = Size * b + (q % Size)
  BY <1>1, <1>2, <1>3, <1>4, <1>5
<1>. QED  BY <1>1, <1>4, <1>5, <1>6, Unique DEF Cell

\* The position a lap later uses the same cell.
LEMMA NextLapCell ==
  ASSUME NEW p \in Int
  PROVE  Cell(p + Size) = Cell(p)
<1>1. p + Size \in Int /\ p + Size = p + Size * 1
  BY SizeNat
<1>. QED  BY <1>1, LapsApart

\* Every cell is the cell of one of any Size consecutive positions.
LEMMA WindowPosition ==
  ASSUME NEW p \in Int, NEW e \in Int
  PROVE  \E q \in e..(e + Size - 1) : Cell(q) = Cell(p)
<1>1. Size \in Nat /\ Size > 0
  BY SizeNat
<1>2. PICK d \in Int : d = p - e
  OBVIOUS
<1>3. PICK a \in Int : d = Size * a + (d % Size)
  BY <1>1, DivMod
<1>4. d % Size \in 0..Size-1
  BY <1>1, DivMod
<1>5. PICK q \in Int : q = e + (d % Size)
  BY <1>4
<1>6. Size * (-a) = -(Size * a) /\ Size * a \in Int /\ -a \in Int
  BY <1>1
<1>7. q = p + Size * (-a)
  BY <1>2, <1>3, <1>4, <1>5, <1>6, <1>1
<1>8. Cell(q) = Cell(p)
  BY <1>6, <1>7, LapsApart
<1>. QED  BY <1>1, <1>4, <1>5, <1>8

-----------------------------------------------------------------------------
\* Every step of try_enqueue and try_dequeue keeps the types.
LEMMA TypeStep ==
  ASSUME TypeOK, [Next]_vars
  PROVE  TypeOK'
<1>. USE DEF TypeOK, Steps, GoTo, Return, Branch, shared
<1>1. ASSUME NEW t \in Threads, NEW v \in Values, TryEnqueue(t, v)
      PROVE  TypeOK'
  BY <1>1 DEF TryEnqueue
<1>2. ASSUME NEW t \in Threads, TryDequeue(t)
      PROVE  TypeOK'
  BY <1>2 DEF TryDequeue
<1>3. ASSUME NEW t \in Threads, Step(t)
      PROVE  TypeOK'
  <2>0. pos[t] \in Int /\ Cell(pos[t]) \in 0..Size-1
    BY CellType
  <2>1. CASE EnqReload(t) \/ DeqReload(t)
    BY <2>1 DEF EnqReload, DeqReload
  <2>6. CASE EnqLoadSeq(t) \/ DeqLoadSeq(t)
    <3>1. \E step \in Steps : Branch(t, step) /\ UNCHANGED shared
      BY <2>6 DEF EnqLoadSeq, DeqLoadSeq, EnqBranch, DeqBranch
    <3>2. PICK step \in Steps : Branch(t, step) /\ UNCHANGED shared
      BY <3>1
    <3>. QED  BY <3>2
  <2>2. CASE EnqCas(t) \/ DeqCas(t)
    BY <2>2 DEF EnqCas, DeqCas
  <2>3. CASE EnqWrite(t) \/ DeqRead(t)
    BY <2>0, <2>3 DEF EnqWrite, DeqRead
  <2>4. CASE EnqPublish(t)
    BY <2>0, <2>4 DEF EnqPublish
  <2>5. CASE DeqRelease(t)
    <3>1. NextLap(pos[t]) \in Nat
      BY SizeNat DEF NextLap
    <3>. QED  BY <2>0, <2>5, <3>1 DEF DeqRelease
  <2>. QED  BY <1>3, <2>1, <2>2, <2>3, <2>4, <2>5, <2>6 DEF Step
<1>4. CASE UNCHANGED vars
  BY <1>4 DEF vars
<1>. QED  BY <1>1, <1>2, <1>3, <1>4 DEF Next


\* The cells claimed by two threads are different: two claims of one kind
\* are less than a lap apart, and an enqueuer and a dequeuer of one cell
\* would read different sequence numbers in it.
LEMMA ClaimsDisjoint ==
  ASSUME CellLifecycle
  PROVE  NoDataRace
<1>. USE DEF CellLifecycle
<1>. SUFFICES ASSUME NEW t \in Threads, NEW u \in Threads, t # u,
                     Enqueuing(t) \/ Dequeuing(t), Enqueuing(u) \/ Dequeuing(u),
                     Cell(pos[t]) = Cell(pos[u])
              PROVE  FALSE
  BY DEF NoDataRace
<1>1. pos[t] \in Int /\ pos[u] \in Int /\ m_enqueue_pos \in Int /\ m_dequeue_pos \in Int
  BY DEF TypeOK
<1>2. /\ pos[t] < pos[u] => pos[t] + Size <= pos[u]
      /\ pos[u] < pos[t] => pos[u] + Size <= pos[t]
  BY <1>1, SameCell
<1>3. CASE Enqueuing(t) /\ Enqueuing(u)
  BY <1>1, <1>2, <1>3, SizeNat DEF Claims, Window
<1>4. CASE Dequeuing(t) /\ Dequeuing(u)
  BY <1>1, <1>2, <1>4, SizeNat DEF Claims, Window
<1>5. CASE Enqueuing(t) /\ Dequeuing(u)
  BY <1>1, <1>2, <1>5, SizeNat DEF Claims, Window
<1>6. CASE Dequeuing(t) /\ Enqueuing(u)
  BY <1>1, <1>2, <1>6, SizeNat DEF Claims, Window
<1>. QED  BY <1>3, <1>4, <1>5, <1>6

\* A step that moves no position, changes no sequence number and leaves every
\* thread with the claim it had.
LEMMA SameClaims ==
  ASSUME CellLifecycle,
         UNCHANGED <<sequence, m_enqueue_pos, m_dequeue_pos>>,
         \A u \in Threads : /\ Enqueuing(u)' <=> Enqueuing(u)
                            /\ Dequeuing(u)' <=> Dequeuing(u)
                            /\ Enqueuing(u) \/ Dequeuing(u) => pos'[u] = pos[u]
  PROVE  Window' /\ Claims' /\ Turns'
<1>1. Window'
  BY DEF CellLifecycle, Window
<1>2. Claims'
  BY DEF CellLifecycle, Claims
<1>3. Turns'
  BY DEF CellLifecycle, Turns, Turn
<1>. QED  BY <1>1, <1>2, <1>3

\* Loading a position (the start of either call) changes no cell and claims none.
LEMMA TryStep ==
  ASSUME CellLifecycle, NEW t \in Threads,
         TryDequeue(t) \/ \E v \in Values : TryEnqueue(t, v)
  PROVE  Window' /\ Claims' /\ Turns' /\ Attempts'
<1>. USE DEF CellLifecycle, TryDequeue, TryEnqueue, GoTo, shared
<1>1. \A u \in Threads : /\ Enqueuing(u)' <=> Enqueuing(u)
                         /\ Dequeuing(u)' <=> Dequeuing(u)
                         /\ Enqueuing(u) \/ Dequeuing(u) => pos'[u] = pos[u]
  BY DEF Enqueuing, Dequeuing, TypeOK
<1>2. Window' /\ Claims' /\ Turns'
  BY <1>1, SameClaims
<1>3. Attempts'
  <2>. SUFFICES ASSUME NEW u \in Threads PROVE Attempt(u)'
    BY DEF Attempts
  <2>1. CASE u = t
    BY <2>1 DEF Attempts, Attempt, TypeOK
  <2>2. CASE u # t
    BY <2>2 DEF Attempts, Attempt, TypeOK
  <2>. QED  BY <2>1, <2>2
<1>. QED  BY <1>2, <1>3

\* Reading a sequence number and reloading a position change no cell; the number read
\* is what the attempt remembers, and is still in the cell.
LEMMA LookStep ==
  ASSUME CellLifecycle, NEW t \in Threads,
         EnqLoadSeq(t) \/ EnqReload(t) \/ DeqLoadSeq(t) \/ DeqReload(t)
  PROVE  Window' /\ Claims' /\ Turns' /\ Attempts'
<1>. USE DEF CellLifecycle, EnqLoadSeq, EnqReload, DeqLoadSeq, DeqReload,
             EnqBranch, DeqBranch, Branch, Return, Published, GoTo, shared
<1>1. \A u \in Threads : /\ Enqueuing(u)' <=> Enqueuing(u)
                         /\ Dequeuing(u)' <=> Dequeuing(u)
                         /\ Enqueuing(u) \/ Dequeuing(u) => pos'[u] = pos[u]
  BY DEF Enqueuing, Dequeuing, TypeOK
<1>2. Window' /\ Claims' /\ Turns'
  BY <1>1, SameClaims
<1>3. pos[t] \in Int /\ Cell(pos[t]) \in 0..Size-1
  BY CellType DEF TypeOK
<1>4. Attempts'
  <2>. SUFFICES ASSUME NEW u \in Threads PROVE Attempt(u)'
    BY DEF Attempts
  <2>1. CASE u = t
    <3>1. CASE EnqLoadSeq(t) \/ DeqLoadSeq(t)
      <4>0. CASE pc'[t] = "idle"
        BY <2>1, <4>0 DEF Attempt
      <4>1. pc'[t] # "idle" => sequence[Cell(pos[t])] \in Int /\ pos' = pos
        BY <1>3, <3>1 DEF TypeOK
      <4>2. CASE EnqLoadSeq(t)
        BY <1>3, <2>1, <4>0, <4>1, <4>2 DEF Attempts, Attempt, TypeOK
      <4>3. CASE DeqLoadSeq(t)
        BY <1>3, <2>1, <4>0, <4>1, <4>3 DEF Attempts, Attempt, TypeOK
      <4>. QED  BY <3>1, <4>2, <4>3
    <3>2. CASE EnqReload(t) \/ DeqReload(t)
      BY <2>1, <3>2 DEF Attempts, Attempt, TypeOK
    <3>. QED  BY <3>1, <3>2
  <2>2. CASE u # t
    BY <2>2 DEF Attempts, Attempt, TypeOK
  <2>. QED  BY <2>1, <2>2
<1>. QED  BY <1>2, <1>4

\* Writing or moving out the data leaves positions and sequence numbers alone.
LEMMA DataStep ==
  ASSUME CellLifecycle, NEW t \in Threads, EnqWrite(t) \/ DeqRead(t)
  PROVE  Window' /\ Claims' /\ Turns' /\ Attempts'
<1>. USE DEF CellLifecycle, EnqWrite, DeqRead, GoTo
<1>1. \A u \in Threads : /\ Enqueuing(u)' <=> Enqueuing(u)
                         /\ Dequeuing(u)' <=> Dequeuing(u)
                         /\ Enqueuing(u) \/ Dequeuing(u) => pos'[u] = pos[u]
  BY DEF Enqueuing, Dequeuing, TypeOK
<1>2. Window' /\ Claims' /\ Turns'
  BY <1>1, SameClaims
<1>3. Attempts'
  <2>. SUFFICES ASSUME NEW u \in Threads PROVE Attempt(u)'
    BY DEF Attempts
  <2>1. CASE u = t
    BY <2>1 DEF Attempts, Attempt, TypeOK
  <2>2. CASE u # t
    BY <2>2 DEF Attempts, Attempt, TypeOK
  <2>. QED  BY <2>1, <2>2
<1>. QED  BY <1>2, <1>3

\* A compare-and-swap that fails only reloads the position.
LEMMA FailedCas ==
  ASSUME CellLifecycle, NEW t \in Threads,
         \/ EnqCas(t) /\ m_enqueue_pos # pos[t]
         \/ DeqCas(t) /\ m_dequeue_pos # pos[t]
  PROVE  Window' /\ Claims' /\ Turns' /\ Attempts'
<1>. USE DEF CellLifecycle, EnqCas, DeqCas, GoTo
<1>1. \A u \in Threads : /\ Enqueuing(u)' <=> Enqueuing(u)
                         /\ Dequeuing(u)' <=> Dequeuing(u)
                         /\ Enqueuing(u) \/ Dequeuing(u) => pos'[u] = pos[u]
  BY DEF Enqueuing, Dequeuing, TypeOK
<1>2. Window' /\ Claims' /\ Turns'
  BY <1>1, SameClaims
<1>3. Attempts'
  <2>. SUFFICES ASSUME NEW u \in Threads PROVE Attempt(u)'
    BY DEF Attempts
  <2>1. CASE u = t
    BY <2>1 DEF Attempts, Attempt, TypeOK
  <2>2. CASE u # t
    BY <2>2 DEF Attempts, Attempt, TypeOK
  <2>. QED  BY <2>1, <2>2
<1>. QED  BY <1>2, <1>3

\* The thread that wins the enqueue position finds its cell free, so the
\* position it claims is less than a lap ahead of every dequeuer.
LEMMA EnqClaim ==
  ASSUME CellLifecycle, NEW t \in Threads, EnqCas(t), m_enqueue_pos = pos[t]
  PROVE  Window' /\ Claims' /\ Turns' /\ Attempts'
<1>. USE DEF CellLifecycle
<1>0. /\ m_enqueue_pos \in Nat /\ m_dequeue_pos \in Nat
      /\ \A u \in Threads : pos[u] \in Nat
  BY DEF TypeOK
<1>1. /\ pc[t] = "enq_cas" /\ pc' = [pc EXCEPT ![t] = "enq_write"]
      /\ m_enqueue_pos' = m_enqueue_pos + 1
      /\ UNCHANGED <<sequence, m_dequeue_pos, pos>>
  BY DEF EnqCas, GoTo
<1>2. /\ Enqueuing(t)' /\ ~Dequeuing(t)' /\ ~Enqueuing(t) /\ ~Dequeuing(t)
      /\ \A u \in Threads : u # t => /\ Enqueuing(u)' <=> Enqueuing(u)
                                     /\ Dequeuing(u)' <=> Dequeuing(u)
  BY <1>1 DEF Enqueuing, Dequeuing, TypeOK
<1>3. sequence[Cell(m_enqueue_pos)] = m_enqueue_pos
  BY <1>1 DEF Attempts, Attempt
<1>4. Turn(m_enqueue_pos)
  BY <1>0, SizeNat DEF Turns
<1>5. m_enqueue_pos < m_dequeue_pos + Size
  BY <1>0, <1>3, <1>4, SizeNat DEF Turn
<1>6. Window'
  BY <1>0, <1>1, <1>5, SizeNat DEF Window
<1>7. ASSUME NEW u \in Threads, Dequeuing(u)
      PROVE  m_enqueue_pos < pos[u] + Size
  <2>. SUFFICES ASSUME m_enqueue_pos = pos[u] + Size PROVE FALSE
    BY <1>0, <1>7, SizeNat DEF Claims
  <2>1. Cell(m_enqueue_pos) = Cell(pos[u])
    BY <1>0, NextLapCell
  <2>. QED  BY <1>0, <1>3, <1>7, <2>1, SizeNat DEF Claims
<1>8. Claims'
  BY <1>0, <1>1, <1>2, <1>3, <1>7, SizeNat DEF Claims, Window
<1>9. Turns'
  <2>. SUFFICES ASSUME NEW p \in m_enqueue_pos + 1 .. m_enqueue_pos + Size
                PROVE  Turn(p)'
    BY <1>0, <1>1, SizeNat DEF Turns
  <2>1. CASE p = m_enqueue_pos + Size
    <3>1. Cell(p) = Cell(m_enqueue_pos) /\ p - Size = m_enqueue_pos
      BY <1>0, <2>1, NextLapCell, SizeNat
    <3>. QED  BY <1>1, <1>2, <1>3, <3>1 DEF Turn
  <2>2. CASE p # m_enqueue_pos + Size
    <3>1. Turn(p)
      BY <1>0, <2>2, SizeNat DEF Turns
    <3>. QED  BY <1>1, <1>2, <3>1 DEF Turn
  <2>. QED  BY <2>1, <2>2
<1>10. Attempts'
  <2>. SUFFICES ASSUME NEW u \in Threads PROVE Attempt(u)'
    BY DEF Attempts
  <2>. QED  BY <1>0, <1>1 DEF Attempts, Attempt, TypeOK
<1>. QED  BY <1>6, <1>8, <1>9, <1>10

\* The thread that wins the dequeue position finds its item published, so
\* that position was claimed by an enqueuer that is done with the cell.
LEMMA DeqClaim ==
  ASSUME CellLifecycle, NEW t \in Threads, DeqCas(t), m_dequeue_pos = pos[t]
  PROVE  Window' /\ Claims' /\ Turns' /\ Attempts'
<1>. USE DEF CellLifecycle
<1>0. /\ m_enqueue_pos \in Nat /\ m_dequeue_pos \in Nat
      /\ \A u \in Threads : pos[u] \in Nat
  BY DEF TypeOK
<1>1. /\ pc[t] = "deq_cas" /\ pc' = [pc EXCEPT ![t] = "deq_read"]
      /\ m_dequeue_pos' = m_dequeue_pos + 1
      /\ UNCHANGED <<sequence, m_enqueue_pos, pos>>
  BY DEF DeqCas, GoTo
<1>2. /\ Dequeuing(t)' /\ ~Enqueuing(t)' /\ ~Enqueuing(t) /\ ~Dequeuing(t)
      /\ \A u \in Threads : u # t => /\ Enqueuing(u)' <=> Enqueuing(u)
                                     /\ Dequeuing(u)' <=> Dequeuing(u)
  BY <1>1 DEF Enqueuing, Dequeuing, TypeOK
<1>3. sequence[Cell(m_dequeue_pos)] = m_dequeue_pos + 1
  BY <1>1 DEF Attempts, Attempt
<1>4. Turn(m_enqueue_pos)
  BY <1>0, SizeNat DEF Turns
<1>5. m_dequeue_pos < m_enqueue_pos
  BY <1>0, <1>3, <1>4, SizeNat DEF Turn, Window
<1>6. Window'
  BY <1>0, <1>1, <1>5, SizeNat DEF Window
<1>7. ASSUME NEW u \in Threads, Enqueuing(u)
      PROVE  m_dequeue_pos < pos[u]
  BY <1>0, <1>3, <1>7 DEF Claims
<1>8. Claims'
  BY <1>0, <1>1, <1>2, <1>3, <1>7, SizeNat DEF Claims, Window
<1>9. Turns'
  <2>. SUFFICES ASSUME NEW p \in m_enqueue_pos .. m_enqueue_pos + Size - 1
                PROVE  Turn(p)'
    BY <1>0, <1>1, SizeNat DEF Turns
  <2>1. Turn(p)
    BY DEF Turns
  <2>. QED  BY <1>0, <1>1, <1>2, <2>1, SizeNat DEF Turn
<1>10. Attempts'
  <2>. SUFFICES ASSUME NEW u \in Threads PROVE Attempt(u)'
    BY DEF Attempts
  <2>. QED  BY <1>0, <1>1 DEF Attempts, Attempt, TypeOK
<1>. QED  BY <1>6, <1>8, <1>9, <1>10

\* Publishing or releasing a cell writes the sequence number of a cell that
\* no other claim and no pending compare-and-swap depends on.
LEMMA PublishStep ==
  ASSUME CellLifecycle, TypeOK', NEW t \in Threads, EnqPublish(t) \/ DeqRelease(t)
  PROVE  Window' /\ Claims' /\ Turns' /\ Attempts'
<1>. USE DEF CellLifecycle
<1>0. /\ m_enqueue_pos \in Nat /\ m_dequeue_pos \in Nat
      /\ \A u \in Threads : pos[u] \in Nat /\ Cell(pos[u]) \in 0..Size-1
      /\ sequence \in [0..Size-1 -> Nat]
  <2>1. \A u \in Threads : pos[u] \in Nat /\ pos[u] \in Int
    BY DEF TypeOK
  <2>. QED  BY <2>1, CellType DEF TypeOK
<1>1. /\ pc' = [pc EXCEPT ![t] = "idle"]
      /\ UNCHANGED <<m_enqueue_pos, m_dequeue_pos>>
      /\ pos' = [pos EXCEPT ![t] = 0]
      /\ \/ /\ Enqueuing(t) /\ sequence[Cell(pos[t])] = pos[t]
            /\ sequence' = [sequence EXCEPT ![Cell(pos[t])] = pos[t] + 1]
         \/ /\ Dequeuing(t) /\ sequence[Cell(pos[t])] = pos[t] + 1
            /\ sequence' = [sequence EXCEPT ![Cell(pos[t])] = pos[t] + Size]
  <2>1. CASE EnqPublish(t)
    BY <2>1 DEF EnqPublish, Return, GoTo, Enqueuing, Claims
  <2>2. CASE DeqRelease(t)
    BY <2>2 DEF DeqRelease, Return, GoTo, NextLap, Dequeuing, Claims
  <2>. QED  BY <2>1, <2>2
<1>2. /\ ~Enqueuing(t)' /\ ~Dequeuing(t)' /\ (Enqueuing(t) \/ Dequeuing(t))
      /\ \A u \in Threads : u # t => /\ Enqueuing(u)' <=> Enqueuing(u)
                                     /\ Dequeuing(u)' <=> Dequeuing(u)
  BY <1>1 DEF Enqueuing, Dequeuing, TypeOK
<1>3. \A c \in 0..Size-1 : c # Cell(pos[t]) => sequence'[c] = sequence[c]
  BY <1>0, <1>1
<1>4. Window'
  BY <1>1 DEF Window
<1>5. Claims'
  <2>1. \A u \in Threads : u # t /\ (Enqueuing(u) \/ Dequeuing(u))
                             => sequence'[Cell(pos[u])] = sequence[Cell(pos[u])]
    BY <1>0, <1>2, <1>3, ClaimsDisjoint DEF NoDataRace
  <2>. HIDE DEF CellLifecycle
  <2>0. /\ m_enqueue_pos' = m_enqueue_pos /\ m_dequeue_pos' = m_dequeue_pos
        /\ \A u \in Threads : u # t => pos'[u] = pos[u]
        /\ Claims
    BY <1>1 DEF CellLifecycle, TypeOK
  <2>a. \A u \in Threads : /\ Enqueuing(u)' => u # t /\ Enqueuing(u)
                           /\ Dequeuing(u)' => u # t /\ Dequeuing(u)
    BY <1>2
  <2>2. \A u \in Threads : Enqueuing(u)' =>
           /\ m_dequeue_pos' <= pos'[u] /\ pos'[u] < m_enqueue_pos'
           /\ sequence'[Cell(pos'[u])] = pos'[u]
    BY <2>0, <2>a, <2>1 DEF Claims
  <2>3. \A u \in Threads : Dequeuing(u)' =>
           /\ pos'[u] < m_dequeue_pos' /\ m_enqueue_pos' <= pos'[u] + Size
           /\ sequence'[Cell(pos'[u])] = pos'[u] + 1
    BY <2>0, <2>a, <2>1 DEF Claims
  <2>4. \A u, w \in Threads : u # w /\ pos'[u] = pos'[w] =>
           ~(Enqueuing(u)' /\ Enqueuing(w)') /\ ~(Dequeuing(u)' /\ Dequeuing(w)')
    BY <2>0, <2>a DEF Claims
  <2>. QED  BY <2>2, <2>3, <2>4 DEF Claims
<1>6. pos[t] < m_enqueue_pos /\ m_enqueue_pos <= pos[t] + Size
  BY <1>0, <1>2, SizeNat DEF Claims, Window
<1>7. Turns'
  <2>. SUFFICES ASSUME NEW p \in m_enqueue_pos .. m_enqueue_pos + Size - 1
                PROVE  Turn(p)'
    BY <1>0, <1>1, SizeNat DEF Turns
  <2>a. p \in Int /\ p - Size \in Int
    BY <1>0, SizeNat
  <2>0. p \in Int /\ p - Size \in Int /\ Cell(p) \in 0..Size-1
    BY <2>a, CellType
  <2>1. CASE p = pos[t] + Size
    <3>1. Cell(p) = Cell(pos[t]) /\ p - Size = pos[t]
      <4>1. pos[t] \in Int
        BY <1>0
      <4>. QED  BY <2>1, <4>1, NextLapCell, SizeNat
    <3>2. CASE Enqueuing(t) /\ sequence' = [sequence EXCEPT ![Cell(pos[t])] = pos[t] + 1]
      <4>1. sequence'[Cell(p)] = (p - Size) + 1 /\ m_dequeue_pos' <= p - Size
        BY <1>0, <1>1, <3>1, <3>2 DEF Claims
      <4>. QED  BY <4>1 DEF Turn
    <3>3. CASE Dequeuing(t) /\ sequence' = [sequence EXCEPT ![Cell(pos[t])] = pos[t] + Size]
      <4>1. sequence'[Cell(p)] = p /\ p - Size < m_dequeue_pos'
        BY <1>0, <1>1, <2>1, <3>1, <3>3 DEF Claims
      <4>. QED  BY <4>1 DEF Turn
    <3>. QED  BY <1>1, <3>2, <3>3
  <2>2. CASE p # pos[t] + Size
    <3>1. Cell(p) # Cell(pos[t])
      <4>. SUFFICES ASSUME Cell(p) = Cell(pos[t]) PROVE FALSE
        OBVIOUS
      <4>1. pos[t] + Size < p
        BY <1>0, <1>6, <2>0, <2>2, SameCell, SizeNat
      <4>2. Cell(pos[t] + Size) = Cell(p)
        BY <1>0, NextLapCell
      <4>3. pos[t] + Size + Size <= p
        BY <1>0, <2>0, <4>1, <4>2, SameCell, SizeNat
      <4>. QED  BY <1>0, <1>6, <4>3, SizeNat
    <3>2. sequence'[Cell(p)] = sequence[Cell(p)] /\ pos[t] # p - Size
      BY <1>0, <1>3, <2>0, <2>2, <3>1, SizeNat
    <3>3. Turn(p)
      BY DEF Turns
    <3>. QED  BY <1>1, <1>2, <3>2, <3>3 DEF Turn
  <2>. QED  BY <2>1, <2>2
<1>8. Attempts'
  <2>. SUFFICES ASSUME NEW u \in Threads PROVE Attempt(u)'
    BY DEF Attempts
  <2>0. Attempt(u)
    BY DEF Attempts
  <2>1. ASSUME pc[u] = "enq_cas", pos[u] = m_enqueue_pos, Cell(pos[u]) = Cell(pos[t])
        PROVE  FALSE
    <3>1. pos[t] + Size <= pos[u]
      BY <1>0, <1>6, <2>1, SameCell
    <3>. QED  BY <1>0, <1>1, <2>0, <2>1, <3>1, SizeNat DEF Attempt
  <2>2. ASSUME pc[u] = "deq_cas", pos[u] = m_dequeue_pos, Cell(pos[u]) = Cell(pos[t])
        PROVE  FALSE
    <3>1. /\ pos[t] < pos[u] => pos[t] + Size <= pos[u]
          /\ pos[u] < pos[t] => pos[u] + Size <= pos[t]
      BY <1>0, <2>2, SameCell
    <3>2. sequence[Cell(pos[t])] = pos[u] + 1
      BY <2>0, <2>2 DEF Attempt
    <3>. QED  BY <1>0, <1>1, <1>2, <2>2, <3>1, <3>2, SizeNat DEF Claims
  <2>. QED  BY <1>0, <1>1, <1>3, <2>0, <2>1, <2>2 DEF Attempt, TypeOK
<1>. QED  BY <1>4, <1>5, <1>7, <1>8

-----------------------------------------------------------------------------
\* The constructor establishes the invariant: cell i holds sequence number i.
LEMMA LifecycleInit ==
  ASSUME Init
  PROVE  CellLifecycle
<1>. USE DEF Init
<1>1. TypeOK
  BY SizeNat DEF TypeOK, Steps
<1>2. Window /\ Claims /\ Attempts
  BY SizeNat DEF Window, Claims, Attempts, Attempt, Enqueuing, Dequeuing
<1>3. Turns
  <2>. SUFFICES ASSUME NEW p \in 0..Size-1 PROVE Turn(p)
    BY SizeNat DEF Turns
  <2>1. Cell(p) = p
    BY SizeNat DEF Cell
  <2>. QED  BY <2>1, SizeNat DEF Turn
<1>. QED  BY <1>1, <1>2, <1>3 DEF CellLifecycle

\* Every step of either call preserves the invariant.
LEMMA LifecycleStep ==
  ASSUME CellLifecycle, [Next]_vars
  PROVE  CellLifecycle'
<1>1. TypeOK'
  BY TypeStep DEF CellLifecycle
<1>2. Window' /\ Claims' /\ Turns' /\ Attempts'
  <2>1. ASSUME NEW t \in Threads, TryDequeue(t) \/ \E v \in Values : TryEnqueue(t, v)
        PROVE  Window' /\ Claims' /\ Turns' /\ Attempts'
    BY <2>1, TryStep
  <2>2. ASSUME NEW t \in Threads, Step(t)
        PROVE  Window' /\ Claims' /\ Turns' /\ Attempts'
    <3>1. CASE EnqLoadSeq(t) \/ EnqReload(t) \/ DeqLoadSeq(t) \/ DeqReload(t)
      BY <3>1, LookStep
    <3>2. CASE EnqCas(t)
      BY <3>2, FailedCas, EnqClaim
    <3>3. CASE DeqCas(t)
      BY <3>3, FailedCas, DeqClaim
    <3>4. CASE EnqWrite(t) \/ DeqRead(t)
      BY <3>4, DataStep
    <3>5. CASE EnqPublish(t) \/ DeqRelease(t)
      BY <1>1, <3>5, PublishStep
    <3>. QED  BY <2>2, <3>1, <3>2, <3>3, <3>4, <3>5 DEF Step
  <2>3. CASE UNCHANGED vars
    BY <2>3 DEF vars, CellLifecycle, Window, Claims, Turns, Turn, Attempts, Attempt,
                Enqueuing, Dequeuing
  <2>. QED  BY <2>1, <2>2, <2>3 DEF Next
<1>. QED  BY <1>1, <1>2 DEF CellLifecycle

\* Every reachable state of the queue is well typed and every cell is owned
\* by at most one party, with the sequence number that says so.
THEOREM LifecycleCorrect == Spec => []CellLifecycle
<1>1. Init => CellLifecycle
  BY LifecycleInit
<1>2. CellLifecycle /\ [Next]_vars => CellLifecycle'
  BY LifecycleStep
<1>. QED  BY <1>1, <1>2, PTL DEF Spec

\* The unprotected accesses to cell::data in try_enqueue and try_dequeue
\* never race, for any number of threads and any buffer size.
THEOREM DataRaceFree == Spec => []NoDataRace
<1>1. CellLifecycle => NoDataRace
  BY ClaimsDisjoint
<1>. QED  BY <1>1, LifecycleCorrect, PTL

\* Whatever cell a thread looks at, its sequence number is that of the
\* position q of the next lap, or belongs to position q - Size.
LEMMA SequenceOf ==
  ASSUME CellLifecycle, NEW p \in Nat
  PROVE  \E q \in m_enqueue_pos..(m_enqueue_pos + Size - 1) : Cell(q) = Cell(p) /\ Turn(q)
<1>1. m_enqueue_pos \in Int /\ p \in Int
  BY DEF CellLifecycle, TypeOK
<1>2. PICK q \in m_enqueue_pos..(m_enqueue_pos + Size - 1) : Cell(q) = Cell(p)
  BY <1>1, WindowPosition
<1>3. Turn(q)
  BY DEF CellLifecycle, Turns
<1>. QED  BY <1>2, <1>3

\* try_enqueue returns false only if the queue is full or a dequeuer still has the cell.
LEMMA EnqueueFails ==
  ASSUME CellLifecycle, NEW t \in Threads, pc[t] = "enq_seq", sequence[Cell(pos[t])] < pos[t]
  PROVE  \/ m_enqueue_pos = m_dequeue_pos + Size
         \/ \E u \in Threads : Dequeuing(u) /\ pos[u] = m_enqueue_pos - Size
<1>. USE DEF CellLifecycle
<1>0. pos[t] \in Nat /\ m_enqueue_pos \in Nat /\ m_dequeue_pos \in Nat /\ pos[t] <= m_enqueue_pos
  BY DEF TypeOK, Attempts, Attempt
<1>1. PICK q \in m_enqueue_pos..(m_enqueue_pos + Size - 1) : Cell(q) = Cell(pos[t]) /\ Turn(q)
  BY <1>0, SequenceOf
<1>2. q \in Int
  BY <1>0, SizeNat
<1>3. sequence[Cell(pos[t])] >= q - Size
  BY <1>1, <1>2, SizeNat DEF Turn
<1>4. pos[t] >= q
  <2>1. sequence[Cell(pos[t])] \in Int
    BY <1>1, <1>2, SizeNat DEF Turn
  <2>2. pos[t] < q => pos[t] + Size <= q
    BY <1>0, <1>1, <1>2, SameCell
  <2>. QED  BY <1>0, <1>2, <1>3, <2>1, <2>2, SizeNat
<1>5. q = m_enqueue_pos /\ pos[t] = m_enqueue_pos
  BY <1>0, <1>1, <1>2, <1>4, SizeNat
<1>. QED  BY <1>0, <1>1, <1>5, SizeNat DEF Turn, Claims, Window

\* try_dequeue returns false only if the queue is empty or an enqueuer still has the cell.
LEMMA DequeueFails ==
  ASSUME CellLifecycle, NEW t \in Threads, pc[t] = "deq_seq", sequence[Cell(pos[t])] < pos[t] + 1
  PROVE  \/ m_dequeue_pos = m_enqueue_pos
         \/ \E u \in Threads : Enqueuing(u) /\ pos[u] = m_dequeue_pos
<1>. USE DEF CellLifecycle
<1>0. pos[t] \in Nat /\ m_enqueue_pos \in Nat /\ m_dequeue_pos \in Nat /\ pos[t] <= m_dequeue_pos
  BY DEF TypeOK, Attempts, Attempt
<1>. SUFFICES ASSUME m_dequeue_pos < m_enqueue_pos
              PROVE  \E u \in Threads : Enqueuing(u) /\ pos[u] = m_dequeue_pos
  BY <1>0 DEF Window
<1>1. PICK q \in m_enqueue_pos..(m_enqueue_pos + Size - 1) : Cell(q) = Cell(pos[t]) /\ Turn(q)
  BY <1>0, SequenceOf
<1>2. q \in Int
  BY <1>0, SizeNat
<1>3. pos[t] + Size <= q
  BY <1>0, <1>1, <1>2, SizeNat, SameCell
<1>4. sequence[Cell(pos[t])] = q - Size /\ \E u \in Threads : Enqueuing(u) /\ pos[u] = q - Size
  BY <1>0, <1>1, <1>2, <1>3, SizeNat DEF Turn
<1>5. PICK u \in Threads : Enqueuing(u) /\ pos[u] = q - Size
  BY <1>4
<1>6. m_dequeue_pos <= pos[u]
  BY <1>5 DEF Claims
<1>. QED  BY <1>0, <1>2, <1>3, <1>4, <1>5, <1>6, SizeNat

\* A call gives up only when the queue really is full or empty, or the cell it
\* needs is in the hands of a thread that has claimed it.
THEOREM FailuresAreJustified == Spec => FailureJustified
<1>1. CellLifecycle /\ [Next]_vars => [JustFailure]_vars
  <2>. SUFFICES ASSUME CellLifecycle, Next, NEW t \in Threads
                PROVE  /\ pc[t] = "enq_seq" /\ pc'[t] = "idle" => sequence[Cell(pos[t])] < pos[t]
                       /\ pc[t] = "deq_seq" /\ pc'[t] = "idle" => sequence[Cell(pos[t])] < pos[t] + 1
    BY EnqueueFails, DequeueFails DEF JustFailure
  <2>0. /\ pc \in [Threads -> Steps] /\ pos[t] \in Nat /\ pos[t] \in Int
        /\ sequence \in [0..Size-1 -> Nat]
    BY DEF CellLifecycle, TypeOK
  <2>1. sequence[Cell(pos[t])] \in Int
    <3>1. Cell(pos[t]) \in 0..Size-1
      BY <2>0, CellType
    <3>. QED  BY <2>0, <3>1
  <2>2. CASE EnqLoadSeq(t)
    BY <2>0, <2>1, <2>2 DEF EnqLoadSeq, EnqBranch, Branch, GoTo
  <2>3. CASE DeqLoadSeq(t)
    BY <2>0, <2>1, <2>3 DEF DeqLoadSeq, DeqBranch, Branch, Published, GoTo
  <2>4. CASE ~EnqLoadSeq(t) /\ ~DeqLoadSeq(t)
    <3>1. \A u \in Threads : u # t /\ Step(u) => pc'[t] = pc[t]
      BY <2>0 DEF Step, EnqLoadSeq, EnqReload, EnqCas, EnqWrite, EnqPublish, DeqLoadSeq,
         DeqReload, DeqCas, DeqRead, DeqRelease, Branch, GoTo, Return
    <3>2. Step(t) => pc[t] \notin {"enq_seq", "deq_seq"}
      BY <2>4 DEF Step, EnqReload, EnqCas, EnqWrite, EnqPublish,
         DeqReload, DeqCas, DeqRead, DeqRelease
    <3>3. ASSUME NEW u \in Threads, TryDequeue(u) \/ \E v \in Values : TryEnqueue(u, v)
          PROVE  pc[t] \in {"enq_seq", "deq_seq"} => pc'[t] # "idle"
      BY <2>0, <3>3 DEF TryEnqueue, TryDequeue, GoTo
    <3>. QED  BY <3>1, <3>2, <3>3 DEF Next
  <2>. QED  BY <2>2, <2>3, <2>4
<1>. QED  BY <1>1, LifecycleCorrect, PTL DEF Spec, FailureJustified

-----------------------------------------------------------------------------
(* The refinement of Fifo *)

\* What ItemAt is: the value of the one thread that is about to write the
\* item of position p, or what the cell of p holds.
ItemsInv ==
  /\ CellLifecycle
  /\ \A p \in Int, t \in Threads : pc[t] = "enq_write" /\ pos[t] = p => ItemAt(p) = value[t]
  /\ \A p \in Int : (\A t \in Threads : ~(pc[t] = "enq_write" /\ pos[t] = p)) => ItemAt(p) = data[Cell(p)]

LEMMA LifecycleGivesItems == CellLifecycle => ItemsInv
<1>. SUFFICES ASSUME CellLifecycle PROVE ItemsInv
  OBVIOUS
<1>1. ASSUME NEW p \in Int, NEW t \in Threads, pc[t] = "enq_write", pos[t] = p
      PROVE  ItemAt(p) = value[t]
  <2>. DEFINE w == CHOOSE u \in Threads : pc[u] = "enq_write" /\ pos[u] = p
  <2>1. w \in Threads /\ pc[w] = "enq_write" /\ pos[w] = p
    BY <1>1, Zenon
  <2>2. ItemAt(p) = value[w]
    BY <1>1 DEF ItemAt
  <2>. HIDE DEF w
  <2>3. w = t
    BY <1>1, <2>1 DEF CellLifecycle, Claims, Enqueuing
  <2>. QED  BY <2>2, <2>3
<1>2. ASSUME NEW p \in Int, \A t \in Threads : ~(pc[t] = "enq_write" /\ pos[t] = p)
      PROVE  ItemAt(p) = data[Cell(p)]
  BY <1>2 DEF ItemAt
<1>. QED  BY <1>1, <1>2 DEF ItemsInv

\* Between the claim of its position and its release every item is a value
\* some caller enqueued.
HeldInv ==
  /\ \A t \in Threads : pc[t] \in {"enq_seq", "enq_reload", "enq_cas", "enq_write", "deq_release"}
                          => value[t] \in Values
  /\ \A t \in Threads : pc[t] = "deq_read" => data[Cell(pos[t])] \in Values
  /\ \A p \in m_dequeue_pos..(m_enqueue_pos - 1) : ItemAt(p) \in Values

\* A step keeps the items that are still in the queue after it.
Kept == \A p \in m_dequeue_pos..(m_enqueue_pos - 1) : p >= m_dequeue_pos' => ItemAt(p)' = ItemAt(p)

\* The item of a position is the same if the cell's data is, and whoever is
\* about to write it.
LEMMA SameItem ==
  ASSUME ItemsInv, ItemsInv', NEW p \in Int, data'[Cell(p)] = data[Cell(p)],
         \A u \in Threads : /\ pc'[u] = "enq_write" /\ pos'[u] = p <=> pc[u] = "enq_write" /\ pos[u] = p
                            /\ pc[u] = "enq_write" /\ pos[u] = p => value'[u] = value[u]
  PROVE  ItemAt(p)' = ItemAt(p)
<1>1. CASE \E u \in Threads : pc[u] = "enq_write" /\ pos[u] = p
  <2>1. PICK u \in Threads : pc[u] = "enq_write" /\ pos[u] = p
    BY <1>1
  <2>2. pc'[u] = "enq_write" /\ pos'[u] = p /\ value'[u] = value[u]
    BY <2>1
  <2>3. ItemAt(p) = value[u]
    BY <2>1 DEF ItemsInv
  <2>4. ItemAt(p)' = value'[u]
    BY <2>2 DEF ItemsInv
  <2>. QED  BY <2>2, <2>3, <2>4
<1>2. CASE \A u \in Threads : ~(pc[u] = "enq_write" /\ pos[u] = p)
  <2>1. ItemAt(p) = data[Cell(p)]
    BY <1>2 DEF ItemsInv
  <2>2. \A u \in Threads : ~(pc'[u] = "enq_write" /\ pos'[u] = p)
    BY <1>2
  <2>3. ItemAt(p)' = data'[Cell(p)]
    BY <2>2 DEF ItemsInv
  <2>. QED  BY <2>1, <2>3
<1>. QED  BY <1>1, <1>2

\* What a caller that has an item holds.
TakenOf(t) == IF pc[t] = "deq_read" THEN data[Cell(pos[t])] ELSE IF pc[t] = "deq_release" THEN value[t] ELSE None

\* What the proofs of the steps need to know of the types.
LEMMA ItemTypes ==
  ASSUME ItemsInv
  PROVE  /\ m_enqueue_pos \in Nat /\ m_dequeue_pos \in Nat /\ m_dequeue_pos <= m_enqueue_pos
         /\ pc \in [Threads -> Steps] /\ pos \in [Threads -> Nat]
         /\ value \in [Threads -> Values \cup {None}] /\ data \in [0..Size-1 -> Values \cup {None}]
         /\ \A t \in Threads : pos[t] \in Int /\ Cell(pos[t]) \in 0..Size-1
<1>1. /\ m_enqueue_pos \in Nat /\ m_dequeue_pos \in Nat /\ m_dequeue_pos <= m_enqueue_pos
      /\ pc \in [Threads -> Steps] /\ pos \in [Threads -> Nat]
      /\ value \in [Threads -> Values \cup {None}] /\ data \in [0..Size-1 -> Values \cup {None}]
  BY DEF ItemsInv, CellLifecycle, TypeOK, Window
<1>2. \A t \in Threads : pos[t] \in Int
  BY <1>1
<1>. QED  BY <1>1, <1>2, CellType

\* Steps that claim nothing and touch no data: the items stay, and only the
\* thread that returns from try_dequeue lets go of what it holds.
QuietStep(t) ==
  \/ TryDequeue(t) \/ \E v \in Values : TryEnqueue(t, v)
  \/ EnqLoadSeq(t) \/ EnqReload(t) \/ DeqLoadSeq(t) \/ DeqReload(t) \/ EnqPublish(t)
  \/ EnqCas(t) /\ m_enqueue_pos # pos[t]
  \/ DeqCas(t) /\ m_dequeue_pos # pos[t]

LEMMA QuietSteps ==
  ASSUME ItemsInv, NEW t \in Threads, QuietStep(t) \/ DeqRelease(t)
  PROVE  /\ UNCHANGED <<data, m_enqueue_pos, m_dequeue_pos>>
         /\ pc' = [pc EXCEPT ![t] = pc'[t]]
         /\ pc[t] \notin {"enq_write", "deq_read"} /\ pc'[t] \notin {"enq_write", "deq_read", "deq_release"}
         /\ \A u \in Threads \ {t} : pc'[u] = pc[u] /\ pos'[u] = pos[u] /\ value'[u] = value[u]
<1>. USE ItemTypes DEF GoTo, Return, Branch, shared
<1>1. CASE TryDequeue(t) \/ \E v \in Values : TryEnqueue(t, v)
  BY <1>1 DEF TryDequeue, TryEnqueue
<1>2. CASE EnqLoadSeq(t) \/ DeqLoadSeq(t)
  BY <1>2 DEF EnqLoadSeq, EnqBranch, DeqLoadSeq, DeqBranch
<1>3. CASE EnqReload(t) \/ DeqReload(t)
  BY <1>3 DEF EnqReload, DeqReload
<1>4. CASE EnqPublish(t) \/ DeqRelease(t)
  BY <1>4 DEF EnqPublish, DeqRelease
<1>5. CASE EnqCas(t) /\ m_enqueue_pos # pos[t]
  BY <1>5 DEF EnqCas
<1>6. CASE DeqCas(t) /\ m_dequeue_pos # pos[t]
  BY <1>6 DEF DeqCas
<1>. QED  BY <1>1, <1>2, <1>3, <1>4, <1>5, <1>6 DEF QuietStep

LEMMA QuietKeeps ==
  ASSUME ItemsInv, ItemsInv', NEW t \in Threads, QuietStep(t) \/ DeqRelease(t)
  PROVE  Kept /\ \A u \in Threads \ {t} : TakenOf(u)' = TakenOf(u)
<1>1. /\ data' = data
      /\ pc[t] # "enq_write" /\ pc'[t] # "enq_write"
      /\ \A u \in Threads \ {t} : pc'[u] = pc[u] /\ pos'[u] = pos[u] /\ value'[u] = value[u]
  BY QuietSteps
<1>2. \A p \in Int : ItemAt(p)' = ItemAt(p)
  BY <1>1, SameItem
<1>3. \A p \in m_dequeue_pos..(m_enqueue_pos - 1) : p \in Int
  BY ItemTypes
<1>. QED  BY <1>1, <1>2, <1>3 DEF Kept, TakenOf

\* Writing the item puts it where it already counted as being, in a cell no
\* other item and no dequeuer is in.
LEMMA WrittenStep ==
  ASSUME ItemsInv, ItemsInv', NEW t \in Threads, EnqWrite(t)
  PROVE  Kept /\ \A u \in Threads : TakenOf(u)' = TakenOf(u)
<1>. USE ItemTypes
<1>1. /\ pc[t] = "enq_write" /\ pc' = [pc EXCEPT ![t] = "enq_publish"]
      /\ data' = [data EXCEPT ![Cell(pos[t])] = value[t]]
      /\ UNCHANGED <<m_enqueue_pos, m_dequeue_pos, pos, value>>
  BY DEF EnqWrite, GoTo
<1>2. m_dequeue_pos <= pos[t] /\ pos[t] < m_enqueue_pos /\ m_enqueue_pos <= m_dequeue_pos + Size
  BY <1>1 DEF ItemsInv, CellLifecycle, Claims, Window, Enqueuing
<1>3. \A u \in Threads : u # t /\ pc[u] = "enq_write" => pos[u] # pos[t]
  BY <1>1 DEF ItemsInv, CellLifecycle, Claims, Enqueuing
<1>4. Kept
  <2>. SUFFICES ASSUME NEW p \in m_dequeue_pos..(m_enqueue_pos - 1) PROVE ItemAt(p)' = ItemAt(p)
    BY DEF Kept
  <2>0. p \in Int
    OBVIOUS
  <2>1. CASE p = pos[t]
    <3>1. ItemAt(p) = value[t]
      BY <1>1, <2>0, <2>1 DEF ItemsInv
    <3>2. \A u \in Threads : ~(pc'[u] = "enq_write" /\ pos'[u] = p)
      BY <1>1, <1>3, <2>1
    <3>3. ItemAt(p)' = data'[Cell(p)]
      BY <2>0, <3>2 DEF ItemsInv
    <3>4. data'[Cell(p)] = value[t]
      BY <1>1, <2>1
    <3>. QED  BY <3>1, <3>3, <3>4
  <2>2. CASE p # pos[t]
    <3>1. p < pos[t] /\ Cell(p) = Cell(pos[t]) => p + Size <= pos[t]
      BY <2>0, SameCell
    <3>2. pos[t] < p /\ Cell(p) = Cell(pos[t]) => pos[t] + Size <= p
      BY <2>0, SameCell
    <3>3. Cell(p) # Cell(pos[t])
      BY <1>2, <2>2, <3>1, <3>2, SizeNat
    <3>4. Cell(p) \in 0..Size-1
      BY <2>0, CellType
    <3>5. data'[Cell(p)] = data[Cell(p)]
      BY <1>1, <3>3, <3>4
    <3>. QED  BY <1>1, <2>0, <2>2, <3>5, SameItem
  <2>. QED  BY <2>1, <2>2
<1>5. ASSUME NEW u \in Threads PROVE TakenOf(u)' = TakenOf(u)
  <2>1. pc[u] = "deq_read" => Cell(pos[u]) # Cell(pos[t])
    BY <1>1, ClaimsDisjoint DEF ItemsInv, NoDataRace, Enqueuing, Dequeuing
  <2>. QED  BY <1>1, <2>1 DEF TakenOf
<1>. QED  BY <1>4, <1>5

\* Moving the item out takes it from a cell that is not of the queue any more.
LEMMA MovedStep ==
  ASSUME ItemsInv, ItemsInv', NEW t \in Threads, DeqRead(t)
  PROVE  Kept /\ \A u \in Threads : TakenOf(u)' = TakenOf(u)
<1>. USE ItemTypes
<1>1. /\ pc[t] = "deq_read" /\ pc' = [pc EXCEPT ![t] = "deq_release"]
      /\ data' = [data EXCEPT ![Cell(pos[t])] = None]
      /\ value' = [value EXCEPT ![t] = data[Cell(pos[t])]]
      /\ UNCHANGED <<m_enqueue_pos, m_dequeue_pos, pos>>
  BY DEF DeqRead, GoTo
<1>2. pos[t] < m_dequeue_pos /\ m_enqueue_pos <= pos[t] + Size
  BY <1>1 DEF ItemsInv, CellLifecycle, Claims, Dequeuing
<1>3. Kept
  <2>. SUFFICES ASSUME NEW p \in m_dequeue_pos..(m_enqueue_pos - 1) PROVE ItemAt(p)' = ItemAt(p)
    BY DEF Kept
  <2>0. p \in Int /\ pos[t] < p /\ p < pos[t] + Size
    BY <1>2, SizeNat
  <2>1. Cell(p) # Cell(pos[t])
    BY <2>0, SameCell, SizeNat
  <2>2. Cell(p) \in 0..Size-1
    BY <2>0, CellType
  <2>3. data'[Cell(p)] = data[Cell(p)]
    BY <1>1, <2>1, <2>2
  <2>. QED  BY <1>1, <2>0, <2>3, SameItem
<1>4. ASSUME NEW u \in Threads PROVE TakenOf(u)' = TakenOf(u)
  <2>1. u # t /\ pc[u] = "deq_read" => Cell(pos[u]) # Cell(pos[t])
    BY <1>1, ClaimsDisjoint DEF ItemsInv, NoDataRace, Dequeuing
  <2>. QED  BY <1>1, <2>1 DEF TakenOf
<1>. QED  BY <1>3, <1>4

\* Winning the enqueue position adds an item behind the others.
LEMMA ClaimedStep ==
  ASSUME ItemsInv, ItemsInv', NEW t \in Threads, EnqCas(t), m_enqueue_pos = pos[t]
  PROVE  /\ Kept /\ m_enqueue_pos' = m_enqueue_pos + 1 /\ m_dequeue_pos' = m_dequeue_pos
         /\ m_enqueue_pos < m_dequeue_pos + Size
         /\ \A p : p = m_enqueue_pos => ItemAt(p)' = value[t]
         /\ \A u \in Threads : TakenOf(u)' = TakenOf(u)
<1>. USE ItemTypes
<1>1. /\ pc[t] = "enq_cas" /\ pc' = [pc EXCEPT ![t] = "enq_write"]
      /\ m_enqueue_pos' = m_enqueue_pos + 1
      /\ UNCHANGED <<sequence, data, m_dequeue_pos, pos, value>>
  BY DEF EnqCas, GoTo
<1>2. sequence[Cell(m_enqueue_pos)] = m_enqueue_pos
  BY <1>1 DEF ItemsInv, CellLifecycle, Attempts, Attempt
<1>3. Turn(m_enqueue_pos)
  <2>1. m_enqueue_pos \in m_enqueue_pos..(m_enqueue_pos + Size - 1)
    BY SizeNat
  <2>2. Turns
    BY DEF ItemsInv, CellLifecycle
  <2>. HIDE ItemTypes
  <2>. QED  BY <2>1, <2>2 DEF Turns
<1>4. m_enqueue_pos < m_dequeue_pos + Size
  BY <1>2, <1>3, SizeNat DEF Turn
<1>5. Kept
  <2>. SUFFICES ASSUME NEW p \in m_dequeue_pos..(m_enqueue_pos - 1) PROVE ItemAt(p)' = ItemAt(p)
    BY DEF Kept
  <2>1. p \in Int /\ p # pos[t]
    OBVIOUS
  <2>. QED  BY <1>1, <2>1, SameItem
<1>6. ASSUME NEW p, p = m_enqueue_pos PROVE ItemAt(p)' = value[t]
  <2>1. p \in Int /\ pc'[t] = "enq_write" /\ pos'[t] = p /\ value'[t] = value[t]
    BY <1>1, <1>6
  <2>. QED  BY <2>1 DEF ItemsInv
<1>7. \A u \in Threads : TakenOf(u)' = TakenOf(u)
  BY <1>1 DEF TakenOf
<1>. QED  BY <1>1, <1>4, <1>5, <1>6, <1>7

\* Winning the dequeue position takes the oldest item, which is complete.
LEMMA TakenStep ==
  ASSUME ItemsInv, ItemsInv', NEW t \in Threads, DeqCas(t), m_dequeue_pos = pos[t]
  PROVE  /\ Kept /\ m_enqueue_pos' = m_enqueue_pos /\ m_dequeue_pos' = m_dequeue_pos + 1
         /\ m_dequeue_pos < m_enqueue_pos /\ TakenOf(t) = None
         /\ pc' = [pc EXCEPT ![t] = "deq_read"] /\ UNCHANGED <<data, pos, value>>
         /\ \A p : p = m_dequeue_pos => TakenOf(t)' = ItemAt(p)
         /\ \A u \in Threads \ {t} : TakenOf(u)' = TakenOf(u)
<1>. USE ItemTypes
<1>1. /\ pc[t] = "deq_cas" /\ pc' = [pc EXCEPT ![t] = "deq_read"]
      /\ m_dequeue_pos' = m_dequeue_pos + 1
      /\ UNCHANGED <<sequence, data, m_enqueue_pos, pos, value>>
  BY DEF DeqCas, GoTo
<1>2. sequence[Cell(m_dequeue_pos)] = m_dequeue_pos + 1
  BY <1>1 DEF ItemsInv, CellLifecycle, Attempts, Attempt
<1>3. m_dequeue_pos < m_enqueue_pos
  <2>1. m_dequeue_pos' <= m_enqueue_pos'
    BY DEF ItemsInv, CellLifecycle, Window
  <2>. QED  BY <1>1, <2>1
<1>4. Kept
  <2>1. \A p \in m_dequeue_pos..(m_enqueue_pos - 1) : p \in Int
    OBVIOUS
  <2>. QED  BY <1>1, <2>1, SameItem DEF Kept
<1>5. \A u \in Threads : pc[u] = "enq_write" => pos[u] # m_dequeue_pos
  BY <1>2 DEF ItemsInv, CellLifecycle, Claims, Enqueuing
<1>6. ASSUME NEW p, p = m_dequeue_pos PROVE TakenOf(t)' = ItemAt(p)
  <2>1. p \in Int
    BY <1>6
  <2>2. ItemAt(p) = data[Cell(p)]
    BY <1>5, <1>6, <2>1 DEF ItemsInv
  <2>3. pc'[t] = "deq_read" /\ pos'[t] = p
    BY <1>1, <1>6
  <2>. QED  BY <1>1, <2>2, <2>3 DEF TakenOf
<1>7. TakenOf(t) = None /\ \A u \in Threads \ {t} : TakenOf(u)' = TakenOf(u)
  BY <1>1 DEF TakenOf
<1>. QED  BY <1>1, <1>3, <1>4, <1>6, <1>7

-----------------------------------------------------------------------------
LEMMA HeldInit == Init => HeldInv
<1>. SUFFICES ASSUME Init PROVE HeldInv
  OBVIOUS
<1>1. \A p \in m_dequeue_pos..(m_enqueue_pos - 1) : FALSE
  BY DEF Init
<1>. QED  BY <1>1 DEF Init, HeldInv

\* Items that are kept are still values.
LEMMA KeptHeld ==
  ASSUME ItemsInv, HeldInv, Kept, m_enqueue_pos' = m_enqueue_pos,
         m_dequeue_pos' = m_dequeue_pos \/ m_dequeue_pos' = m_dequeue_pos + 1
  PROVE  \A p \in m_dequeue_pos'..(m_enqueue_pos' - 1) : ItemAt(p)' \in Values
<1>. SUFFICES ASSUME NEW p \in m_dequeue_pos'..(m_enqueue_pos' - 1) PROVE ItemAt(p)' \in Values
  OBVIOUS
<1>1. p \in m_dequeue_pos..(m_enqueue_pos - 1) /\ p >= m_dequeue_pos'
  BY ItemTypes
<1>2. ItemAt(p)' = ItemAt(p)
  BY <1>1 DEF Kept
<1>. QED  BY <1>1, <1>2 DEF HeldInv

\* What a thread has to hold at a step, its item or the item of its cell.
HoldsValue(t) == /\ pc[t] \in {"enq_seq", "enq_reload", "enq_cas", "enq_write", "deq_release"} => value[t] \in Values
                 /\ pc[t] = "deq_read" => data[Cell(pos[t])] \in Values

\* A thread that has taken an item holds it, and a step of another leaves it.
LEMMA OthersHold ==
  ASSUME ItemsInv, HeldInv, NEW u \in Threads, TakenOf(u)' = TakenOf(u),
         pc'[u] = pc[u], value'[u] = value[u]
  PROVE  HoldsValue(u)'
BY DEF HeldInv, HoldsValue, TakenOf

LEMMA HeldStep == ItemsInv /\ ItemsInv' /\ HeldInv /\ [Next]_vars => HeldInv'
<1>. SUFFICES ASSUME ItemsInv, ItemsInv', HeldInv, [Next]_vars PROVE HeldInv'
  OBVIOUS
<1>. USE ItemTypes
<1>0. ASSUME \A u \in Threads : HoldsValue(u)',
             \A p \in m_dequeue_pos'..(m_enqueue_pos' - 1) : ItemAt(p)' \in Values
      PROVE  HeldInv'
  BY <1>0 DEF HeldInv, HoldsValue
<1>1. ASSUME NEW t \in Threads, QuietStep(t) \/ DeqRelease(t) PROVE HeldInv'
  <2>1. /\ UNCHANGED <<data, m_enqueue_pos, m_dequeue_pos>>
        /\ pc'[t] \notin {"enq_write", "deq_read", "deq_release"}
        /\ \A u \in Threads \ {t} : pc'[u] = pc[u] /\ value'[u] = value[u]
    BY <1>1, QuietSteps
  <2>2. Kept /\ \A u \in Threads \ {t} : TakenOf(u)' = TakenOf(u)
    BY <1>1, QuietKeeps
  <2>3. pc'[t] \in {"enq_seq", "enq_reload", "enq_cas"} => value'[t] \in Values
    <3>. USE DEF GoTo, Return, Branch, HeldInv
    <3>1. CASE TryDequeue(t) \/ \E v \in Values : TryEnqueue(t, v)
      BY <3>1 DEF TryDequeue, TryEnqueue
    <3>2. CASE EnqLoadSeq(t)
      BY <3>2 DEF EnqLoadSeq, EnqBranch
    <3>3. CASE DeqLoadSeq(t)
      BY <3>3 DEF DeqLoadSeq, DeqBranch
    <3>4. CASE EnqReload(t) \/ DeqReload(t)
      BY <3>4 DEF EnqReload, DeqReload
    <3>5. CASE EnqPublish(t) \/ DeqRelease(t)
      BY <3>5 DEF EnqPublish, DeqRelease
    <3>6. CASE EnqCas(t) /\ m_enqueue_pos # pos[t]
      BY <3>6 DEF EnqCas
    <3>7. CASE DeqCas(t) /\ m_dequeue_pos # pos[t]
      BY <3>7 DEF DeqCas
    <3>. QED  BY <1>1, <3>1, <3>2, <3>3, <3>4, <3>5, <3>6, <3>7 DEF QuietStep
  <2>4. HoldsValue(t)'
    BY <2>1, <2>3 DEF HoldsValue
  <2>5. \A u \in Threads : HoldsValue(u)'
    BY <2>1, <2>2, <2>4, OthersHold
  <2>6. \A p \in m_dequeue_pos'..(m_enqueue_pos' - 1) : ItemAt(p)' \in Values
    BY <2>1, <2>2, KeptHeld
  <2>. QED  BY <1>0, <2>5, <2>6
<1>2. ASSUME NEW t \in Threads, EnqWrite(t) PROVE HeldInv'
  <2>1. /\ UNCHANGED <<value, m_enqueue_pos, m_dequeue_pos>> /\ pc' = [pc EXCEPT ![t] = "enq_publish"]
    BY <1>2 DEF EnqWrite, GoTo
  <2>2. Kept /\ \A u \in Threads : TakenOf(u)' = TakenOf(u)
    BY <1>2, WrittenStep
  <2>3. \A u \in Threads : u # t => HoldsValue(u)'
    BY <2>1, <2>2, OthersHold
  <2>4. HoldsValue(t)'
    BY <2>1 DEF HoldsValue
  <2>5. \A p \in m_dequeue_pos'..(m_enqueue_pos' - 1) : ItemAt(p)' \in Values
    BY <2>1, <2>2, KeptHeld
  <2>. QED  BY <1>0, <2>3, <2>4, <2>5
<1>3. ASSUME NEW t \in Threads, DeqRead(t) PROVE HeldInv'
  <2>1. /\ UNCHANGED <<m_enqueue_pos, m_dequeue_pos>> /\ pc' = [pc EXCEPT ![t] = "deq_release"]
        /\ pc[t] = "deq_read" /\ value' = [value EXCEPT ![t] = data[Cell(pos[t])]]
    BY <1>3 DEF DeqRead, GoTo
  <2>2. Kept /\ \A u \in Threads : TakenOf(u)' = TakenOf(u)
    BY <1>3, MovedStep
  <2>3. \A u \in Threads : u # t => HoldsValue(u)'
    BY <2>1, <2>2, OthersHold
  <2>4. HoldsValue(t)'
    BY <2>1 DEF HoldsValue, HeldInv
  <2>5. \A p \in m_dequeue_pos'..(m_enqueue_pos' - 1) : ItemAt(p)' \in Values
    BY <2>1, <2>2, KeptHeld
  <2>. QED  BY <1>0, <2>3, <2>4, <2>5
<1>4. ASSUME NEW t \in Threads, EnqCas(t), m_enqueue_pos = pos[t] PROVE HeldInv'
  <2>1. pc[t] = "enq_cas" /\ pc' = [pc EXCEPT ![t] = "enq_write"] /\ value' = value
    BY <1>4 DEF EnqCas, GoTo
  <2>2. /\ Kept /\ m_enqueue_pos' = m_enqueue_pos + 1 /\ m_dequeue_pos' = m_dequeue_pos
        /\ \A p : p = m_enqueue_pos => ItemAt(p)' = value[t]
        /\ \A u \in Threads : TakenOf(u)' = TakenOf(u)
    BY <1>4, ClaimedStep
  <2>3. \A u \in Threads : u # t => HoldsValue(u)'
    BY <2>1, <2>2, OthersHold
  <2>4. HoldsValue(t)' /\ value[t] \in Values
    BY <2>1 DEF HoldsValue, HeldInv
  <2>5. ASSUME NEW p \in m_dequeue_pos'..(m_enqueue_pos' - 1) PROVE ItemAt(p)' \in Values
    <3>1. p = m_enqueue_pos \/ (p \in m_dequeue_pos..(m_enqueue_pos - 1) /\ p >= m_dequeue_pos')
      BY <2>2
    <3>2. CASE p = m_enqueue_pos
      BY <2>2, <2>4, <3>2
    <3>3. CASE p \in m_dequeue_pos..(m_enqueue_pos - 1) /\ p >= m_dequeue_pos'
      BY <2>2, <3>3 DEF Kept, HeldInv
    <3>. QED  BY <3>1, <3>2, <3>3
  <2>. QED  BY <1>0, <2>3, <2>4, <2>5
<1>5. ASSUME NEW t \in Threads, DeqCas(t), m_dequeue_pos = pos[t] PROVE HeldInv'
  <2>1. /\ Kept /\ m_enqueue_pos' = m_enqueue_pos /\ m_dequeue_pos' = m_dequeue_pos + 1
        /\ m_dequeue_pos < m_enqueue_pos
        /\ pc' = [pc EXCEPT ![t] = "deq_read"] /\ UNCHANGED <<data, pos, value>>
        /\ \A p : p = m_dequeue_pos => TakenOf(t)' = ItemAt(p)
        /\ \A u \in Threads \ {t} : TakenOf(u)' = TakenOf(u)
    BY <1>5, TakenStep
  <2>2. PICK p \in m_dequeue_pos..(m_enqueue_pos - 1) : p = m_dequeue_pos
    BY <2>1
  <2>3. TakenOf(t)' \in Values
    BY <2>1, <2>2 DEF HeldInv
  <2>4. HoldsValue(t)'
    BY <2>1, <2>3 DEF HoldsValue, TakenOf
  <2>5. \A u \in Threads : u # t => HoldsValue(u)'
    BY <2>1, OthersHold
  <2>6. \A q \in m_dequeue_pos'..(m_enqueue_pos' - 1) : ItemAt(q)' \in Values
    BY <2>1, KeptHeld
  <2>. QED  BY <1>0, <2>4, <2>5, <2>6
<1>6. CASE UNCHANGED vars
  BY <1>6 DEF vars, HeldInv, ItemAt
<1>. QED  BY <1>1, <1>2, <1>3, <1>4, <1>5, <1>6 DEF Next, Step, QuietStep

-----------------------------------------------------------------------------
\* A function on 1..n is a sequence.
LEMMA FunctionIsSeq ==
  ASSUME NEW T, NEW n \in Nat, NEW q \in [1..n -> T]
  PROVE  q \in Seq(T) /\ Len(q) = n
OBVIOUS

LEMMA AppendIs ==
  ASSUME NEW T, NEW n \in Nat, NEW q \in [1..n -> T], NEW v \in T, NEW r \in [1..(n + 1) -> T],
         \A i \in 1..n : r[i] = q[i], r[n + 1] = v
  PROVE  r = Append(q, v)
<1>1. q \in Seq(T) /\ Len(q) = n
  BY FunctionIsSeq
<1>2. Append(q, v) \in [1..(n + 1) -> T]
  <2>1. Append(q, v) \in Seq(T) /\ Len(Append(q, v)) = n + 1
    BY <1>1
  <2>2. \A s \in Seq(T) : s \in [1..Len(s) -> T]
    OBVIOUS
  <2>. QED  BY <2>1, <2>2
<1>3. \A i \in 1..(n + 1) : Append(q, v)[i] = IF i = n + 1 THEN v ELSE q[i]
  BY <1>1
<1>4. \A i \in 1..(n + 1) : i = n + 1 \/ i \in 1..n
  OBVIOUS
<1>5. \A i \in 1..(n + 1) : Append(q, v)[i] = r[i]
  BY <1>3, <1>4
<1>. QED  BY <1>2, <1>5

LEMMA TailIs ==
  ASSUME NEW T, NEW n \in Nat, n > 0, NEW q \in [1..n -> T], NEW r \in [1..(n - 1) -> T],
         \A i \in 1..(n - 1) : r[i] = q[i + 1]
  PROVE  r = Tail(q) /\ q # << >> /\ Head(q) = q[1]
<1>1. q \in Seq(T) /\ Len(q) = n
  BY FunctionIsSeq
<1>2. q # << >> /\ Head(q) = q[1]
  BY <1>1
<1>3. Tail(q) \in [1..(n - 1) -> T]
  <2>1. Tail(q) \in Seq(T) /\ Len(Tail(q)) = n - 1
    BY <1>1
  <2>2. \A s \in Seq(T) : s \in [1..Len(s) -> T]
    OBVIOUS
  <2>. QED  BY <2>1, <2>2
<1>4. \A i \in 1..(n - 1) : Tail(q)[i] = q[i + 1]
  BY <1>1
<1>. QED  BY <1>2, <1>3, <1>4

\* A step that keeps the items and the positions keeps the queue.
LEMMA KeptQueue ==
  ASSUME ItemsInv, Kept, UNCHANGED <<m_enqueue_pos, m_dequeue_pos>>
  PROVE  AbstractQueue' = AbstractQueue
<1>. PICK f \in Nat, h \in Nat : f = m_dequeue_pos /\ h = m_enqueue_pos
  BY ItemTypes
<1>1. AbstractQueue = [i \in 1..(h - f) |-> ItemAt(f + i - 1)]
  BY DEF AbstractQueue
<1>2. AbstractQueue' = [i \in 1..(h - f) |-> ItemAt(f + i - 1)']
  BY DEF AbstractQueue
<1>3. \A i \in 1..(h - f) : f + i - 1 \in f..(h - 1) /\ f + i - 1 >= f
  OBVIOUS
<1>4. \A i \in 1..(h - f) : ItemAt(f + i - 1)' = ItemAt(f + i - 1)
  BY <1>3 DEF Kept
<1>. QED  BY <1>1, <1>2, <1>4

\* The queue is a sequence of values.
LEMMA QueueType ==
  ASSUME ItemsInv, HeldInv
  PROVE  /\ m_enqueue_pos - m_dequeue_pos \in Nat
         /\ AbstractQueue \in [1..(m_enqueue_pos - m_dequeue_pos) -> Values]
<1>. PICK f \in Nat, h \in Nat : f = m_dequeue_pos /\ h = m_enqueue_pos /\ f <= h
  BY ItemTypes
<1>1. \A i \in 1..(h - f) : f + i - 1 \in f..(h - 1)
  OBVIOUS
<1>2. \A i \in 1..(h - f) : ItemAt(f + i - 1) \in Values
  BY <1>1 DEF HeldInv
<1>3. h - f \in Nat
  OBVIOUS
<1>. QED  BY <1>2, <1>3 DEF AbstractQueue

LEMMA Enqueues ==
  ASSUME ItemsInv, ItemsInv', HeldInv, NEW t \in Threads, EnqCas(t), m_enqueue_pos = pos[t]
  PROVE  /\ Len(AbstractQueue) < Size /\ value[t] \in Values
         /\ AbstractQueue' = Append(AbstractQueue, value[t])
<1>1. /\ Kept /\ m_enqueue_pos' = m_enqueue_pos + 1 /\ m_dequeue_pos' = m_dequeue_pos
      /\ m_enqueue_pos < m_dequeue_pos + Size
      /\ \A p : p = m_enqueue_pos => ItemAt(p)' = value[t]
  BY ClaimedStep
<1>2. PICK f \in Nat, h \in Nat : f = m_dequeue_pos /\ h = m_enqueue_pos /\ f <= h
  BY ItemTypes
<1>3. PICK k \in Nat : k = h - f
  BY <1>2
<1>4. AbstractQueue = [i \in 1..k |-> ItemAt(f + i - 1)] /\ AbstractQueue \in [1..k -> Values]
  BY <1>2, <1>3, QueueType DEF AbstractQueue
<1>5. AbstractQueue' = [i \in 1..(k + 1) |-> ItemAt(f + i - 1)']
  <2>1. m_enqueue_pos' - m_dequeue_pos' = k + 1
    BY <1>1, <1>2, <1>3
  <2>2. m_dequeue_pos' = f
    BY <1>1, <1>2
  <2>. QED  BY <2>1, <2>2 DEF AbstractQueue
<1>6. \A i \in 1..k : f + i - 1 \in f..(h - 1) /\ f + i - 1 >= f /\ i \in 1..(k + 1)
  BY <1>2, <1>3
<1>7. \A i \in 1..k : ItemAt(f + i - 1)' = ItemAt(f + i - 1)
  BY <1>1, <1>2, <1>6 DEF Kept
<1>8. f + (k + 1) - 1 = h /\ k + 1 \in 1..(k + 1)
  BY <1>2, <1>3
<1>9. ItemAt(f + (k + 1) - 1)' = value[t]
  BY <1>1, <1>2, <1>8
<1>10. AbstractQueue'[k + 1] = value[t]
  BY <1>5, <1>8, <1>9
<1>11. \A i \in 1..k : AbstractQueue'[i] = AbstractQueue[i] /\ AbstractQueue[i] \in Values
  BY <1>4, <1>5, <1>6, <1>7
<1>12. value[t] \in Values
  BY DEF EnqCas, HeldInv
<1>13. AbstractQueue' \in [1..(k + 1) -> Values]
  <2>1. \A i \in 1..(k + 1) : i = k + 1 \/ i \in 1..k
    OBVIOUS
  <2>2. \A i \in 1..(k + 1) : AbstractQueue'[i] \in Values
    BY <1>10, <1>11, <1>12, <2>1
  <2>. QED  BY <1>5, <2>2
<1>14. AbstractQueue' = Append(AbstractQueue, value[t])
  BY <1>4, <1>10, <1>11, <1>12, <1>13, AppendIs
<1>15. Len(AbstractQueue) = k
  BY <1>4, FunctionIsSeq
<1>. QED  BY <1>1, <1>2, <1>3, <1>12, <1>14, <1>15, SizeNat

LEMMA Dequeues ==
  ASSUME ItemsInv, ItemsInv', HeldInv, NEW t \in Threads, DeqCas(t), m_dequeue_pos = pos[t]
  PROVE  /\ AbstractQueue # << >> /\ Head(AbstractQueue) = TakenOf(t)'
         /\ AbstractQueue' = Tail(AbstractQueue)
<1>1. /\ Kept /\ m_enqueue_pos' = m_enqueue_pos /\ m_dequeue_pos' = m_dequeue_pos + 1
      /\ m_dequeue_pos < m_enqueue_pos
      /\ \A p : p = m_dequeue_pos => TakenOf(t)' = ItemAt(p)
  BY TakenStep
<1>2. PICK f \in Nat, h \in Nat : f = m_dequeue_pos /\ h = m_enqueue_pos /\ f < h
  BY <1>1, ItemTypes
<1>3. PICK k \in Nat : k = h - f /\ k > 0
  BY <1>2
<1>4. AbstractQueue = [i \in 1..k |-> ItemAt(f + i - 1)] /\ AbstractQueue \in [1..k -> Values]
  BY <1>2, <1>3, QueueType DEF AbstractQueue
<1>5. AbstractQueue' = [i \in 1..(k - 1) |-> ItemAt((f + 1) + i - 1)']
  <2>1. m_enqueue_pos' - m_dequeue_pos' = k - 1
    BY <1>1, <1>2, <1>3
  <2>2. m_dequeue_pos' = f + 1
    BY <1>1, <1>2
  <2>. QED  BY <2>1, <2>2 DEF AbstractQueue
<1>6. \A i \in 1..(k - 1) : /\ (f + 1) + i - 1 \in f..(h - 1) /\ (f + 1) + i - 1 >= f + 1
                            /\ (f + 1) + i - 1 = f + (i + 1) - 1 /\ i + 1 \in 1..k
  BY <1>2, <1>3
<1>7. ASSUME NEW i \in 1..(k - 1) PROVE AbstractQueue'[i] = AbstractQueue[i + 1] /\ AbstractQueue[i + 1] \in Values
  <2>1. PICK x \in f..(h - 1) : x = (f + 1) + i - 1 /\ x = f + (i + 1) - 1 /\ x >= f + 1
    BY <1>6
  <2>2. AbstractQueue'[i] = ItemAt(x)'
    BY <1>5, <2>1
  <2>3. AbstractQueue[i + 1] = ItemAt(x) /\ AbstractQueue[i + 1] \in Values
    BY <1>4, <1>6, <2>1
  <2>4. ItemAt(x)' = ItemAt(x)
    BY <1>1, <1>2, <2>1 DEF Kept
  <2>. QED  BY <2>2, <2>3, <2>4
<1>8. AbstractQueue' \in [1..(k - 1) -> Values]
  <2>1. \A i \in 1..(k - 1) : AbstractQueue'[i] \in Values
    BY <1>7
  <2>. QED  BY <1>5, <2>1
<1>9. AbstractQueue[1] = TakenOf(t)'
  <2>1. 1 \in 1..k /\ f + 1 - 1 = f
    BY <1>2, <1>3
  <2>2. AbstractQueue[1] = ItemAt(f + 1 - 1)
    BY <1>4, <2>1
  <2>. QED  BY <1>1, <1>2, <2>1, <2>2
<1>10. AbstractQueue' = Tail(AbstractQueue) /\ AbstractQueue # << >> /\ Head(AbstractQueue) = AbstractQueue[1]
  <2>1. k > 0 /\ AbstractQueue \in [1..k -> Values]
    BY <1>3, <1>4
  <2>2. \A i \in 1..(k - 1) : AbstractQueue'[i] = AbstractQueue[i + 1]
    BY <1>7
  <2>. QED  BY <1>8, <2>1, <2>2, TailIs
<1>. QED  BY <1>9, <1>10

\* Every step of the queue is a step of Fifo or none: the compare-and-swap that
\* claims a position is where the operation takes effect.
LEMMA FifoStep == ItemsInv /\ ItemsInv' /\ HeldInv /\ [Next]_vars => [F!Next]_(F!vars)
<1>. SUFFICES ASSUME ItemsInv, ItemsInv', HeldInv, [Next]_vars
              PROVE  F!Next \/ (AbstractQueue' = AbstractQueue /\ AbstractTaken' = AbstractTaken)
  BY DEF F!vars
<1>0. /\ AbstractTaken = [t \in Threads |-> TakenOf(t)]
      /\ AbstractTaken' = [t \in Threads |-> TakenOf(t)']
  BY DEF AbstractTaken, TakenOf
<1>1. ASSUME NEW t \in Threads, QuietStep(t)
      PROVE  AbstractQueue' = AbstractQueue /\ AbstractTaken' = AbstractTaken
  <2>1. /\ UNCHANGED <<m_enqueue_pos, m_dequeue_pos>>
        /\ pc[t] # "deq_read" /\ pc'[t] \notin {"deq_read", "deq_release"}
    BY <1>1, QuietSteps
  <2>2. Kept /\ \A u \in Threads \ {t} : TakenOf(u)' = TakenOf(u)
    BY <1>1, QuietKeeps
  <2>3. pc[t] # "deq_release"
    BY <1>1 DEF QuietStep, TryDequeue, TryEnqueue, EnqLoadSeq, EnqReload, DeqLoadSeq, DeqReload,
                EnqPublish, EnqCas, DeqCas
  <2>4. TakenOf(t)' = TakenOf(t)
    BY <2>1, <2>3 DEF TakenOf
  <2>. QED  BY <1>0, <2>1, <2>2, <2>4, KeptQueue
<1>2. ASSUME NEW t \in Threads, EnqWrite(t) \/ DeqRead(t)
      PROVE  AbstractQueue' = AbstractQueue /\ AbstractTaken' = AbstractTaken
  <2>1. UNCHANGED <<m_enqueue_pos, m_dequeue_pos>>
    BY <1>2 DEF EnqWrite, DeqRead
  <2>2. Kept /\ \A u \in Threads : TakenOf(u)' = TakenOf(u)
    BY <1>2, WrittenStep, MovedStep
  <2>. QED  BY <1>0, <2>1, <2>2, KeptQueue
<1>3. ASSUME NEW t \in Threads, EnqCas(t), m_enqueue_pos = pos[t] PROVE F!Next
  <2>1. /\ Len(AbstractQueue) < Size /\ value[t] \in Values
        /\ AbstractQueue' = Append(AbstractQueue, value[t])
    BY <1>3, Enqueues
  <2>2. \A u \in Threads : TakenOf(u)' = TakenOf(u)
    BY <1>3, ClaimedStep
  <2>3. AbstractTaken' = AbstractTaken
    BY <1>0, <2>2
  <2>4. F!Enqueue(value[t])
    BY <2>1, <2>3 DEF F!Enqueue
  <2>. QED  BY <2>1, <2>4 DEF F!Next
<1>4. ASSUME NEW t \in Threads, DeqCas(t), m_dequeue_pos = pos[t] PROVE F!Next
  <2>1. /\ AbstractQueue # << >> /\ Head(AbstractQueue) = TakenOf(t)'
        /\ AbstractQueue' = Tail(AbstractQueue)
    BY <1>4, Dequeues
  <2>2. TakenOf(t) = None /\ \A u \in Threads \ {t} : TakenOf(u)' = TakenOf(u)
    BY <1>4, TakenStep
  <2>3. AbstractTaken[t] = None /\ AbstractTaken' = [AbstractTaken EXCEPT ![t] = TakenOf(t)']
    BY <1>0, <2>2
  <2>4. F!Dequeue(t)
    BY <2>1, <2>3 DEF F!Dequeue
  <2>. QED  BY <2>4 DEF F!Next
<1>5. ASSUME NEW t \in Threads, DeqRelease(t) PROVE F!Next
  <2>1. UNCHANGED <<m_enqueue_pos, m_dequeue_pos>> /\ pc'[t] \notin {"deq_read", "deq_release"}
    BY <1>5, QuietSteps
  <2>2. Kept /\ \A u \in Threads \ {t} : TakenOf(u)' = TakenOf(u)
    BY <1>5, QuietKeeps
  <2>3. pc[t] = "deq_release" /\ value[t] \in Values
    BY <1>5 DEF DeqRelease, HeldInv
  <2>4. TakenOf(t) = value[t] /\ TakenOf(t)' = None
    BY <2>1, <2>3 DEF TakenOf
  <2>5. AbstractTaken[t] # None /\ AbstractTaken' = [AbstractTaken EXCEPT ![t] = None]
    BY <1>0, <2>2, <2>3, <2>4, NoneAssumption
  <2>6. AbstractQueue' = AbstractQueue
    BY <2>1, <2>2, KeptQueue
  <2>7. F!Return(t)
    BY <2>5, <2>6 DEF F!Return
  <2>. QED  BY <2>7 DEF F!Next
<1>6. CASE UNCHANGED vars
  BY <1>6 DEF vars, AbstractQueue, AbstractTaken, ItemAt
<1>. QED  BY <1>1, <1>2, <1>3, <1>4, <1>5, <1>6 DEF Next, Step, QuietStep

LEMMA FifoInit == Init => F!Init
<1>. SUFFICES ASSUME Init PROVE F!Init
  OBVIOUS
<1>1. m_enqueue_pos - m_dequeue_pos = 0
  BY DEF Init
<1>2. AbstractQueue = [i \in 1..0 |-> ItemAt(m_dequeue_pos + i - 1)]
  BY <1>1 DEF AbstractQueue
<1>3. AbstractQueue = << >>
  BY <1>2
<1>4. AbstractTaken = [t \in Threads |-> None]
  BY DEF Init, AbstractTaken
<1>. QED  BY <1>3, <1>4 DEF F!Init

\* mpmc_bounded_queue is a FIFO of Size items for any number of threads: it
\* loses, duplicates and reorders nothing, and each operation takes effect at
\* the compare-and-swap that wins its position.
THEOREM QueueIsFifo == Spec => ImplementsFifo
<1>1. Spec => [](CellLifecycle /\ ItemsInv)
  BY LifecycleCorrect, LifecycleGivesItems, PTL
<1>. QED  BY <1>1, HeldInit, HeldStep, FifoInit, FifoStep, PTL DEF Spec, ImplementsFifo, F!Spec
=============================================================================
