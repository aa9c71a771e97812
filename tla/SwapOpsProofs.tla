--------------------------- MODULE SwapOpsProofs ---------------------------
(***************************************************************************)
(* Theorems about SwapOps, for a memory, processes and sizes of any        *)
(* number.  Two invariants carry them.                                     *)
(*                                                                         *)
(* OrderlyInv is about the processes as long as each has one copy, which   *)
(* is as long as only processes are drawn that are not in memory.  Its     *)
(* part about memory rests on the root process, which never leaves cell 0: *)
(* a hole ends at the end of memory if not before, and the process behind  *)
(* a hole begins there.  Its part about the ring rests on the distance of  *)
(* a cell from its head: counted like that, the stored processes lie one   *)
(* behind the other from 0 on, and nothing goes around the end.  From it   *)
(* follow that nothing is lost, that compaction() keeps the order, that    *)
(* head never turns, and that all of it is a store as SwapStore has it.    *)
(*                                                                         *)
(* CopiesInv holds also when processes in memory are placed again.  From   *)
(* it follow the types, that every place that is found suffices, and how   *)
(* memUsed is counted.                                                     *)
(***************************************************************************)
EXTENDS SwapOps, SwapLoopProofs, SumFacts, SequenceTheorems

\* The distances of cells from the head of the ring.
Distances == 0 .. MaxMemory - 1

At(d) == bs[Ring(head + d)]

Inside(p, d) == Behind(p) <= d /\ d < Behind(p) + memorySize[p]

\* The processes in memory lie in it.
Placed == \A p \in Loaded : memStart[p] + memorySize[p] <= MaxMemory

\* The root process is at the start of memory, and runs.
RootHolds ==
  memorySize[0] = RootSize /\ state[0] = RUNNING /\ memStart[0] = 0

\* n cells of the ring are used, those next to the head.
RingHolds(n) ==
  /\ tail = Ring(head + n)
  /\ \A p \in Stored : Behind(p) + memorySize[p] <= n
  /\ \A d \in Distances, p \in Processes :
       At(d) = p <=> p \in Stored /\ Inside(p, d)
  /\ \A d \in Distances : At(d) = FREE <=> n <= d

\* The process that is to be put in memory, and the place found for it.
CallHolds ==
  /\ pc \in {"fit", "scan", "fill"} =>
       \/ proc = NULL /\ Stored # {}
       \/ proc \in Processes \ {0} /\ state[proc] = WAITING
  /\ pc = "fill" =>
       /\ i + memorySize[Wanted] <= MaxMemory
       /\ \A a \in Extent(i, Wanted) : memory[a] = FREE

\* Before the root process is put in memory.
StartHolds ==
  pc = "start" => /\ memory = [a \in Cells |-> FREE]
                  /\ \A p \in Processes \ {0} : state[p] = WAITING

MemoryInv == Placed /\ MemoryHolds

RingInv == \E n \in 0 .. MaxMemory : RingHolds(n)

IntactInv == /\ RootHolds /\ StartHolds /\ CallHolds
             /\ MemoryInv /\ RingInv

SwapInv == SwapTypeOK /\ (Intact => IntactInv)

\* The inductive invariant: once a process has two copies little of it is left.
OrderlyInv == redrawn \in Nat /\ (redrawn = 0 => SwapInv)

-----------------------------------------------------------------------------
\* Around the ring once.
LEMMA RingIs ==
  ASSUME NEW a \in Int
  PROVE  /\ 0 <= a /\ a < MaxMemory => Ring(a) = a
         /\ MaxMemory <= a /\ a < 2 * MaxMemory => Ring(a) = a - MaxMemory
         /\ -MaxMemory <= a /\ a < 0 => Ring(a) = a + MaxMemory
<1>1. MaxMemory \in Nat /\ MaxMemory > 0
  BY Constants
<1>2. 0 <= a /\ a < MaxMemory => a % MaxMemory = a
  BY <1>1
<1>3. MaxMemory <= a /\ a < 2 * MaxMemory => a % MaxMemory = a - MaxMemory
  BY <1>1
<1>4. -MaxMemory <= a /\ a < 0 => a % MaxMemory = a + MaxMemory
  BY <1>1
<1> QED
  BY <1>2, <1>3, <1>4 DEF Ring

\* A cell, by its distance from another.
LEMMA RingDistance ==
  ASSUME NEW a \in Cells, NEW h \in Cells
  PROVE  /\ Ring(a - h) \in Distances /\ Ring(h + Ring(a - h)) = a
         /\ Ring(a - h) = IF h <= a THEN a - h ELSE a - h + MaxMemory
<1>1. a \in Nat /\ h \in Nat /\ a < MaxMemory /\ h < MaxMemory /\ MaxMemory \in Nat
  BY Constants DEF Cells
<1>2. CASE h <= a
  <2>1. Ring(a - h) = a - h
    BY <1>1, <1>2, RingIs
  <2>2. Ring(h + (a - h)) = a
    BY <1>1, <1>2, RingIs
  <2> QED
    BY <1>1, <1>2, <2>1, <2>2 DEF Distances
<1>3. CASE ~(h <= a)
  <2>1. Ring(a - h) = a - h + MaxMemory
    BY <1>1, <1>3, RingIs
  <2>2. Ring(h + (a - h + MaxMemory)) = a
    BY <1>1, <1>3, RingIs
  <2> QED
    BY <1>1, <1>3, <2>1, <2>2 DEF Distances
<1> QED
  BY <1>2, <1>3

\* The cell at a distance.
LEMMA RingCell ==
  ASSUME NEW d \in Distances, NEW h \in Cells
  PROVE  /\ Ring(h + d) \in Cells /\ Ring(Ring(h + d) - h) = d
         /\ Ring(h + d) = IF h + d < MaxMemory THEN h + d ELSE h + d - MaxMemory
<1>1. d \in Nat /\ h \in Nat /\ d < MaxMemory /\ h < MaxMemory /\ MaxMemory \in Nat
  BY Constants DEF Cells, Distances
<1>2. CASE h + d < MaxMemory
  <2>1. Ring(h + d) = h + d
    BY <1>1, <1>2, RingIs
  <2>2. Ring((h + d) - h) = d
    BY <1>1, <1>2, RingIs
  <2> QED
    BY <1>1, <1>2, <2>1, <2>2 DEF Cells
<1>3. CASE ~(h + d < MaxMemory)
  <2>1. Ring(h + d) = h + d - MaxMemory
    BY <1>1, <1>3, RingIs
  <2>2. Ring((h + d - MaxMemory) - h) = d
    BY <1>1, <1>3, RingIs
  <2> QED
    BY <1>1, <1>3, <2>1, <2>2 DEF Cells
<1> QED
  BY <1>2, <1>3

-----------------------------------------------------------------------------
(***************************************************************************)
(* Holes.                                                                  *)
(***************************************************************************)
LEMMA UsedIs ==
  ASSUME NEW a \in Cells
  PROVE  Used(a) <=> memory[a] # FREE
BY Constants DEF Used, Wrap, Cells

\* A hole is free and ends at the end of memory, if not before.
LEMMA HoleIs ==
  ASSUME memory[0] # FREE, NEW h \in HoleStarts
  PROVE  /\ h \in Cells /\ h # 0 /\ Used(h - 1)
         /\ HoleSize(h) \in 1 .. MaxMemory - h
         /\ \A a \in h .. h + HoleSize(h) - 1 : a \in Cells /\ memory[a] = FREE
         /\ h + HoleSize(h) < MaxMemory => memory[h + HoleSize(h)] # FREE
<1> DEFINE D == {d \in 1 .. MaxMemory : Used(h + d)}
<1>1. MaxMemory \in Nat /\ h \in Cells /\ h \in Nat /\ h < MaxMemory /\ ~Used(h)
  BY Constants DEF HoleStarts, Cells
<1>2. memory[h] = FREE /\ h # 0 /\ Used(h - 1)
  BY <1>1, UsedIs DEF HoleStarts
<1>3. MaxMemory - h \in D
  <2>1. Wrap(h + (MaxMemory - h)) = 0
    BY <1>1 DEF Wrap
  <2> QED
    BY <1>1, <2>1 DEF Used
<1>4. D \in SUBSET Nat /\ D # {}
  <2>1. D \subseteq 1 .. MaxMemory /\ 1 .. MaxMemory \subseteq Nat
    BY <1>1
  <2> QED
    BY <1>3, <2>1
<1>5. PICK m \in D : \A d \in D : m <= d
  BY <1>4, Least
<1>6. HoleSize(h) = m
  <2>1. D \subseteq Int
    BY <1>4
  <2>2. Min(D) = m
    BY <1>5, <2>1, MinIs
  <2> QED
    BY <2>2 DEF HoleSize
<1>7. m \in 1 .. MaxMemory - h
  BY <1>1, <1>3, <1>5
<1>8. ASSUME NEW a \in h .. h + m - 1
      PROVE  a \in Cells /\ memory[a] = FREE
  <2>1. a \in Cells
    BY <1>1, <1>7 DEF Cells
  <2>2. CASE a = h
    BY <1>2, <2>1, <2>2
  <2>3. CASE a # h
    <3>1. a - h \in 1 .. MaxMemory /\ ~(m <= a - h) /\ h + (a - h) = a
      BY <1>1, <1>7, <2>3
    <3>2. ~Used(a)
      BY <1>5, <3>1
    <3> QED
      BY <2>1, <3>2, UsedIs
  <2> QED
    BY <2>2, <2>3
<1>9. h + m < MaxMemory => memory[h + m] # FREE
  <2>1. h + m < MaxMemory => h + m \in Cells
    BY <1>1, <1>7 DEF Cells
  <2> QED
    BY <1>5, <2>1, UsedIs
<1> QED
  BY <1>1, <1>2, <1>6, <1>7, <1>8, <1>9

\* Every hole that is chosen is one the process fits in.
LEMMA ChoicesFit ==
  ASSUME Fits(Wanted) # {}, NEW h \in FirstFit \cup BestFit \cup WorstFit
  PROVE  h \in Fits(Wanted)
<1>1. Fits(Wanted) \in SUBSET Nat
  BY Constants DEF Fits, HoleStarts, Cells
<1>2. PICK m \in Fits(Wanted) : \A g \in Fits(Wanted) : m <= g
  BY <1>1, Least
<1>3. Fits(Wanted) \subseteq Int
  BY <1>1
<1>4. Min(Fits(Wanted)) \in Fits(Wanted)
  BY <1>2, <1>3, MinIs
<1> QED
  BY <1>4 DEF FirstFit, BestFit, WorstFit

-----------------------------------------------------------------------------
(***************************************************************************)
(* What a process coming, going or moving does to memory.                  *)
(***************************************************************************)
LEMMA States ==
  /\ WAITING = 0 /\ RUNNING = 1 /\ IDLE = 2 /\ BACK_STORE = 3
  /\ FREE = -1 /\ NULL = -1 /\ FREE \notin Processes /\ NULL \notin Processes
BY Constants DEF WAITING, RUNNING, IDLE, BACK_STORE, FREE, NULL, Processes

\* The types, unfolded for arithmetic.
LEMMA Numbers ==
  ASSUME SwapTypeOK
  PROVE  /\ MaxMemory \in Nat /\ MaxMemory > 0
         /\ \A p \in Processes : /\ memorySize[p] \in Nat /\ memorySize[p] >= 1
                                 /\ memStart[p] \in Nat /\ memStart[p] < MaxMemory
         /\ \A a : a \in Cells <=> a \in Nat /\ a < MaxMemory
         /\ \A a \in Cells : memory[a] \in Processes \/ memory[a] = FREE
         /\ Loaded \subseteq Processes /\ Stored \subseteq Processes
BY Constants DEF SwapTypeOK, Cells, Loaded, InMemory, Stored

\* The root process keeps cell 0.
LEMMA RootInPlace ==
  ASSUME SwapTypeOK, RootHolds, MemoryHolds, pc # "start"
  PROVE  0 \in Loaded /\ memory[0] = 0 /\ memory[0] # FREE
<1>1. 0 \in Loaded
  BY Constants DEF RootHolds, Loaded, InMemory
<1>2. 0 \in Extent(memStart[0], 0)
  BY Constants DEF RootHolds, Extent
<1>3. memory[0] = 0
  BY <1>1, <1>2, Constants DEF MemoryHolds
<1> QED
  BY <1>1, <1>3, Constants

\* A process comes to a free place.
LEMMA ComingKeeps ==
  ASSUME SwapTypeOK, MemoryInv,
         NEW p \in Processes, p \notin Loaded, NEW start \in Nat,
         start + memorySize[p] <= MaxMemory,
         \A a \in Extent(start, p) : memory[a] = FREE,
         memory' = [a \in Cells |-> IF a \in Extent(start, p) THEN p
                                                              ELSE memory[a]],
         memStart' = [memStart EXCEPT ![p] = start],
         Loaded' = Loaded \cup {p}, memorySize' = memorySize
  PROVE  /\ MemoryInv'
         /\ memory' \in [Cells -> Processes \cup {FREE}]
         /\ memStart' \in [Processes -> Cells]
<1>1. start \in Cells
  BY Numbers
<1>2. memStart' \in [Processes -> Cells]
  BY <1>1 DEF SwapTypeOK
<1>3. memory' \in [Cells -> Processes \cup {FREE}]
  BY Numbers
<1>4. Placed'
  BY Numbers DEF MemoryInv, Placed, SwapTypeOK
<1>5. ASSUME NEW a \in Cells, NEW q \in Processes
      PROVE  memory'[a] = q <=> q \in Loaded' /\ a \in Extent(memStart'[q], q)
  <2>1. memory[a] = q <=> q \in Loaded /\ a \in Extent(memStart[q], q)
    BY DEF MemoryInv, MemoryHolds
  <2>2. CASE q = p
    <3>1. memory[a] # p /\ memStart'[p] = start
      BY <2>1, <2>2 DEF SwapTypeOK
    <3> QED
      BY <2>2, <3>1
  <2>3. CASE q # p
    <3>1. memStart'[q] = memStart[q] /\ (q \in Loaded' <=> q \in Loaded)
      BY <2>3 DEF SwapTypeOK
    <3>2. CASE a \in Extent(start, p)
      <4>1. memory[a] # q
        BY <3>2, States
      <4> QED
        BY <2>1, <2>3, <3>1, <3>2, <4>1
    <3>3. CASE a \notin Extent(start, p)
      BY <2>1, <3>1, <3>3
    <3> QED
      BY <3>2, <3>3
  <2> QED
    BY <2>2, <2>3
<1>6. MemoryHolds'
  BY <1>5 DEF MemoryHolds, Extent
<1> QED
  BY <1>2, <1>3, <1>4, <1>6 DEF MemoryInv

\* A process leaves its place.
LEMMA GoingKeeps ==
  ASSUME SwapTypeOK, MemoryInv, NEW p \in Loaded,
         memory' = [a \in Cells |-> IF a \in Extent(memStart[p], p) THEN FREE
                                                                    ELSE memory[a]],
         Loaded' = Loaded \ {p}, \A q \in Loaded' : memStart'[q] = memStart[q],
         memorySize' = memorySize
  PROVE  MemoryInv'
<1>1. Placed'
  BY Numbers DEF MemoryInv, Placed
<1>2. ASSUME NEW a \in Cells, NEW q \in Processes
      PROVE  memory'[a] = q <=> q \in Loaded' /\ a \in Extent(memStart'[q], q)
  <2>1. memory[a] = q <=> q \in Loaded /\ a \in Extent(memStart[q], q)
    BY DEF MemoryInv, MemoryHolds
  <2>2. p \in Processes /\ (memory[a] = p <=> a \in Extent(memStart[p], p))
    BY Numbers DEF MemoryInv, MemoryHolds
  <2>3. q # FREE
    BY States
  <2>4. CASE a \in Extent(memStart[p], p)
    <3>1. memory[a] = p /\ memory'[a] = FREE
      BY <2>2, <2>4
    <3> QED
      BY <2>1, <2>3, <3>1
  <2>5. CASE a \notin Extent(memStart[p], p)
    <3>1. memory'[a] = memory[a]
      BY <2>5
    <3>2. CASE q = p
      BY <2>2, <2>5, <3>1, <3>2
    <3>3. CASE q # p
      BY <2>1, <3>1, <3>3
    <3> QED
      BY <3>2, <3>3
  <2> QED
    BY <2>4, <2>5
<1>3. MemoryHolds'
  BY <1>2 DEF MemoryHolds, Extent
<1> QED
  BY <1>1, <1>3 DEF MemoryInv

\* The process behind a hole moves down to the start of it.
LEMMA MovingKeeps ==
  ASSUME SwapTypeOK, MemoryInv, NEW p \in Loaded, NEW start \in Nat,
         start < memStart[p],
         \A a \in start .. memStart[p] - 1 : memory[a] = FREE,
         memory' = [a \in Cells |-> IF a \in Extent(start, p) THEN p
                                    ELSE IF a \in Extent(memStart[p], p) THEN FREE
                                    ELSE memory[a]],
         memStart' = [memStart EXCEPT ![p] = start],
         Loaded' = Loaded, memorySize' = memorySize
  PROVE  /\ MemoryInv'
         /\ memory' \in [Cells -> Processes \cup {FREE}]
         /\ memStart' \in [Processes -> Cells]
<1>1. start \in Cells
  BY Numbers
<1>2. memStart' \in [Processes -> Cells]
  BY <1>1 DEF SwapTypeOK
<1>3. memory' \in [Cells -> Processes \cup {FREE}]
  BY Numbers
<1>4. Placed'
  BY Numbers DEF MemoryInv, Placed, SwapTypeOK
<1>5. ASSUME NEW a \in Cells, NEW q \in Processes
      PROVE  memory'[a] = q <=> q \in Loaded' /\ a \in Extent(memStart'[q], q)
  <2>1. memory[a] = q <=> q \in Loaded /\ a \in Extent(memStart[q], q)
    BY DEF MemoryInv, MemoryHolds
  <2>2. p \in Processes /\ (memory[a] = p <=> a \in Extent(memStart[p], p))
    BY Numbers DEF MemoryInv, MemoryHolds
  <2>3. memory[a] = p \/ memory[a] = FREE \/ a \notin Extent(start, p)
    <3>1. SUFFICES ASSUME a \in Extent(start, p), a \notin Extent(memStart[p], p)
                   PROVE  memory[a] = FREE
      BY <2>2
    <3>2. a \in start .. memStart[p] - 1
      BY <3>1, Numbers DEF Extent
    <3> QED
      BY <3>2
  <2>4. CASE q = p
    <3>1. memStart'[q] = start
      BY <2>4, Numbers DEF SwapTypeOK
    <3> QED
      BY <2>1, <2>2, <2>4, <3>1, States
  <2>5. CASE q # p
    <3>1. memStart'[q] = memStart[q] /\ q # FREE
      BY <2>5, States DEF SwapTypeOK
    <3>2. CASE a \in Extent(start, p)
      BY <2>1, <2>3, <2>5, <3>1, <3>2
    <3>3. CASE a \notin Extent(start, p) /\ a \in Extent(memStart[p], p)
      BY <2>1, <2>2, <2>5, <3>1, <3>3
    <3>4. CASE a \notin Extent(start, p) /\ a \notin Extent(memStart[p], p)
      BY <2>1, <3>1, <3>4
    <3> QED
      BY <3>2, <3>3, <3>4
  <2> QED
    BY <2>4, <2>5
<1>6. MemoryHolds'
  BY <1>5 DEF MemoryHolds, Extent
<1> QED
  BY <1>2, <1>3, <1>4, <1>6 DEF MemoryInv

\* What lies behind a hole begins there.
LEMMA BehindHole ==
  ASSUME SwapTypeOK, MemoryInv, memory[0] # FREE, NEW h \in HoleStarts,
         h + HoleSize(h) < MaxMemory
  PROVE  /\ h + HoleSize(h) \in Cells
         /\ memory[h + HoleSize(h)] \in Loaded
         /\ memStart[memory[h + HoleSize(h)]] = h + HoleSize(h)
<1> DEFINE e == h + HoleSize(h)
           p == memory[e]
<1>1. /\ h \in Nat /\ HoleSize(h) \in Nat /\ HoleSize(h) >= 1 /\ e - 1 \in Cells
      /\ e \in Cells /\ memory[e - 1] = FREE /\ memory[e] # FREE
  BY HoleIs, Numbers
<1>2. p \in Loaded /\ e \in Extent(memStart[p], p)
  BY <1>1, Numbers DEF MemoryInv, MemoryHolds
<1>3. p \in Processes /\ p # FREE
  BY <1>2, Numbers, States
<1>4. e - 1 \notin Extent(memStart[p], p)
  BY <1>1, <1>2, <1>3 DEF MemoryInv, MemoryHolds
<1>5. e \in Nat /\ memStart[p] \in Nat /\ memorySize[p] \in Nat
  BY <1>1, <1>3, Numbers
<1> HIDE DEF e, p
<1>6. memStart[p] = e
  BY <1>2, <1>4, <1>5 DEF Extent
<1> QED
  BY <1>1, <1>2, <1>6 DEF e, p

-----------------------------------------------------------------------------
(***************************************************************************)
(* What a process coming or going does to the ring.                        *)
(***************************************************************************)
\* The distance between two cells, by their distances from the head h.
LEMMA RingShift ==
  ASSUME NEW h \in Cells, NEW n \in Distances, NEW d \in Distances
  PROVE  /\ Ring(Ring(h + d) - Ring(h + n))
              = IF n <= d THEN d - n ELSE d - n + MaxMemory
         /\ Ring(Ring(h + n) + d)
              = IF n + d < MaxMemory THEN Ring(h + (n + d))
                                     ELSE Ring(h + (n + d - MaxMemory))
<1>1. /\ d \in Nat /\ n \in Nat /\ h \in Nat /\ d < MaxMemory /\ n < MaxMemory
      /\ h < MaxMemory /\ MaxMemory \in Nat
  BY Constants DEF Cells, Distances
<1>2. /\ Ring(h + d) \in Cells /\ Ring(h + n) \in Cells
      /\ Ring(h + d) = IF h + d < MaxMemory THEN h + d ELSE h + d - MaxMemory
      /\ Ring(h + n) = IF h + n < MaxMemory THEN h + n ELSE h + n - MaxMemory
  BY RingCell
<1>3. Ring(Ring(h + d) - Ring(h + n)) = IF n <= d THEN d - n ELSE d - n + MaxMemory
  <2>1. Ring(Ring(h + d) - Ring(h + n))
          = IF Ring(h + n) <= Ring(h + d) THEN Ring(h + d) - Ring(h + n)
            ELSE Ring(h + d) - Ring(h + n) + MaxMemory
    BY <1>2, RingDistance
  <2> QED
    BY <1>1, <1>2, <2>1
<1>4. CASE n + d < MaxMemory
  <2>1. n + d \in Distances
    BY <1>1, <1>4 DEF Distances
  <2>2. Ring(h + (n + d)) = IF h + (n + d) < MaxMemory THEN h + (n + d)
                            ELSE h + (n + d) - MaxMemory
    BY <2>1, RingCell
  <2>3. Ring(Ring(h + n) + d) = IF Ring(h + n) + d < MaxMemory THEN Ring(h + n) + d
                                ELSE Ring(h + n) + d - MaxMemory
    BY <1>2, RingCell
  <2> QED
    BY <1>1, <1>2, <1>3, <1>4, <2>2, <2>3
<1>5. CASE ~(n + d < MaxMemory)
  <2>1. n + d - MaxMemory \in Distances
    BY <1>1, <1>5 DEF Distances
  <2>2. Ring(h + (n + d - MaxMemory))
          = IF h + (n + d - MaxMemory) < MaxMemory THEN h + (n + d - MaxMemory)
            ELSE h + (n + d - MaxMemory) - MaxMemory
    BY <2>1, RingCell
  <2>3. Ring(Ring(h + n) + d) = IF Ring(h + n) + d < MaxMemory THEN Ring(h + n) + d
                                ELSE Ring(h + n) + d - MaxMemory
    BY <1>2, RingCell
  <2> QED
    BY <1>1, <1>2, <1>3, <1>5, <2>2, <2>3
<1> QED
  BY <1>4, <1>5

\* Where the stored processes are.
LEMMA BehindIs ==
  ASSUME SwapTypeOK, NEW p \in Processes
  PROVE  /\ Behind(p) \in Distances /\ memStart[p] = Ring(head + Behind(p))
         /\ Behind(p) \in Nat /\ Behind(p) < MaxMemory /\ Inside(p, Behind(p))
<1>1. memStart[p] \in Cells /\ head \in Cells
  BY DEF SwapTypeOK
<1>2. Behind(p) \in Distances /\ Ring(head + Behind(p)) = memStart[p]
  BY <1>1, RingDistance DEF Behind
<1>3. Behind(p) \in Nat /\ Behind(p) < MaxMemory
  BY <1>2, Numbers DEF Distances
<1> QED
  BY <1>2, <1>3, Numbers DEF Inside

LEMMA AtIs ==
  ASSUME SwapTypeOK, NEW d \in Distances
  PROVE  At(d) \in Processes \/ At(d) = FREE
<1>1. Ring(head + d) \in Cells
  BY RingCell DEF SwapTypeOK
<1> QED
  BY <1>1 DEF At, SwapTypeOK

\* The process at the head of the ring begins there.
LEMMA HeadIs ==
  ASSUME SwapTypeOK, NEW n \in 0 .. MaxMemory, RingHolds(n), Stored # {}
  PROVE  /\ FromStore \in Stored /\ Behind(FromStore) = 0
         /\ memStart[FromStore] = head /\ memorySize[FromStore] <= n
<1>1. 0 \in Distances /\ head \in Cells /\ head + 0 = head /\ At(0) = FromStore
  <2>1. 0 \in Distances /\ head \in Cells /\ head \in Nat /\ head < MaxMemory
    BY Numbers DEF Distances, SwapTypeOK
  <2>2. Ring(head) = head
    BY <2>1, RingIs
  <2> QED
    BY <2>1, <2>2 DEF At, FromStore
<1>2. n > 0
  <2>1. PICK q \in Stored : q \in Processes
    BY Numbers
  <2>2. Behind(q) + memorySize[q] <= n
    BY <2>1 DEF RingHolds
  <2> QED
    BY <2>1, <2>2, BehindIs, Numbers
<1>3. At(0) \in Processes
  BY <1>1, <1>2, AtIs DEF RingHolds
<1>4. At(0) \in Stored /\ Inside(At(0), 0)
  BY <1>1, <1>3 DEF RingHolds
<1>5. Behind(At(0)) = 0
  BY <1>3, <1>4, BehindIs DEF Inside
<1>6. memStart[At(0)] = head
  <2>1. head \in Nat /\ head < MaxMemory
    BY <1>1, Numbers
  <2>2. Ring(head) = head
    BY <2>1, RingIs
  <2> QED
    BY <1>1, <1>3, <1>5, <2>2, BehindIs
<1>7. 0 + memorySize[At(0)] <= n
  BY <1>4, <1>5 DEF RingHolds
<1> QED
  BY <1>1, <1>3, <1>4, <1>5, <1>6, <1>7, Numbers

\* A cell behind those in use is free, or the ring would be overrun.
LEMMA RoomBehind ==
  ASSUME SwapTypeOK, NEW n \in 0 .. MaxMemory, tail = Ring(head + n),
         n > 0 => At(0) # FREE, NEW p \in Processes, ~Overruns(memorySize[p])
  PROVE  n \in Distances
<1>1. /\ memorySize[p] \in Nat /\ memorySize[p] >= 1 /\ n \in Nat /\ n <= MaxMemory
      /\ head \in Nat /\ head < MaxMemory
      /\ MaxMemory > 0 /\ MaxMemory \in Nat
  BY Numbers DEF SwapTypeOK
<1>2. 0 \in 0 .. memorySize[p] - 1
  BY <1>1
<1>3. bs[Ring(tail + 0)] = FREE
  BY <1>2 DEF Overruns
<1>4. n < MaxMemory
  <2> SUFFICES ASSUME n = MaxMemory PROVE FALSE
    BY <1>1
  <2>1. tail = head
    BY <1>1, RingIs
  <2>2. bs[Ring(head + 0)] = FREE
    BY <1>3, <2>1
  <2> QED
    BY <1>1, <2>2 DEF At
<1> QED
  BY <1>1, <1>4 DEF Distances

\* Behind n cells of the ring comes a copy of a process.
LEMMA CopyComes ==
  ASSUME SwapTypeOK, NEW n \in 0 .. MaxMemory, tail = Ring(head + n),
         n > 0 => At(0) # FREE, NEW p \in Processes, memorySize[p] <= MaxMemory,
         ~Overruns(memorySize[p]), NEW start \in Cells,
         \A d \in 0 .. memorySize[p] - 1 : memory[start + d] = p,
         bs' = Copied(start, p), tail' = Ring(tail + memorySize[p]), head' = head
  PROVE  /\ n \in Distances /\ n + memorySize[p] <= MaxMemory
         /\ \A d \in Distances :
              At(d)' = IF n <= d /\ d < n + memorySize[p] THEN p ELSE At(d)
         /\ tail' = Ring(head' + (n + memorySize[p]))
<1> DEFINE z == memorySize[p]
<1>1. /\ z \in Nat /\ z >= 1 /\ n \in Nat /\ n <= MaxMemory /\ MaxMemory \in Nat
      /\ head \in Cells /\ tail \in Cells /\ head \in Nat /\ head < MaxMemory
      /\ MaxMemory > 0 /\ z <= MaxMemory
  BY Numbers DEF SwapTypeOK
<1>2. \A d \in 0 .. z - 1 : bs[Ring(tail + d)] = FREE
  BY DEF Overruns
<1> HIDE DEF z
<1>3. n \in Distances
  BY RoomBehind
<1>4. n < MaxMemory
  BY <1>3, Numbers DEF Distances
<1>5. n + z <= MaxMemory
  <2> SUFFICES ASSUME n + z > MaxMemory PROVE FALSE
    BY <1>1
  <2>1. /\ MaxMemory - n \in 0 .. z - 1 /\ n > 0 /\ MaxMemory - n \in Distances
        /\ ~(n + (MaxMemory - n) < MaxMemory) /\ n + (MaxMemory - n) - MaxMemory = 0
    BY <1>1, <1>4 DEF Distances
  <2>2. Ring(tail + (MaxMemory - n)) = Ring(head + 0)
    BY <1>1, <1>3, <2>1, RingShift
  <2>3. bs[Ring(head + 0)] = FREE
    BY <1>2, <2>1, <2>2
  <2> QED
    BY <2>1, <2>3 DEF At
<1>6. \A d \in Distances : At(d)' = IF n <= d /\ d < n + z THEN p ELSE At(d)
  <2> SUFFICES ASSUME NEW d \in Distances
               PROVE  bs'[Ring(head + d)] = IF n <= d /\ d < n + z THEN p ELSE At(d)
    BY DEF At, Ring
  <2>1. Ring(head + d) \in Cells
    BY <1>1, RingCell
  <2>2. Ring(Ring(head + d) - tail) = IF n <= d THEN d - n ELSE d - n + MaxMemory
    BY <1>1, <1>3, RingShift
  <2>3. bs'[Ring(head + d)]
          = IF Ring(Ring(head + d) - tail) < z
            THEN memory[start + Ring(Ring(head + d) - tail)] ELSE At(d)
    BY <2>1 DEF Copied, At, z
  <2>4. d \in Nat /\ d < MaxMemory
    BY Numbers DEF Distances
  <2>5. CASE n <= d /\ d < n + z
    <3>1. d - n \in 0 .. z - 1 /\ d - n < z
      BY <1>1, <2>4, <2>5
    <3>2. memory[start + (d - n)] = p
      BY <3>1 DEF z
    <3> QED
      BY <2>2, <2>3, <2>5, <3>1, <3>2
  <2>6. CASE ~(n <= d /\ d < n + z)
    <3>1. ~(Ring(Ring(head + d) - tail) < z)
      BY <1>1, <1>5, <2>2, <2>4, <2>6
    <3> QED
      BY <2>3, <2>6, <3>1
  <2> QED
    BY <2>5, <2>6
<1>7. tail' = Ring(head + (n + z))
  <2>1. tail = IF head + n < MaxMemory THEN head + n ELSE head + n - MaxMemory
    BY <1>1, <1>3, RingCell
  <2>2. /\ head + (n + z) < MaxMemory => Ring(head + (n + z)) = head + (n + z)
        /\ ~(head + (n + z) < MaxMemory) =>
             Ring(head + (n + z)) = head + (n + z) - MaxMemory
    BY <1>1, <1>5, RingIs
  <2>3. /\ tail + z < MaxMemory => Ring(tail + z) = tail + z
        /\ ~(tail + z < MaxMemory) => Ring(tail + z) = tail + z - MaxMemory
    BY <1>1, <1>4, <2>1, RingIs
  <2> QED
    BY <1>1, <1>4, <1>5, <2>1, <2>2, <2>3 DEF z
<1> QED
  BY <1>3, <1>5, <1>6, <1>7 DEF z

\* The first cells of the ring, those of a copy of a process, are given up.
LEMMA CopyGoes ==
  ASSUME SwapTypeOK, NEW n \in 0 .. MaxMemory, tail = Ring(head + n),
         NEW p \in Processes, memorySize[p] <= n, memorySize[p] < MaxMemory,
         bs' = [a \in Cells |-> IF Ring(a - head) < memorySize[p]
                                THEN FREE ELSE bs[a]],
         head' = HeadAfter(memorySize[p]), tail' = tail
  PROVE  /\ \A d \in Distances :
              /\ d + memorySize[p] < MaxMemory =>
                   d + memorySize[p] \in Distances /\ At(d)' = At(d + memorySize[p])
              /\ ~(d + memorySize[p] < MaxMemory) => At(d)' = FREE
         /\ tail' = Ring(head' + (n - memorySize[p]))
<1> DEFINE z == memorySize[p]
<1>1. /\ z \in Nat /\ z >= 1 /\ n \in Nat /\ n <= MaxMemory /\ MaxMemory \in Nat
      /\ head \in Cells /\ head \in Nat /\ head < MaxMemory
      /\ z < MaxMemory
  BY Numbers DEF SwapTypeOK
<1>2. z <= n
  OBVIOUS
<1>3. z \in Distances
  BY <1>1 DEF Distances
<1>4. head' = Ring(head + z)
  BY DEF HeadAfter
<1> HIDE DEF z
<1>5. \A d \in Distances :
        /\ d + z < MaxMemory => d + z \in Distances /\ At(d)' = At(d + z)
        /\ ~(d + z < MaxMemory) => At(d)' = FREE
  <2> SUFFICES ASSUME NEW d \in Distances
               PROVE  /\ d + z < MaxMemory =>
                           d + z \in Distances /\ bs'[Ring(head' + d)] = At(d + z)
                      /\ ~(d + z < MaxMemory) => bs'[Ring(head' + d)] = FREE
    BY DEF At, Ring
  <2>1. d \in Nat /\ d < MaxMemory
    BY Numbers DEF Distances
  <2>2. \A e \in Distances : Ring(head + e) \in Cells /\ Ring(Ring(head + e) - head) = e
    BY <1>1, RingCell
  <2>3. \A e \in Distances : bs'[Ring(head + e)] = IF e < z THEN FREE ELSE At(e)
    BY <2>2 DEF At, z
  <2>4. CASE d + z < MaxMemory
    <3>1. d + z \in Distances /\ z + d = d + z /\ ~(d + z < z)
      BY <1>1, <2>1, <2>4 DEF Distances
    <3>2. Ring(head' + d) = Ring(head + (d + z))
      BY <1>1, <1>3, <1>4, <2>4, <3>1, RingShift
    <3> QED
      BY <2>3, <2>4, <3>1, <3>2
  <2>5. CASE ~(d + z < MaxMemory)
    <3>1. d + z - MaxMemory \in Distances /\ z + d = d + z /\ d + z - MaxMemory < z
      BY <1>1, <2>1, <2>5 DEF Distances
    <3>2. Ring(head' + d) = Ring(head + (d + z - MaxMemory))
      BY <1>1, <1>3, <1>4, <2>5, <3>1, RingShift
    <3> QED
      BY <2>3, <2>5, <3>1, <3>2
  <2> QED
    BY <2>4, <2>5
<1>6. tail' = Ring(head' + (n - z))
  <2>1. CASE n < MaxMemory
    <3>1. n - z \in Distances /\ z + (n - z) = n
      BY <1>1, <1>2, <2>1 DEF Distances
    <3>2. Ring(head' + (n - z)) = Ring(head + n)
      BY <1>1, <1>3, <1>4, <2>1, <3>1, RingShift
    <3> QED
      BY <3>2
  <2>2. CASE ~(n < MaxMemory)
    <3>1. /\ n - z \in Distances /\ ~(z + (n - z) < MaxMemory)
          /\ z + (n - z) - MaxMemory = 0 /\ n = MaxMemory
      BY <1>1, <1>2, <2>2 DEF Distances
    <3>2. Ring(head' + (n - z)) = Ring(head + 0)
      BY <1>1, <1>3, <1>4, <3>1, RingShift
    <3>3. Ring(head + MaxMemory) = head /\ Ring(head + 0) = head
      BY <1>1, RingIs
    <3> QED
      BY <3>1, <3>2, <3>3
  <2> QED
    BY <2>1, <2>2
<1> QED
  BY <1>5, <1>6 DEF z

\* Who comes is behind the others, who stay where they are.
LEMMA BehindComes ==
  ASSUME SwapTypeOK, NEW n \in Distances, tail = Ring(head + n),
         NEW p \in Processes, head' = head,
         memStart' = [memStart EXCEPT ![p] = tail]
  PROVE  Behind(p)' = n /\ \A q \in Processes \ {p} : Behind(q)' = Behind(q)
<1>1. memStart'[p] = tail /\ \A q \in Processes \ {p} : memStart'[q] = memStart[q]
  BY DEF SwapTypeOK
<1>2. Ring(tail - head) = n
  BY RingCell DEF SwapTypeOK
<1> QED
  BY <1>1, <1>2 DEF Behind, Ring

\* When the process at the head goes, the others are nearer by its size.
LEMMA BehindGoes ==
  ASSUME SwapTypeOK, NEW n \in 0 .. MaxMemory, RingHolds(n),
         NEW p \in Stored, Behind(p) = 0, memorySize[p] < MaxMemory,
         NEW start, head' = HeadAfter(memorySize[p]),
         memStart' = [memStart EXCEPT ![p] = start]
  PROVE  \A q \in Stored \ {p} : Behind(q)' = Behind(q) - memorySize[p]
<1> SUFFICES ASSUME NEW q \in Stored \ {p}
             PROVE  Behind(q)' = Behind(q) - memorySize[p]
  OBVIOUS
<1> DEFINE z == memorySize[p]
<1>1. /\ z \in Nat /\ z \in Distances /\ MaxMemory \in Nat
      /\ head \in Cells /\ head \in Nat /\ head < MaxMemory /\ p \in Processes
  BY Numbers DEF SwapTypeOK, Distances
<1>2. head' = Ring(head + z)
  BY DEF HeadAfter
<1>3. /\ q \in Processes /\ Behind(q) \in Distances /\ Inside(q, Behind(q))
      /\ memStart[q] = Ring(head + Behind(q))
  BY Numbers, BehindIs
<1>4. At(Behind(q)) = q
  BY <1>3 DEF RingHolds
<1>5. ~Inside(p, Behind(q))
  BY <1>1, <1>3, <1>4 DEF RingHolds
<1>6. z <= Behind(q)
  BY <1>1, <1>3, <1>5 DEF Inside, Distances
<1>7. memStart'[q] = memStart[q]
  BY <1>3 DEF SwapTypeOK
<1>8. Ring(memStart[q] - head') = Behind(q) - z
  BY <1>1, <1>2, <1>3, <1>6, RingShift
<1> QED
  BY <1>7, <1>8 DEF Behind, Ring

\* Some process is at the head of a ring in use.
LEMMA HeadUsed ==
  ASSUME SwapTypeOK, NEW n \in 0 .. MaxMemory, RingHolds(n)
  PROVE  n > 0 => At(0) # FREE
<1>1. 0 \in Distances /\ n \in Nat
  BY Numbers DEF Distances
<1> QED
  BY <1>1 DEF RingHolds

\* A process comes to the ring, behind the others.
LEMMA RingComes ==
  ASSUME SwapTypeOK, NEW n \in 0 .. MaxMemory, RingHolds(n),
         NEW p \in Processes, p \notin Stored, memorySize[p] <= MaxMemory,
         ~Overruns(memorySize[p]), NEW start \in Cells,
         \A d \in 0 .. memorySize[p] - 1 : memory[start + d] = p,
         bs' = Copied(start, p), tail' = Ring(tail + memorySize[p]),
         head' = head, memorySize' = memorySize,
         memStart' = [memStart EXCEPT ![p] = tail], Stored' = Stored \cup {p}
  PROVE  RingInv'
<1> DEFINE z == memorySize[p]
<1>1. /\ z \in Nat /\ z >= 1 /\ n \in Nat /\ n <= MaxMemory /\ MaxMemory \in Nat
      /\ head \in Cells /\ tail \in Cells /\ head \in Nat /\ head < MaxMemory
      /\ MaxMemory > 0 /\ z <= MaxMemory /\ tail = Ring(head + n)
  BY Numbers DEF SwapTypeOK, RingHolds
<1>2. /\ n \in Distances /\ n + z <= MaxMemory
      /\ \A d \in Distances : At(d)' = IF n <= d /\ d < n + z THEN p ELSE At(d)
      /\ tail' = Ring(head' + (n + z))
  <2>1. n > 0 => At(0) # FREE
    BY HeadUsed
  <2> QED
    BY <1>1, <2>1, CopyComes
<1> HIDE DEF z
<1>3. Behind(p)' = n /\ \A q \in Processes \ {p} : Behind(q)' = Behind(q)
  BY <1>1, <1>2, BehindComes
<1>4. \A q \in Stored' : Behind(q)' + memorySize'[q] <= n + z
  <2>1. \A q \in Stored : Behind(q) + memorySize[q] <= n /\ q \in Processes
    BY Numbers DEF RingHolds
  <2>2. \A q \in Stored : Behind(q) \in Nat /\ memorySize[q] \in Nat
    BY <2>1, BehindIs, Numbers
  <2> QED
    BY <1>1, <1>3, <2>1, <2>2 DEF z
<1>5. ASSUME NEW d \in Distances, NEW q \in Processes
       PROVE  At(d)' = q <=> q \in Stored' /\ Inside(q, d)'
  <2>1. At(d) = q <=> q \in Stored /\ Inside(q, d)
    BY DEF RingHolds
  <2>2. n <= d => At(d) = FREE /\ FREE # q
    BY States DEF RingHolds
  <2>3. CASE q = p
    <3>1. Inside(q, d)' <=> n <= d /\ d < n + z
      BY <1>3, <2>3 DEF Inside, z
    <3> QED
      BY <1>2, <2>1, <2>3, <3>1
  <2>4. CASE q # p
    <3>1. Inside(q, d)' <=> Inside(q, d)
      BY <1>3, <2>4 DEF Inside
    <3>2. At(d)' = IF n <= d /\ d < n + z THEN p ELSE At(d)
      BY <1>2
    <3> QED
      BY <2>1, <2>2, <2>4, <3>1, <3>2
  <2> QED
    BY <2>3, <2>4
<1>6. \A d \in Distances : At(d)' = FREE <=> n + z <= d
  <2> SUFFICES ASSUME NEW d \in Distances
               PROVE  At(d)' = FREE <=> n + z <= d
    OBVIOUS
  <2>1. d \in Nat /\ (At(d) = FREE <=> n <= d) /\ p # FREE
    BY Numbers, States DEF Distances, RingHolds
  <2> QED
    BY <1>1, <1>2, <2>1
<1>7. n + z \in 0 .. MaxMemory
  BY <1>1, <1>2
<1>8. ASSUME NEW k, k = n + z PROVE RingHolds(k)'
  BY <1>2, <1>4, <1>5, <1>6, <1>8 DEF RingHolds, Distances, Ring
<1> QED
  BY <1>7, <1>8 DEF RingInv

\* The process at the head leaves the ring, and the next one is at the head.
LEMMA RingGoes ==
  ASSUME SwapTypeOK, NEW n \in 0 .. MaxMemory, RingHolds(n),
         NEW p \in Stored, Behind(p) = 0, memorySize[p] < MaxMemory,
         NEW start,
         bs' = [a \in Cells |-> IF Ring(a - head) < memorySize[p]
                                THEN FREE ELSE bs[a]],
         head' = HeadAfter(memorySize[p]), tail' = tail, memorySize' = memorySize,
         memStart' = [memStart EXCEPT ![p] = start], Stored' = Stored \ {p}
  PROVE  RingInv'
<1> DEFINE z == memorySize[p]
<1>1. /\ z \in Nat /\ z >= 1 /\ n \in Nat /\ n <= MaxMemory /\ MaxMemory \in Nat
      /\ head \in Cells /\ head \in Nat /\ head < MaxMemory
      /\ z < MaxMemory /\ p \in Processes
  BY Numbers DEF SwapTypeOK
<1>2. z <= n
  <2>1. Behind(p) + z <= n
    BY DEF RingHolds
  <2> QED
    BY <1>1, <2>1
<1>3. /\ \A d \in Distances :
           /\ d + z < MaxMemory => d + z \in Distances /\ At(d)' = At(d + z)
           /\ ~(d + z < MaxMemory) => At(d)' = FREE
      /\ tail' = Ring(head' + (n - z))
  BY <1>1, <1>2, CopyGoes DEF RingHolds
<1>4. \A q \in Stored \ {p} : Behind(q)' = Behind(q) - z
  BY BehindGoes
<1> HIDE DEF z
<1>5. \A q \in Stored' : Behind(q)' + memorySize'[q] <= n - z
  <2> SUFFICES ASSUME NEW q \in Stored \ {p}
               PROVE  Behind(q)' + memorySize[q] <= n - z
    OBVIOUS
  <2>1. Behind(q) + memorySize[q] <= n
    BY DEF RingHolds
  <2>2. Behind(q) \in Nat /\ memorySize[q] \in Nat
    BY Numbers, BehindIs
  <2>3. Behind(q)' = Behind(q) - z
    BY <1>4
  <2> QED
    BY <1>1, <2>1, <2>2, <2>3
<1>6. ASSUME NEW d \in Distances, NEW q \in Processes
      PROVE  At(d)' = q <=> q \in Stored' /\ Inside(q, d)'
  <2>1. d \in Nat /\ d < MaxMemory /\ q # FREE
    BY Numbers, States DEF Distances
  <2>2. CASE q \notin Stored \ {p}
    <3>1. d + z < MaxMemory => At(d + z) # q
      <4>1. SUFFICES ASSUME d + z < MaxMemory, At(d + z) = q PROVE FALSE
        OBVIOUS
      <4>2. q \in Stored /\ Inside(q, d + z)
        BY <1>3, <4>1 DEF RingHolds
      <4>3. q = p
        BY <2>2, <4>2
      <4> QED
        BY <1>1, <2>1, <4>2, <4>3 DEF Inside, z
    <3> QED
      BY <1>3, <2>1, <2>2, <3>1
  <2>3. CASE q \in Stored \ {p}
    <3>1. Behind(q)' = Behind(q) - z /\ Behind(q) \in Nat /\ memorySize[q] \in Nat
      BY <1>4, <2>3, BehindIs, Numbers
    <3>2. Inside(q, d)' <=> Inside(q, d + z)
      BY <1>1, <2>1, <3>1 DEF Inside
    <3>3. CASE d + z < MaxMemory
      <4>1. At(d + z) = q <=> Inside(q, d + z)
        BY <1>3, <2>3, <3>3 DEF RingHolds
      <4> QED
        BY <1>3, <2>3, <3>2, <3>3, <4>1
    <3>4. CASE ~(d + z < MaxMemory)
      <4>1. Behind(q) + memorySize[q] <= n
        BY <2>3 DEF RingHolds
      <4>2. ~Inside(q, d + z)
        BY <1>1, <2>1, <3>1, <3>4, <4>1 DEF Inside
      <4> QED
        BY <1>3, <2>1, <3>2, <3>4, <4>2
    <3> QED
      BY <3>3, <3>4
  <2> QED
    BY <2>2, <2>3
<1>7. \A d \in Distances : At(d)' = FREE <=> n - z <= d
  <2> SUFFICES ASSUME NEW d \in Distances
               PROVE  At(d)' = FREE <=> n - z <= d
    OBVIOUS
  <2>1. d \in Nat /\ d < MaxMemory
    BY Numbers DEF Distances
  <2>2. CASE d + z < MaxMemory
    <3>1. At(d + z) = FREE <=> n <= d + z
      BY <1>3, <2>2 DEF RingHolds
    <3> QED
      BY <1>1, <1>3, <2>1, <2>2, <3>1
  <2>3. CASE ~(d + z < MaxMemory)
    BY <1>1, <1>3, <2>1, <2>3
  <2> QED
    BY <2>2, <2>3
<1>8. n - z \in 0 .. MaxMemory
  BY <1>1, <1>2
<1>9. ASSUME NEW k, k = n - z PROVE RingHolds(k)'
  BY <1>3, <1>5, <1>6, <1>7, <1>9 DEF RingHolds, Distances, Ring
<1> QED
  BY <1>8, <1>9 DEF RingInv

\* Nothing happens to the ring.
LEMMA RingSame ==
  ASSUME SwapTypeOK, RingInv, UNCHANGED <<store, memorySize>>, Stored' = Stored,
         \A p \in Stored : memStart'[p] = memStart[p]
  PROVE  RingInv'
<1>1. PICK n \in 0 .. MaxMemory : RingHolds(n)
  BY DEF RingInv
<1>2. /\ \A d \in Distances : At(d)' = At(d)
      /\ \A p \in Stored : Behind(p)' = Behind(p)
      /\ head' = head /\ tail' = tail /\ memorySize' = memorySize
  BY DEF store, At, Behind, Ring
<1>3. \A p \in Stored, d \in Distances : Inside(p, d)' <=> Inside(p, d)
  BY <1>2 DEF Inside
<1>4. \A d \in Distances, p \in Processes :
        At(d)' = p <=> p \in Stored' /\ Inside(p, d)'
  BY <1>1, <1>2, <1>3 DEF RingHolds
<1>5. \A d \in Distances : At(d)' = FREE <=> n <= d
  BY <1>1, <1>2 DEF RingHolds
<1>6. \A p \in Stored' : Behind(p)' + memorySize'[p] <= n
  BY <1>1, <1>2 DEF RingHolds
<1>7. tail' = Ring(head' + n)
  BY <1>1, <1>2 DEF RingHolds
<1>8. RingHolds(n)'
  BY <1>4, <1>5, <1>6, <1>7 DEF RingHolds, Distances, Ring
<1> QED
  BY <1>8 DEF RingInv

\* What the ring holds, cell by cell.
LEMMA StoreFollows ==
  ASSUME SwapTypeOK, RingInv
  PROVE  StoreHolds
<1>1. PICK n \in 0 .. MaxMemory : RingHolds(n)
  BY DEF RingInv
<1>2. head \in Cells /\ n \in Nat /\ n <= MaxMemory
  BY Numbers DEF SwapTypeOK
<1>3. ASSUME NEW a \in Cells, NEW p \in Processes
      PROVE  bs[a] = p <=> p \in Stored /\ Ring(a - memStart[p]) < memorySize[p]
  <2> DEFINE d == Ring(a - head)
  <2>1. d \in Distances /\ a = Ring(head + d)
    BY <1>2, RingDistance
  <2>2. bs[a] = p <=> p \in Stored /\ Inside(p, d)
    BY <1>1, <2>1 DEF RingHolds, At
  <2>3. ASSUME p \in Stored
        PROVE  Inside(p, d) <=> Ring(a - memStart[p]) < memorySize[p]
    <3>1. /\ Behind(p) \in Distances /\ Behind(p) \in Nat
          /\ memStart[p] = Ring(head + Behind(p))
      BY BehindIs
    <3>2. Ring(a - memStart[p])
            = IF Behind(p) <= d THEN d - Behind(p) ELSE d - Behind(p) + MaxMemory
      BY <1>2, <2>1, <3>1, RingShift
    <3>3. Behind(p) + memorySize[p] <= n
      BY <1>1, <2>3 DEF RingHolds
    <3>4. d \in Nat /\ memorySize[p] \in Nat /\ MaxMemory \in Nat
      BY <2>1, Numbers DEF Distances
    <3> HIDE DEF d
    <3> QED
      BY <1>2, <3>1, <3>2, <3>3, <3>4 DEF Inside
  <2> QED
    BY <2>2, <2>3
<1>4. bs[head] = FREE <=> Stored = {}
  <2>1. CASE Stored = {}
    <3>1. head \in Nat /\ head < MaxMemory /\ 0 \in Distances
      BY <1>2, Numbers DEF Distances
    <3>2. At(0) = bs[head]
      BY <3>1, RingIs DEF At
    <3>3. At(0) \notin Processes
      BY <1>1, <2>1, <3>1 DEF RingHolds
    <3> QED
      BY <2>1, <3>1, <3>2, <3>3, AtIs
  <2>2. CASE Stored # {}
    <3>1. bs[head] \in Processes
      BY <1>1, <2>2, HeadIs, Numbers DEF FromStore
    <3> QED
      BY <2>2, <3>1, States
  <2> QED
    BY <2>1, <2>2
<1>5. Cardinality({a \in Cells : bs[a] # FREE}) = n
  <2> DEFINE U == {a \in Cells : bs[a] # FREE}
             f == [d \in 0 .. n - 1 |-> Ring(head + d)]
  <2>1. \A d \in 0 .. n - 1 : d \in Distances /\ ~(n <= d)
    BY <1>2, Numbers DEF Distances
  <2>2. \A d \in 0 .. n - 1 : Ring(head + d) \in U /\ Ring(Ring(head + d) - head) = d
    BY <1>1, <1>2, <2>1, RingCell DEF RingHolds, At
  <2>3. \A a \in U : \E d \in 0 .. n - 1 : Ring(head + d) = a
    <3> SUFFICES ASSUME NEW a \in U
                 PROVE  Ring(a - head) \in 0 .. n - 1 /\ Ring(head + Ring(a - head)) = a
      OBVIOUS
    <3>1. Ring(a - head) \in Distances /\ Ring(head + Ring(a - head)) = a
      BY <1>2, RingDistance
    <3>2. ~(n <= Ring(a - head))
      BY <1>1, <3>1 DEF RingHolds, At
    <3> QED
      BY <1>2, <3>1, <3>2 DEF Distances
  <2> HIDE DEF U
  <2>4. f \in Bijection(0 .. n - 1, U)
    BY <2>2, <2>3 DEF Bijection, Injection, Surjection, IsInjective
  <2>5. IsFiniteSet(0 .. n - 1) /\ Cardinality(0 .. n - 1) = n
    BY <1>2, FS_Interval
  <2>6. Cardinality(U) = n
    BY <2>4, <2>5, FS_Bijection DEF ExistsBijection
  <2> QED
    BY <2>6 DEF U
<1>6. Ring(head + Cardinality({a \in Cells : bs[a] # FREE})) = tail
  BY <1>1, <1>5 DEF RingHolds
<1> QED
  BY <1>3, <1>4, <1>6 DEF StoreHolds

-----------------------------------------------------------------------------
(***************************************************************************)
(* What the operations do to the processes.                                *)
(***************************************************************************)
LEMMA Stays ==
  ASSUME SwapInv, pc # "astray"
  PROVE  /\ SwapTypeOK /\ RootHolds /\ StartHolds /\ CallHolds
         /\ MemoryInv /\ RingInv
         /\ MemoryHolds /\ Placed
BY DEF SwapInv, Intact, IntactInv, MemoryInv

\* Who is put in memory is not there yet.
LEMMA WantedIs ==
  ASSUME SwapInv, pc \in {"fit", "scan", "fill"}
  PROVE  /\ Wanted \in Processes \ {0} /\ Wanted \notin Loaded
         /\ proc = NULL => /\ Wanted = FromStore /\ Wanted \in Stored
                           /\ Behind(Wanted) = 0
         /\ proc # NULL => Wanted = proc /\ Wanted \notin Stored
<1>1. SwapTypeOK /\ CallHolds /\ RingInv /\ RootHolds /\ pc # "start"
  BY Stays
<1>2. CASE proc = NULL
  <2>1. PICK n \in 0 .. MaxMemory : RingHolds(n)
    BY <1>1 DEF RingInv
  <2>2. Stored # {}
    BY <1>1, <1>2, States DEF CallHolds
  <2>3. FromStore \in Stored /\ Behind(FromStore) = 0
    BY <1>1, <2>1, <2>2, HeadIs
  <2>4. FromStore \in Processes \ {0} /\ FromStore \notin Loaded
    BY <1>1, <2>3, States DEF Stored, Loaded, InMemory, RootHolds
  <2> QED
    BY <1>2, <2>3, <2>4 DEF Wanted
<1>3. CASE proc # NULL
  <2>1. proc \in Processes \ {0} /\ state[proc] = WAITING
    BY <1>1, <1>3 DEF CallHolds
  <2>2. proc \notin Stored /\ proc \notin Loaded
    BY <2>1, States DEF Stored, Loaded, InMemory
  <2> QED
    BY <1>3, <2>1, <2>2 DEF Wanted
<1> QED
  BY <1>2, <1>3

\* Put(): the process comes to memory, from the head of the ring or not.
LEMMA PutDoes ==
  ASSUME SwapTypeOK, NEW h \in Nat, Put(h),
         proc = NULL => \A d \in 0 .. memorySize[Wanted] - 1 : At(d) = Wanted,
         Wanted \in Processes
  PROVE  /\ memory' = [a \in Cells |-> IF a \in Extent(h, Wanted) THEN Wanted
                                                                  ELSE memory[a]]
         /\ h + memorySize[Wanted] <= MaxMemory
         /\ memStart' = [memStart EXCEPT ![Wanted] = h]
         /\ state' = [state EXCEPT ![Wanted] = RUNNING]
         /\ memUsed' = memUsed + memorySize[Wanted]
         /\ memorySize' = memorySize
         /\ proc = NULL => PutStored(h)
         /\ proc # NULL => UNCHANGED <<store, numProcess>>
<1>1. CASE proc = NULL
  <2>1. PutStored(h) /\ Wanted = FromStore
    BY <1>1, States DEF Put, Wanted
  <2>2. ASSUME NEW a \in Extent(h, Wanted)
        PROVE  bs[Ring(head + a - h)] = Wanted
    <3>1. /\ head \in Nat /\ a \in Int /\ memorySize[Wanted] \in Nat
          /\ 0 <= a - h /\ a - h < memorySize[Wanted]
      BY Numbers DEF Extent, SwapTypeOK
    <3>2. a - h \in 0 .. memorySize[Wanted] - 1 /\ head + a - h = head + (a - h)
      BY <3>1
    <3> QED
      BY <1>1, <3>2 DEF At
  <2>3. memory' = [a \in Cells |-> IF a \in Extent(h, Wanted)
                                   THEN bs[Ring(head + a - h)] ELSE memory[a]]
    BY <2>1 DEF PutStored
  <2>4. memory' = [a \in Cells |-> IF a \in Extent(h, Wanted) THEN Wanted
                                                              ELSE memory[a]]
    BY <2>2, <2>3
  <2> QED
    BY <1>1, <2>1, <2>4 DEF PutStored
<1>2. CASE proc # NULL
  <2>1. PutInMemory(h, proc) /\ UNCHANGED store /\ Wanted = proc
    BY <1>2 DEF Put, Wanted
  <2> QED
    BY <1>2, <2>1 DEF PutInMemory, Extent
<1> QED
  BY <1>1, <1>2

\* With one copy of every process it comes from the ring or for the first time.
LEMMA PutIs ==
  ASSUME SwapInv, pc \in {"fit", "fill"}, NEW h \in Nat, Put(h), pc' = "quantum"
  PROVE  /\ memory' = [a \in Cells |-> IF a \in Extent(h, Wanted) THEN Wanted
                                                                  ELSE memory[a]]
         /\ h + memorySize[Wanted] <= MaxMemory
         /\ memStart' = [memStart EXCEPT ![Wanted] = h]
         /\ state' = [state EXCEPT ![Wanted] = RUNNING]
         /\ memUsed' = memUsed + memorySize[Wanted]
         /\ memorySize' = memorySize
         /\ Loaded' = Loaded \cup {Wanted} /\ Stored' = Stored \ {Wanted}
         /\ proc = NULL => PutStored(h)
         /\ proc # NULL => UNCHANGED <<store, numProcess>>
<1>1. /\ SwapTypeOK /\ RingInv /\ pc # "start"
      /\ Wanted \in Processes /\ Wanted \notin Loaded
  BY Stays, WantedIs
<1>2. ASSUME proc = NULL, NEW d \in 0 .. memorySize[Wanted] - 1
      PROVE  At(d) = Wanted
  <2>1. Wanted \in Stored /\ Behind(Wanted) = 0
    BY <1>2, WantedIs
  <2>2. PICK n \in 0 .. MaxMemory : RingHolds(n)
    BY <1>1 DEF RingInv
  <2>3. 0 + memorySize[Wanted] <= n
    BY <2>1, <2>2 DEF RingHolds
  <2>4. d \in Distances /\ d \in Nat /\ d < memorySize[Wanted]
    BY <1>1, <2>3, Numbers DEF Distances
  <2>5. Inside(Wanted, d)
    BY <2>1, <2>4, Numbers, <1>1 DEF Inside
  <2> QED
    BY <1>1, <2>1, <2>2, <2>4, <2>5 DEF RingHolds
<1>3. /\ memory' = [a \in Cells |-> IF a \in Extent(h, Wanted) THEN Wanted
                                                               ELSE memory[a]]
      /\ h + memorySize[Wanted] <= MaxMemory
      /\ memStart' = [memStart EXCEPT ![Wanted] = h]
      /\ state' = [state EXCEPT ![Wanted] = RUNNING]
      /\ memUsed' = memUsed + memorySize[Wanted]
      /\ memorySize' = memorySize
      /\ proc = NULL => PutStored(h)
      /\ proc # NULL => UNCHANGED <<store, numProcess>>
  BY <1>1, <1>2, PutDoes
<1>4. \A p \in Processes : state'[p] = IF p = Wanted THEN RUNNING ELSE state[p]
  BY <1>1, <1>3 DEF SwapTypeOK
<1>5. Loaded' = Loaded \cup {Wanted} /\ Stored' = Stored \ {Wanted}
  BY <1>1, <1>4, States DEF Loaded, InMemory, Stored
<1> QED
  BY <1>3, <1>5

LEMMA FiniteProcesses ==
  /\ IsFiniteSet(Processes) /\ IsFiniteSet(Cells)
  /\ IsFiniteSet(Stored) /\ Cardinality(Stored) \in Nat
<1>1. IsFiniteSet(Processes) /\ IsFiniteSet(Cells)
  BY Constants, LoopAssumption, FS_Interval DEF Processes, Cells
<1> QED
  BY <1>1, FS_Subset, FS_CardinalityType DEF Stored

LEMMA PutKeeps ==
  ASSUME SwapInv, pc \in {"fit", "fill"}, NEW h \in Nat, h # 0, Put(h),
         \A a \in Extent(h, Wanted) : memory[a] = FREE,
         pc' = "quantum", UNCHANGED <<proc, i, burstTime, redrawn>>
  PROVE  SwapInv'
<1>1. /\ SwapTypeOK /\ RootHolds /\ MemoryInv /\ RingInv
      /\ Wanted \in Processes \ {0} /\ Wanted \notin Loaded
  BY Stays, WantedIs
<1>2. /\ MemoryInv' /\ memory' \in [Cells -> Processes \cup {FREE}]
      /\ memStart' \in [Processes -> Cells]
  BY <1>1, PutIs, ComingKeeps
<1>3. state' \in [Processes -> {WAITING, RUNNING, IDLE, BACK_STORE}]
  BY <1>1, PutIs DEF SwapTypeOK
<1>4. RootHolds'
  BY <1>1, PutIs, Constants DEF RootHolds, SwapTypeOK
<1>5. memorySize' = memorySize /\ memUsed' \in Int
  BY <1>1, PutIs, Numbers DEF SwapTypeOK
<1>6. /\ RingInv' /\ numProcess' \in Int
      /\ bs' \in [Cells -> Processes \cup {FREE}] /\ head' \in Cells /\ tail' \in Cells
  <2>1. CASE proc = NULL
    <3>1. PutStored(h) /\ Wanted = FromStore /\ Wanted \in Stored /\ Behind(Wanted) = 0
          /\ memStart' = [memStart EXCEPT ![Wanted] = h] /\ memorySize' = memorySize
          /\ Stored' = Stored \ {Wanted} /\ h + memorySize[Wanted] <= MaxMemory
      BY <2>1, PutIs, WantedIs
    <3>2. memorySize[Wanted] < MaxMemory
      BY <1>1, <3>1, Numbers
    <3>3. PICK n \in 0 .. MaxMemory : RingHolds(n)
      BY <1>1 DEF RingInv
    <3>4. /\ bs' = [a \in Cells |-> IF Ring(a - head) < memorySize[Wanted]
                                    THEN FREE ELSE bs[a]]
          /\ head' = HeadAfter(memorySize[Wanted]) /\ tail' = tail
          /\ numProcess' = numProcess + 1
      BY <3>1 DEF PutStored
    <3>5. RingInv'
      BY <1>1, <3>1, <3>2, <3>3, <3>4, RingGoes
    <3>6. numProcess' \in Int
      BY <1>1, <3>4 DEF SwapTypeOK
    <3>7. bs' \in [Cells -> Processes \cup {FREE}]
      BY <1>1, <3>4 DEF SwapTypeOK
    <3>8. head' \in Cells /\ tail' \in Cells
      <4>1. memorySize[Wanted] \in Distances /\ head \in Cells
        BY <1>1, <3>2, Numbers DEF Distances, SwapTypeOK
      <4> QED
        BY <1>1, <3>4, <4>1, RingCell DEF HeadAfter, SwapTypeOK
    <3> QED
      BY <3>5, <3>6, <3>7, <3>8
  <2>2. CASE proc # NULL
    <3>1. /\ UNCHANGED <<store, numProcess>> /\ Wanted = proc /\ Wanted \notin Stored
          /\ memStart' = [memStart EXCEPT ![Wanted] = h] /\ memorySize' = memorySize
          /\ Stored' = Stored \ {Wanted}
      BY <2>2, PutIs, WantedIs
    <3>2. Stored' = Stored /\ \A p \in Stored : memStart'[p] = memStart[p]
      BY <1>1, <3>1, Numbers DEF SwapTypeOK
    <3>3. RingInv'
      BY <1>1, <3>1, <3>2, RingSame
    <3>4. numProcess' \in Int
      BY <1>1, <3>1 DEF SwapTypeOK
    <3> QED
      BY <1>1, <3>1, <3>3, <3>4 DEF store, SwapTypeOK
  <2> QED
    BY <2>1, <2>2
<1>7. SwapTypeOK'
  BY <1>1, <1>2, <1>3, <1>5, <1>6 DEF SwapTypeOK
<1>8. StartHolds' /\ CallHolds'
  BY DEF StartHolds, CallHolds
<1> QED
  BY <1>2, <1>4, <1>6, <1>7, <1>8 DEF SwapInv, IntactInv

\* The least hole is a hole.
LEMMA FirstHoleIs ==
  ASSUME HoleStarts # {}
  PROVE  FirstHole \in HoleStarts
<1>1. HoleStarts \in SUBSET Nat
  BY Constants DEF HoleStarts, Cells
<1>2. PICK m \in HoleStarts : \A g \in HoleStarts : m <= g
  BY <1>1, Least
<1>3. HoleStarts \subseteq Int
  BY <1>1
<1> QED
  BY <1>2, <1>3, MinIs DEF FirstHole

\* Where compaction() moves whom.
LEMMA MoveIs ==
  ASSUME SwapInv, pc = "compact", HoleStarts # {}, HoleEnd # MaxMemory
  PROVE  /\ FirstHole \in Nat /\ FirstHole # 0 /\ FirstHole < HoleEnd
         /\ HoleEnd \in Cells /\ NextDown \in Loaded /\ InMemory(NextDown)
         /\ memStart[NextDown] = HoleEnd /\ GoesDown(NextDown)
         /\ \A a \in FirstHole .. HoleEnd - 1 : a \in Cells /\ memory[a] = FREE
<1>1. SwapTypeOK /\ MemoryInv /\ memory[0] # FREE
  BY Stays, RootInPlace
<1>2. FirstHole \in HoleStarts
  BY FirstHoleIs
<1>3. /\ FirstHole \in Cells /\ FirstHole # 0
      /\ HoleSize(FirstHole) \in 1 .. MaxMemory - FirstHole
      /\ \A a \in FirstHole .. HoleEnd - 1 : a \in Cells /\ memory[a] = FREE
  <2>1. PICK h \in HoleStarts : h = FirstHole
    BY <1>2
  <2>2. /\ h \in Cells /\ h # 0 /\ HoleSize(h) \in 1 .. MaxMemory - h
        /\ \A a \in h .. h + HoleSize(h) - 1 : a \in Cells /\ memory[a] = FREE
    BY <1>1, <2>1, HoleIs
  <2>3. HoleEnd = h + HoleSize(h) /\ HoleSize(FirstHole) = HoleSize(h)
    BY <2>1 DEF HoleEnd
  <2>4. h \in Nat /\ HoleSize(h) \in Nat /\ HoleEnd \in Nat
    BY <1>1, <2>2, <2>3, Numbers
  <2> QED
    BY <2>1, <2>2, <2>3, <2>4
<1>4. FirstHole \in Nat /\ FirstHole < HoleEnd /\ HoleEnd < MaxMemory
  BY <1>1, <1>3, Numbers DEF HoleEnd
<1>5. /\ HoleEnd \in Cells /\ NextDown \in Loaded
      /\ memStart[NextDown] = HoleEnd
  BY <1>1, <1>2, <1>4, BehindHole DEF HoleEnd, NextDown
<1>6. HoleEnd + memorySize[NextDown] <= MaxMemory /\ memorySize[NextDown] \in Nat
  BY <1>1, <1>5, Numbers DEF MemoryInv, Placed
<1>7. GoesDown(NextDown)
  BY <1>1, <1>4, <1>5, <1>6, Numbers DEF GoesDown
<1>8. InMemory(NextDown)
  BY <1>5 DEF Loaded
<1> QED
  BY <1>3, <1>4, <1>5, <1>7, <1>8

\* What the move does.
LEMMA MoveDownIs ==
  ASSUME SwapInv, MoveDown, NEW p, p = NextDown
  PROVE  /\ FirstHole \in Nat /\ FirstHole < memStart[p] /\ p \in Loaded
         /\ memStart[p] = HoleEnd
         /\ \A a \in FirstHole .. memStart[p] - 1 : memory[a] = FREE
         /\ memStart[p] # 0
         /\ memory' = [a \in Cells |-> IF a \in Extent(FirstHole, p) THEN p
                                       ELSE IF a \in Extent(memStart[p], p) THEN FREE
                                       ELSE memory[a]]
         /\ memUsed' = memUsed + memorySize[p]
         /\ memStart' = [memStart EXCEPT ![p] = FirstHole]
         /\ state' = [state EXCEPT ![p] = RUNNING]
         /\ UNCHANGED <<memorySize, numProcess, pc, proc, i, burstTime, store, redrawn>>
<1>1. SwapTypeOK /\ pc = "compact" /\ HoleStarts # {} /\ HoleEnd # MaxMemory
  BY Stays DEF MoveDown
<1>2. /\ FirstHole \in Nat /\ FirstHole < HoleEnd /\ HoleEnd \in Cells
      /\ p \in Loaded /\ memStart[p] = HoleEnd /\ GoesDown(p)
      /\ \A a \in FirstHole .. HoleEnd - 1 : memory[a] = FREE
  BY <1>1, MoveIs
<1>3. /\ memory' = [a \in Cells |->
           IF GoesDown(p) /\ a \in Extent(FirstHole, p) THEN p
           ELSE IF a \in Cleared(p) THEN FREE ELSE memory[a]]
      /\ IF GoesDown(p)
         THEN /\ memUsed' = memUsed + memorySize[p]
              /\ memStart' = [memStart EXCEPT ![p] = FirstHole]
              /\ state' = [state EXCEPT ![p] = RUNNING]
         ELSE UNCHANGED <<memUsed, memStart, state>>
      /\ UNCHANGED <<memorySize, numProcess, pc, proc, i, burstTime, store, redrawn>>
  BY DEF MoveDown
<1>4. memStart[p] # 0
  BY <1>1, <1>2, Numbers
<1> QED
  BY <1>2, <1>3, <1>4 DEF Cleared

LEMMA MoveStays ==
  ASSUME SwapInv, MoveDown
  PROVE  /\ Loaded' = Loaded /\ Stored' = Stored /\ head' = head
         /\ \A q \in Stored : memStart'[q] = memStart[q]
<1> DEFINE p == NextDown
<1>1. SwapTypeOK /\ pc = "compact"
  BY Stays DEF MoveDown
<1>2. p \in Loaded
  BY MoveDownIs
<1>3. /\ memStart' = [memStart EXCEPT ![p] = FirstHole]
      /\ state' = [state EXCEPT ![p] = RUNNING] /\ pc' = pc /\ head' = head
  BY MoveDownIs DEF store
<1> HIDE DEF p
<1>4. state[p] \in {RUNNING, IDLE} /\ p \notin Stored
  BY <1>1, <1>2, States DEF Loaded, InMemory, Stored
<1>5. \A q \in Processes : /\ state'[q] = IF q = p THEN RUNNING ELSE state[q]
                           /\ q # p => memStart'[q] = memStart[q]
  BY <1>1, <1>3 DEF SwapTypeOK
<1>6. Loaded' = Loaded /\ Stored' = Stored
  BY <1>1, <1>3, <1>4, <1>5, States DEF Loaded, InMemory, Stored
<1> QED
  BY <1>3, <1>4, <1>5, <1>6 DEF Stored

LEMMA MoveDownKeeps ==
  ASSUME SwapInv, MoveDown
  PROVE  SwapInv'
<1> DEFINE p == NextDown
<1>1. /\ SwapTypeOK /\ RootHolds /\ MemoryInv /\ RingInv /\ pc = "compact"
  BY Stays DEF MoveDown
<1>2. /\ FirstHole \in Nat /\ FirstHole < memStart[p] /\ p \in Loaded
      /\ \A a \in FirstHole .. memStart[p] - 1 : memory[a] = FREE
      /\ memStart[p] # 0
  BY MoveDownIs
<1>3. /\ memory' = [a \in Cells |-> IF a \in Extent(FirstHole, p) THEN p
                                    ELSE IF a \in Extent(memStart[p], p) THEN FREE
                                    ELSE memory[a]]
      /\ memUsed' = memUsed + memorySize[p]
      /\ memStart' = [memStart EXCEPT ![p] = FirstHole]
      /\ state' = [state EXCEPT ![p] = RUNNING]
      /\ UNCHANGED <<memorySize, numProcess, pc, proc, i, burstTime, store, redrawn>>
  BY MoveDownIs
<1> HIDE DEF p
<1>4. p \in Processes /\ p # 0 /\ p \notin Stored /\ memorySize[p] \in Nat
  BY <1>1, <1>2, Numbers, States DEF RootHolds, Loaded, InMemory, Stored
<1>5. Loaded' = Loaded /\ Stored' = Stored
  BY MoveStays
<1>6. /\ MemoryInv' /\ memory' \in [Cells -> Processes \cup {FREE}]
      /\ memStart' \in [Processes -> Cells]
  BY <1>1, <1>2, <1>3, <1>5, MovingKeeps
<1>7. RingInv'
  BY <1>1, <1>3, <1>5, MoveStays, RingSame
<1>8. RootHolds'
  BY <1>1, <1>3, <1>4, Constants DEF RootHolds, SwapTypeOK
<1>9. state' \in [Processes -> {WAITING, RUNNING, IDLE, BACK_STORE}]
  BY <1>1, <1>3, <1>4 DEF SwapTypeOK
<1>10. memUsed' \in Int
  BY <1>1, <1>3, <1>4 DEF SwapTypeOK
<1>11. SwapTypeOK'
  BY <1>1, <1>3, <1>6, <1>9, <1>10 DEF SwapTypeOK, store
<1>12. StartHolds' /\ CallHolds'
  BY <1>1, <1>3 DEF StartHolds, CallHolds
<1> QED
  BY <1>6, <1>7, <1>8, <1>11, <1>12 DEF SwapInv, IntactInv

\* A whole copy of a process is where its entry says.
LEMMA CopyBegins ==
  ASSUME SwapTypeOK, MemoryHolds, NEW a \in Cells, IsCopy(a),
         NEW p \in Processes, p = memory[a]
  PROVE  memStart[p] = a
<1>1. a \in Nat /\ memorySize[p] \in Nat /\ memorySize[p] >= 1 /\ memStart[p] \in Nat
  BY Numbers
<1>2. PICK b \in Int : b = a + memorySize[p] - 1
  BY <1>1
<1>3. b \in Extent(a, p) /\ a \in Extent(a, p)
  BY <1>1, <1>2 DEF Extent
<1>4. b \in Cells /\ memory[b] = p
  BY <1>3 DEF IsCopy
<1>5. a \in Extent(memStart[p], p) /\ b \in Extent(memStart[p], p)
  BY <1>4 DEF MemoryHolds
<1> QED
  BY <1>1, <1>2, <1>5 DEF Extent

\* bs[tail - 1] is the process that has been copied, unless tail has come round.
LEMMA LastCopiedIs ==
  ASSUME SwapTypeOK, NEW p \in Processes, memorySize[p] < MaxMemory, NEW start \in Cells,
         \A d \in 0 .. memorySize[p] - 1 : memory[start + d] = p,
         NEW end, end = Ring(tail + memorySize[p])
  PROVE  /\ end \in Cells
         /\ end # 0 => LastCopied(Copied(start, p), end) = p
         /\ LastCopied(Copied(start, p), end) \in Processes
<1> DEFINE z == memorySize[p]
<1>1. /\ tail \in Cells /\ tail \in Nat /\ tail < MaxMemory /\ MaxMemory \in Nat
      /\ z \in Distances /\ z - 1 \in Distances /\ z \in Nat /\ z >= 1
  BY Numbers DEF SwapTypeOK, Distances
<1>2. end \in Cells /\ end = IF tail + z < MaxMemory THEN tail + z
                             ELSE tail + z - MaxMemory
  BY <1>1, RingCell
<1>3. ASSUME end # 0
      PROVE  LastCopied(Copied(start, p), end) = p
  <2>1. /\ Ring(tail + (z - 1)) \in Cells
        /\ Ring(Ring(tail + (z - 1)) - tail) = z - 1
        /\ Ring(tail + (z - 1)) = IF tail + (z - 1) < MaxMemory THEN tail + (z - 1)
                                  ELSE tail + (z - 1) - MaxMemory
    BY <1>1, RingCell
  <2>2. Ring(tail + (z - 1)) = end - 1
    BY <1>1, <1>2, <1>3, <2>1
  <2>3. z - 1 \in 0 .. z - 1 /\ z - 1 < z
    BY <1>1
  <2>4. Copied(start, p)[end - 1] = memory[start + (z - 1)]
    BY <2>1, <2>2, <2>3 DEF Copied
  <2>5. Copied(start, p)[end - 1] = p
    BY <2>3, <2>4
  <2> QED
    BY <1>3, <2>5 DEF LastCopied
<1>4. end = 0 => LastCopied(Copied(start, p), end) \in Processes
  BY SwapAssumption DEF LastCopied
<1> QED
  BY <1>2, <1>3, <1>4

\* putInBackStore(): the whole copy leaves memory and comes to the ring, as long
\* as the model can tell.
LEMMA SwapOutDoes ==
  ASSUME SwapTypeOK, memory[0] = 0, state[0] = RUNNING, SwapOut, NEW p, p = memory[i]
  PROVE  /\ i \in Cells /\ p \in Processes \ {0} /\ state[p] = IDLE
         /\ memorySize[p] >= memorySize[Wanted] /\ SizeAt(i) = memorySize[p]
         /\ i + memorySize[p] <= MaxMemory /\ memorySize[p] < MaxMemory
         /\ \A d \in 0 .. memorySize[p] - 1 : memory[i + d] = p
         /\ memory' = [a \in Cells |-> IF a \in Extent(i, p) THEN FREE
                                                             ELSE memory[a]]
         /\ bs' = Copied(i, p) /\ tail' = Ring(tail + memorySize[p]) /\ tail' \in Cells
         /\ numProcess' = numProcess - 1
         /\ memorySize' = memorySize /\ head' = head
         /\ \E last \in Processes :
              /\ tail' # 0 => last = p
              /\ memUsed' = memUsed - memorySize[last]
              /\ memStart' = [memStart EXCEPT ![last] = tail]
              /\ state' = [state EXCEPT ![last] = BACK_STORE]
<1>1. /\ i \in Nat /\ i < MaxMemory /\ i \in Cells /\ Used(i) /\ IsCopy(i)
      /\ StateAt(i) = IDLE /\ SizeAt(i) >= memorySize[Wanted]
  BY Numbers DEF SwapOut, SwapsAt, IsCopy, SwapTypeOK
<1>2. /\ p \in Processes /\ p # 0 /\ state[p] = IDLE /\ SizeAt(i) = memorySize[p]
  <2>1. p \in Processes
    BY <1>1, UsedIs, Numbers
  <2> QED
    BY <1>1, <2>1, States DEF StateAt, SizeAt
<1>3. /\ memorySize[p] \in Nat /\ memorySize[p] >= 1
      /\ \A a \in Extent(i, p) : a \in Cells /\ memory[a] = p
  BY <1>1, <1>2, Numbers DEF IsCopy
<1>4. \A d \in 0 .. memorySize[p] - 1 : i + d \in Extent(i, p)
  BY <1>1, <1>3 DEF Extent
<1>5. \A d \in 0 .. memorySize[p] - 1 : memory[i + d] = p
  BY <1>3, <1>4
<1>6. i + memorySize[p] <= MaxMemory /\ memorySize[p] < MaxMemory
  <2>1. i + (memorySize[p] - 1) \in Cells
    BY <1>3, <1>4
  <2> QED
    BY <1>1, <1>2, <1>3, <2>1, Numbers
<1>7. putInBackStore(i, p)
  BY DEF SwapOut
<1> DEFINE last == LastCopied(Copied(i, p), Ring(tail + memorySize[p]))
<1>8. /\ bs' = Copied(i, p) /\ tail' = Ring(tail + memorySize[p])
      /\ memory' = [a \in Cells |-> IF a \in Extent(i, p) THEN FREE ELSE memory[a]]
      /\ numProcess' = numProcess - 1 /\ memUsed' = memUsed - memorySize[last]
      /\ memStart' = [memStart EXCEPT ![last] = tail]
      /\ state' = [state EXCEPT ![last] = BACK_STORE]
      /\ memorySize' = memorySize /\ head' = head
  BY <1>7 DEF putInBackStore
<1>9. tail' \in Cells /\ (tail' # 0 => last = p) /\ last \in Processes
  BY <1>1, <1>2, <1>5, <1>6, <1>8, LastCopiedIs
<1> HIDE DEF last
<1> QED
  BY <1>1, <1>2, <1>5, <1>6, <1>8, <1>9

\* With one copy of every process it leaves memory and comes to the ring.
LEMMA SwapOutIs ==
  ASSUME SwapInv, SwapOut, NEW p, p = memory[i]
  PROVE  /\ p \in Loaded /\ p # 0 /\ state[p] = IDLE /\ p \notin Stored
         /\ i = memStart[p] /\ memorySize[p] >= memorySize[Wanted]
         /\ memorySize[p] < MaxMemory
         /\ \A d \in 0 .. memorySize[p] - 1 : memory[i + d] = p
         /\ memory' = [a \in Cells |-> IF a \in Extent(memStart[p], p) THEN FREE
                                                                       ELSE memory[a]]
         /\ bs' = Copied(i, p) /\ tail' = Ring(tail + memorySize[p]) /\ tail' \in Cells
         /\ numProcess' = numProcess - 1
         /\ memorySize' = memorySize /\ head' = head
         /\ \E last \in Processes :
              /\ tail' # 0 => last = p
              /\ memUsed' = memUsed - memorySize[last]
              /\ memStart' = [memStart EXCEPT ![last] = tail]
              /\ state' = [state EXCEPT ![last] = BACK_STORE]
<1>1. /\ SwapTypeOK /\ RootHolds /\ MemoryHolds /\ pc # "start" /\ IsCopy(i)
  BY Stays DEF SwapOut
<1>2. memory[0] = 0 /\ state[0] = RUNNING
  BY <1>1, RootInPlace DEF RootHolds
<1>3. i \in Cells /\ p \in Processes \ {0} /\ state[p] = IDLE
  BY <1>1, <1>2, SwapOutDoes
<1>4. memStart[p] = i
  BY <1>1, <1>3, CopyBegins
<1>5. p \in Loaded /\ p # 0 /\ p \notin Stored
  BY <1>1, <1>3, States DEF Loaded, InMemory, Stored
<1> QED
  BY <1>1, <1>2, <1>3, <1>4, <1>5, SwapOutDoes

LEMMA SwapOutTypes ==
  ASSUME SwapTypeOK, memory[0] = 0, state[0] = RUNNING, SwapOut
  PROVE  SwapTypeOK'
<1>1. PICK p : p = memory[i]
  OBVIOUS
<1>2. PICK last \in Processes :
            /\ memUsed' = memUsed - memorySize[last]
            /\ memStart' = [memStart EXCEPT ![last] = tail]
            /\ state' = [state EXCEPT ![last] = BACK_STORE]
  BY <1>1, SwapOutDoes
<1>3. /\ memStart' \in [Processes -> Cells] /\ memUsed' \in Int
      /\ state' \in [Processes -> {WAITING, RUNNING, IDLE, BACK_STORE}]
  BY <1>2, Numbers DEF SwapTypeOK
<1>4. bs' \in [Cells -> Processes \cup {FREE}]
  <2>1. bs' = Copied(i, p) /\ p \in Processes
        /\ \A d \in 0 .. memorySize[p] - 1 : memory[i + d] = p
    BY <1>1, SwapOutDoes
  <2>2. \A a \in Cells : Ring(a - tail) \in Distances
    BY RingDistance DEF SwapTypeOK
  <2>3. ASSUME NEW a \in Cells, Ring(a - tail) < memorySize[p]
        PROVE  memory[i + Ring(a - tail)] = p
    <3>1. Ring(a - tail) \in 0 .. memorySize[p] - 1
      BY <2>1, <2>2, <2>3, Numbers DEF Distances
    <3> QED
      BY <2>1, <3>1
  <2> QED
    BY <2>1, <2>3 DEF Copied, SwapTypeOK
<1>5. /\ memory' \in [Cells -> Processes \cup {FREE}] /\ tail' \in Cells
      /\ numProcess' \in Int /\ memorySize' = memorySize /\ head' = head
  BY <1>1, SwapOutDoes DEF SwapTypeOK
<1>6. /\ proc' = proc /\ i' = i /\ burstTime' = burstTime /\ redrawn' = redrawn
      /\ pc' \in {"astray", "fill"}
  BY DEF SwapOut
<1> QED
  BY <1>3, <1>4, <1>5, <1>6 DEF SwapTypeOK

LEMMA SwapOutMoves ==
  ASSUME SwapInv, SwapOut, pc' # "astray", NEW p, p = memory[i]
  PROVE  /\ Loaded' = Loaded \ {p} /\ Stored' = Stored \cup {p}
         /\ memUsed' = memUsed - memorySize[p]
         /\ memStart' = [memStart EXCEPT ![p] = tail]
         /\ state' = [state EXCEPT ![p] = BACK_STORE]
         /\ ~Overruns(memorySize[p]) /\ pc' = "fill"
<1>1. SwapTypeOK /\ pc = "scan" /\ pc # "start"
  BY Stays DEF SwapOut
<1>2. p \in Loaded /\ p \in Processes
  BY <1>1, SwapOutIs, Numbers
<1>3. ~(Overruns(SizeAt(i)) \/ tail' = 0) /\ pc' = "fill" /\ Used(i) /\ i \in Cells
  BY <1>1, Numbers DEF SwapOut, IsCopy, SwapTypeOK
<1>4. SizeAt(i) = memorySize[p]
  BY <1>3 DEF SizeAt
<1>5. /\ memUsed' = memUsed - memorySize[p]
      /\ memStart' = [memStart EXCEPT ![p] = tail]
      /\ state' = [state EXCEPT ![p] = BACK_STORE]
  BY <1>3, SwapOutIs
<1>6. \A q \in Processes : state'[q] = IF q = p THEN BACK_STORE ELSE state[q]
  BY <1>1, <1>5 DEF SwapTypeOK
<1>7. Loaded' = Loaded \ {p} /\ Stored' = Stored \cup {p}
  BY <1>1, <1>2, <1>3, <1>6, States DEF Loaded, InMemory, Stored
<1> QED
  BY <1>3, <1>4, <1>5, <1>7

LEMMA SwapOutKeeps ==
  ASSUME SwapInv, SwapOut
  PROVE  SwapInv'
<1>1. PICK p : p = memory[i]
  OBVIOUS
<1>2. /\ SwapTypeOK /\ RootHolds /\ MemoryInv /\ RingInv /\ CallHolds
      /\ pc = "scan" /\ i \in Nat /\ i < MaxMemory /\ i \in Cells
      /\ proc' = proc /\ i' = i /\ burstTime' = burstTime /\ redrawn' = redrawn
  BY Stays, Numbers DEF SwapOut, SwapTypeOK
<1>3. SwapTypeOK'
  BY <1>2, RootInPlace, SwapOutTypes DEF RootHolds, MemoryInv
<1>4. ASSUME pc' # "astray" PROVE IntactInv'
  <2>1. /\ p \in Loaded /\ p # 0 /\ state[p] = IDLE /\ p \notin Stored
        /\ i = memStart[p] /\ memorySize[p] >= memorySize[Wanted]
        /\ memorySize[p] < MaxMemory
        /\ \A d \in 0 .. memorySize[p] - 1 : memory[i + d] = p
        /\ memory' = [a \in Cells |-> IF a \in Extent(memStart[p], p) THEN FREE
                                                                      ELSE memory[a]]
        /\ bs' = Copied(i, p) /\ tail' = Ring(tail + memorySize[p])
        /\ numProcess' = numProcess - 1
        /\ memorySize' = memorySize /\ head' = head
    BY <1>1, SwapOutIs
  <2>2. /\ Loaded' = Loaded \ {p} /\ Stored' = Stored \cup {p}
        /\ memStart' = [memStart EXCEPT ![p] = tail]
        /\ state' = [state EXCEPT ![p] = BACK_STORE]
        /\ ~Overruns(memorySize[p]) /\ pc' = "fill"
    BY <1>1, <1>4, SwapOutMoves
  <2>3. p \in Processes /\ memorySize[p] \in Nat /\ memorySize[p] <= MaxMemory
    BY <1>2, <2>1, Numbers
  <2>4. MemoryInv'
    <3>1. \A q \in Loaded' : memStart'[q] = memStart[q]
      BY <1>2, <2>2, Numbers DEF SwapTypeOK
    <3> QED
      BY <1>2, <2>1, <2>2, <3>1, GoingKeeps
  <2>5. RingInv'
    <3>1. PICK n \in 0 .. MaxMemory : RingHolds(n)
      BY <1>2 DEF RingInv
    <3> QED
      BY <1>2, <2>1, <2>2, <2>3, <3>1, RingComes
  <2>7. RootHolds'
    BY <1>2, <2>1, <2>2, Constants DEF RootHolds, SwapTypeOK
  <2>8. Wanted' = Wanted /\ Wanted \in Processes
    <3>1. CASE proc # NULL
      BY <1>2, <3>1, WantedIs DEF Wanted
    <3>2. CASE proc = NULL
      <4>1. FromStore \in Processes /\ FromStore = bs[head] /\ Wanted = FromStore
        BY <1>2, <3>2, WantedIs DEF FromStore
      <4>2. head \in Cells /\ tail \in Cells
        BY <1>2 DEF SwapTypeOK
      <4>3. Ring(head - tail) \in Distances /\ Ring(tail + Ring(head - tail)) = head
        BY <4>2, RingDistance
      <4>4. ~(Ring(head - tail) < memorySize[p])
        <5>1. SUFFICES ASSUME Ring(head - tail) < memorySize[p] PROVE FALSE
          OBVIOUS
        <5>2. Ring(head - tail) \in 0 .. memorySize[p] - 1
          BY <1>2, <2>3, <4>3, <5>1, Numbers DEF Distances
        <5>3. bs[head] = FREE
          BY <2>2, <4>3, <5>2 DEF Overruns
        <5> QED
          BY <4>1, <5>3, States
      <4>5. bs'[head] = bs[head]
        BY <2>1, <4>2, <4>4 DEF Copied
      <4> QED
        BY <1>2, <2>1, <3>2, <4>1, <4>5 DEF Wanted, FromStore
    <3> QED
      BY <3>1, <3>2
  <2>9. CallHolds'
    <3>1. \/ proc' = NULL /\ Stored' # {}
          \/ proc' \in Processes \ {0} /\ state'[proc'] = WAITING
      <4>1. CASE proc = NULL
        BY <1>2, <2>2, <4>1
      <4>2. CASE proc # NULL
        <5>1. proc \in Processes \ {0} /\ state[proc] = WAITING /\ proc # p
          BY <1>2, <2>1, <4>2, States DEF CallHolds
        <5>2. state'[proc] = state[proc]
          BY <1>2, <2>2, <5>1 DEF SwapTypeOK
        <5> QED
          BY <1>2, <5>1, <5>2
      <4> QED
        BY <4>1, <4>2
    <3>2. i + memorySize[Wanted] <= MaxMemory
      BY <1>2, <2>1, <2>3, <2>8, Numbers DEF MemoryInv, Placed
    <3>3. \A a \in Extent(i, Wanted) : memory'[a] = FREE
      <4> SUFFICES ASSUME NEW a \in Extent(i, Wanted)
                   PROVE  memory'[a] = FREE
        OBVIOUS
      <4>1. a \in Cells /\ a \in Extent(memStart[p], p)
        BY <1>2, <2>1, <2>3, <2>8, <3>2, Numbers DEF Extent
      <4> QED
        BY <2>1, <4>1
    <3> QED
      BY <1>2, <2>1, <2>8, <3>1, <3>2, <3>3 DEF CallHolds, Extent
  <2>10. StartHolds'
    BY <2>2 DEF StartHolds
  <2> QED
    BY <2>4, <2>5, <2>7, <2>9, <2>10 DEF IntactInv
<1> QED
  BY <1>3, <1>4 DEF SwapInv, Intact

-----------------------------------------------------------------------------
(***************************************************************************)
(* The invariant is inductive.                                             *)
(***************************************************************************)
LEMMA SwapStarts == SwapInit => SwapInv
<1> SUFFICES ASSUME SwapInit PROVE SwapInv
  OBVIOUS
<1>1. /\ memorySize \in [Processes -> Nat \ {0}] /\ memorySize[0] = RootSize
      /\ 0 \in Processes /\ 0 \in Cells
  <2>1. memorySize \in [Processes -> Sizes \cup {RootSize}] /\ memorySize[0] = RootSize
    BY DEF SwapInit, Init, initProcesses, TableSizes
  <2>2. Sizes \subseteq Nat \ {0} /\ RootSize \in Nat \ {0}
    BY Constants, MemoryAssumption
  <2> QED
    BY <2>1, <2>2, Constants
<1>2. /\ memory = [a \in Cells |-> FREE] /\ numProcess = 0 /\ memUsed = 0
      /\ memStart = [p \in Processes |-> 0]
      /\ state = [p \in Processes |-> IF p = 0 THEN RUNNING ELSE WAITING]
      /\ pc = "start" /\ proc = 0 /\ i = 0
      /\ bs = [a \in Cells |-> FREE] /\ head = 0 /\ tail = 0 /\ redrawn = 0
  BY DEF SwapInit, Init, initProcesses
<1>3. burstTime \in [Processes -> Nat \cup {BurstFloor}]
  BY SwapAssumption DEF SwapInit
<1>4. SwapTypeOK
  BY <1>1, <1>2, <1>3, SwapAssumption DEF SwapTypeOK
<1>5. Loaded = {} /\ Stored = {}
  BY <1>2, States DEF Loaded, InMemory, Stored
<1>6. RootHolds /\ StartHolds /\ CallHolds
  BY <1>1, <1>2 DEF RootHolds, StartHolds, CallHolds
<1>7. MemoryInv
  BY <1>2, <1>5, States DEF MemoryInv, Placed, MemoryHolds
<1>8. RingInv
  <2>1. Ring(0 + 0) = 0 /\ 0 \in 0 .. MaxMemory
    BY Constants, RingIs
  <2>2. \A d \in Distances : At(d) = FREE /\ 0 <= d
    BY <1>1, <1>2, RingCell, Numbers DEF At, Distances
  <2>3. RingHolds(0)
    BY <1>2, <1>5, <2>1, <2>2, States DEF RingHolds
  <2> QED
    BY <2>1, <2>3 DEF RingInv
<1> QED
  BY <1>4, <1>6, <1>7, <1>8 DEF SwapInv, IntactInv

LEMMA StartKeeps ==
  ASSUME SwapInv, SwapStart
  PROVE  /\ SwapInv'
         /\ Loaded = {} /\ Loaded' = {0} /\ Stored' = Stored
<1>1. /\ SwapTypeOK /\ RootHolds /\ StartHolds /\ MemoryInv /\ RingInv
      /\ pc = "start" /\ pc' = "quantum"
  BY Stays DEF SwapStart, Start
<1>2. /\ 0 + memorySize[0] <= MaxMemory
      /\ memory' = [a \in Cells |-> IF a \in Extent(0, 0) THEN 0 ELSE memory[a]]
      /\ memUsed' = memUsed + memorySize[0]
      /\ memStart' = [memStart EXCEPT ![0] = 0]
      /\ state' = [state EXCEPT ![0] = RUNNING]
      /\ UNCHANGED <<memorySize, numProcess, proc, i, burstTime, store, redrawn>>
  BY DEF SwapStart, Start, PutInMemory, Extent
<1>3. 0 \in Processes /\ 0 \in Nat /\ 0 \in Cells /\ memorySize[0] \in Nat
  BY <1>1, Numbers, Constants
<1>4. state' = state /\ memStart' = memStart
  BY <1>1, <1>2, <1>3 DEF RootHolds, SwapTypeOK
<1>5. Loaded = {} /\ Loaded' = {0} /\ Stored' = Stored
  BY <1>1, <1>3, <1>4, States DEF Loaded, InMemory, Stored, RootHolds, StartHolds
<1>6. /\ MemoryInv' /\ memory' \in [Cells -> Processes \cup {FREE}]
      /\ memStart' \in [Processes -> Cells]
  <2>1. \A a \in Extent(0, 0) : memory[a] = FREE
    BY <1>1, <1>2, <1>3, Numbers DEF StartHolds, Extent
  <2>2. 0 \notin Loaded /\ Loaded' = Loaded \cup {0}
    BY <1>5
  <2> QED
    BY <1>1, <1>2, <1>3, <2>1, <2>2, ComingKeeps
<1>7. RingInv'
  BY <1>1, <1>2, <1>4, <1>5, RingSame
<1>8. SwapTypeOK'
  <2>1. memUsed' \in Int
    BY <1>1, <1>2, <1>3 DEF SwapTypeOK
  <2> QED
    BY <1>1, <1>2, <1>4, <1>6, <2>1 DEF SwapTypeOK, store
<1>9. RootHolds' /\ StartHolds' /\ CallHolds'
  BY <1>1, <1>2, <1>4 DEF RootHolds, StartHolds, CallHolds
<1> QED
  BY <1>5, <1>6, <1>7, <1>8, <1>9 DEF SwapInv, IntactInv

\* A step that touches neither memory, nor the ring, nor the table.
LEMMA QuietKeeps ==
  ASSUME SwapInv, pc \notin {"start", "astray"},
         UNCHANGED <<pMap, store, redrawn>>,
         pc' \in {"quantum", "fit", "scan", "compact", "aborted", "astray"},
         proc' \in Processes \cup {NULL}, i' \in Nat,
         pc' # "astray" => CallHolds'
  PROVE  SwapInv'
<1>1. /\ SwapTypeOK /\ RootHolds /\ MemoryInv /\ RingInv
  BY Stays
<1>2. UNCHANGED <<memory, memorySize, memStart, state, numProcess, memUsed,
                  burstTime, bs, head, tail, store, redrawn>>
  BY DEF pMap, table, store
<1>3. Loaded' = Loaded /\ Stored' = Stored
  BY <1>2 DEF Loaded, InMemory, Stored
<1>4. SwapTypeOK'
  BY <1>1, <1>2 DEF SwapTypeOK
<1>5. RingInv'
  BY <1>1, <1>2, <1>3, RingSame
<1>6. MemoryInv'
  BY <1>1, <1>2, <1>3 DEF MemoryInv, Placed, MemoryHolds, Extent
<1>7. RootHolds' /\ StartHolds'
  BY <1>1, <1>2, <1>3 DEF RootHolds, StartHolds
<1> QED
  BY <1>4, <1>5, <1>6, <1>7 DEF SwapInv, Intact, IntactInv

\* The walk goes back, on a free cell, but not behind the start.
LEMMA WalkIs ==
  ASSUME SwapTypeOK, memory[0] # FREE, i < MaxMemory
  PROVE  i + SizeAt(i) \in Nat
<1>1. i \in Nat /\ i \in Cells
  BY Numbers DEF SwapTypeOK
<1>2. CASE Used(i)
  <2>1. memory[i] \in Processes
    BY <1>1, <1>2, UsedIs, Numbers
  <2> QED
    BY <1>1, <1>2, <2>1, Numbers DEF SizeAt
<1>3. CASE ~Used(i)
  <2>1. i # 0
    BY <1>1, <1>3, UsedIs
  <2>2. MaxMemory - FieldCount \in Cells
    BY Constants DEF Cells
  <2>3. SizeAt(i) \in Nat \/ SizeAt(i) = -1
    BY <1>3, <2>2, Numbers, Constants DEF SizeAt
  <2> QED
    BY <1>1, <2>1, <2>3
<1> QED
  BY <1>2, <1>3

\* Looking for a process, for a hole and for somebody to swap out, and the
\* calls of compaction().
LEMMA LooksKeep ==
  ASSUME SwapInv, redrawn' = redrawn,
         \/ Draw \/ NoHoleFits \/ Walk \/ WalkOver \/ WalkAstray
         \/ Compact \/ MoveAstray \/ Compacted \/ CompactThrows
  PROVE  SwapInv' /\ UNCHANGED <<pMap, store>> /\ pc # "start" /\ pc' # "start"
<1>1. /\ UNCHANGED <<pMap, store>> /\ pc \notin {"start", "astray"}
      /\ pc' \in {"quantum", "fit", "scan", "compact", "aborted", "astray"}
  BY DEF Draw, NoHoleFits, Walk, WalkOver, WalkAstray, Compact, MoveAstray,
         Compacted, CompactThrows
<1>2. SwapTypeOK /\ RootHolds /\ CallHolds /\ MemoryHolds
  BY <1>1, Stays
<1>3. /\ state' = state /\ Stored' = Stored
  BY <1>1 DEF pMap, table, Stored
<1>4. CASE Draw
  <2>1. \/ proc' = NULL /\ Stored' # {}
        \/ proc' \in Processes \ {0} /\ state'[proc'] = WAITING
    <3>1. redrawn + 1 # redrawn
      BY <1>2 DEF SwapTypeOK
    <3>2. PICK p \in Processes \ {0} :
            ~InMemory(p) /\ proc' = IF state[p] = BACK_STORE THEN NULL ELSE p
      BY <1>4, <3>1 DEF Draw
    <3>3. state[p] \in {WAITING, BACK_STORE}
      BY <1>2, <3>2 DEF InMemory, SwapTypeOK
    <3> QED
      BY <1>3, <3>2, <3>3 DEF Stored
  <2>2. i' = i /\ pc' = "fit" /\ proc' \in Processes \cup {NULL} /\ i' \in Nat
    BY <1>2, <1>4, <2>1 DEF Draw, SwapTypeOK
  <2>3. CallHolds'
    BY <2>1, <2>2 DEF CallHolds
  <2> QED
    BY <1>1, <2>2, <2>3, QuietKeeps
<1>5. CASE NoHoleFits \/ Walk
  <2>1. proc' = proc /\ pc' = "scan" /\ pc \in {"fit", "scan"}
    BY <1>5 DEF NoHoleFits, Walk
  <2>2. CallHolds'
    BY <1>2, <1>3, <2>1 DEF CallHolds
  <2>3. i' \in Nat
    <3>1. CASE NoHoleFits
      BY <3>1 DEF NoHoleFits
    <3>2. CASE Walk
      BY <1>2, <3>2, RootInPlace, WalkIs DEF Walk
    <3> QED
      BY <1>5, <3>1, <3>2
  <2>4. proc' \in Processes \cup {NULL}
    BY <1>2, <2>1 DEF SwapTypeOK
  <2> QED
    BY <1>1, <2>1, <2>2, <2>3, <2>4, QuietKeeps
<1>6. CASE WalkOver \/ WalkAstray \/ Compact \/ MoveAstray \/ Compacted \/ CompactThrows
  <2>1. /\ proc' = proc /\ i' = i
        /\ pc' \in {"quantum", "compact", "aborted", "astray"}
    BY <1>6 DEF WalkOver, WalkAstray, Compact, MoveAstray, Compacted, CompactThrows
  <2>2. CallHolds'
    BY <2>1 DEF CallHolds
  <2>3. proc' \in Processes \cup {NULL} /\ i' \in Nat
    BY <1>2, <2>1 DEF SwapTypeOK
  <2> QED
    BY <1>1, <2>1, <2>2, <2>3, QuietKeeps
<1> QED
  BY <1>1, <1>4, <1>5, <1>6

\* Where a process is put.
LEMMA HoleChosen ==
  ASSUME SwapTypeOK, memory[0] # FREE, Wanted \in Processes, NEW h \in Fits(Wanted)
  PROVE  /\ h \in Nat /\ h # 0 /\ h + memorySize[Wanted] <= MaxMemory
         /\ \A a \in Extent(h, Wanted) : memory[a] = FREE
<1>1. h \in HoleStarts /\ HoleSize(h) >= memorySize[Wanted]
  BY DEF Fits
<1>2. /\ h \in Cells /\ h # 0 /\ HoleSize(h) \in 1 .. MaxMemory - h
      /\ \A a \in h .. h + HoleSize(h) - 1 : a \in Cells /\ memory[a] = FREE
  BY <1>1, HoleIs
<1>3. /\ h \in Nat /\ MaxMemory \in Nat /\ HoleSize(h) \in Nat
      /\ memorySize[Wanted] \in Nat
  BY <1>2, Numbers
<1>4. \A a \in Extent(h, Wanted) : a \in h .. h + HoleSize(h) - 1
  BY <1>1, <1>3 DEF Extent
<1>5. \A a \in Extent(h, Wanted) : memory[a] = FREE
  BY <1>2, <1>4
<1> QED
  BY <1>1, <1>2, <1>3, <1>5

\* The two ways to a place for a process.
LEMMA Puts ==
  ASSUME SwapInv, PutInHole \/ Fill
  PROVE  /\ SwapInv' /\ pc \in {"fit", "fill"} /\ pc' = "quantum"
         /\ UNCHANGED <<proc, i, burstTime, redrawn>>
         /\ \E h \in Nat : /\ h # 0 /\ Put(h)
                           /\ \A a \in Extent(h, Wanted) : memory[a] = FREE
<1>1. /\ pc \in {"fit", "fill"} /\ pc' = "quantum" /\ UNCHANGED <<proc, i, burstTime, redrawn>>
      /\ SwapTypeOK /\ RootHolds /\ MemoryHolds /\ CallHolds
  BY Stays DEF PutInHole, Fill
<1>2. \E h \in Nat : /\ h # 0 /\ Put(h)
                     /\ \A a \in Extent(h, Wanted) : memory[a] = FREE
  <2>1. CASE PutInHole
    <3>1. PICK h \in FirstFit \cup BestFit \cup WorstFit : Put(h)
      BY <2>1 DEF PutInHole
    <3>2. h \in Fits(Wanted) /\ pc = "fit"
      BY <2>1, <3>1, ChoicesFit DEF PutInHole
    <3> QED
      BY <1>1, <3>1, <3>2, HoleChosen, RootInPlace, WantedIs
  <2>2. CASE Fill
    <3>1. /\ Put(i) /\ pc = "fill" /\ i \in Nat
          /\ \A a \in Extent(i, Wanted) : memory[a] = FREE
      BY <1>1, <2>2 DEF Fill, CallHolds, SwapTypeOK
    <3>2. i # 0
      <4>1. memory[0] # FREE
        BY <1>1, <3>1, RootInPlace
      <4>2. memorySize[Wanted] \in Nat /\ memorySize[Wanted] >= 1
        BY <1>1, WantedIs, Numbers
      <4>3. i \in Extent(i, Wanted)
        BY <3>1, <4>2 DEF Extent
      <4> QED
        BY <3>1, <4>1, <4>3
    <3> QED
      BY <3>1, <3>2
  <2> QED
    BY <2>1, <2>2
<1> QED
  BY <1>1, <1>2, PutKeeps

LEMMA MaxIs ==
  ASSUME NEW a \in Int, NEW b \in Int
  PROVE  Max({a, b}) = IF a >= b THEN a ELSE b
<1>1. \E x \in {a, b} : \A y \in {a, b} : x >= y
  OBVIOUS
<1>2. Max({a, b}) \in {a, b} /\ \A y \in {a, b} : Max({a, b}) >= y
  BY <1>1 DEF Max
<1> QED
  BY <1>2

\* Getting older.
LEMMA BurstIs ==
  ASSUME SwapTypeOK, decrementBurst
  PROVE  /\ Loaded' = Loaded /\ Stored' = Stored
         /\ UNCHANGED <<memory, memorySize, memStart, numProcess, memUsed, pc,
                        proc, i, store, redrawn>>
         /\ \A p \in Processes :
              \/ state'[p] = state[p] /\ burstTime'[p] = burstTime[p]
              \/ /\ state[p] = RUNNING /\ p # 0
                 /\ burstTime'[p] = IF burstTime[p] - 1 >= BurstFloor
                                    THEN burstTime[p] - 1 ELSE BurstFloor
                 /\ state'[p] = IF burstTime'[p] = 0 THEN IDLE ELSE RUNNING
         /\ state' \in [Processes -> {WAITING, RUNNING, IDLE, BACK_STORE}]
         /\ burstTime' \in [Processes -> Nat \cup {BurstFloor}]
<1>1. pc = "quantum" /\ pc' = pc
  BY DEF decrementBurst
<1> DEFINE Runs == {p \in Processes \ {0} : state[p] = RUNNING}
<1>2. /\ burstTime' = [p \in Processes |->
           IF p \in Runs THEN Max({burstTime[p] - 1, BurstFloor}) ELSE burstTime[p]]
      /\ state' = [p \in Processes |->
           IF p \in Runs /\ Expires(burstTime'[p]) THEN IDLE ELSE state[p]]
      /\ UNCHANGED <<memory, memorySize, memStart, numProcess, memUsed, pc,
                     proc, i, store, redrawn>>
  BY DEF decrementBurst
<1>3. BurstFloor = -1 /\ \A p \in Processes : burstTime[p] \in Int /\ burstTime[p] >= -1
  BY DEF SwapTypeOK, BurstFloor
<1>4. \A p \in Processes : Max({burstTime[p] - 1, BurstFloor})
         = IF burstTime[p] - 1 >= BurstFloor THEN burstTime[p] - 1 ELSE BurstFloor
  BY <1>3, MaxIs
<1>5. \A p \in Processes :
        burstTime'[p] = IF p \in Runs
                        THEN IF burstTime[p] - 1 >= BurstFloor THEN burstTime[p] - 1
                             ELSE BurstFloor
                        ELSE burstTime[p]
  BY <1>2, <1>4
<1>6. \A p \in Processes :
        state'[p] = IF p \in Runs /\ burstTime'[p] = 0 THEN IDLE ELSE state[p]
  BY <1>2 DEF Expires
<1>7. ASSUME NEW p \in Processes
      PROVE  /\ \/ state'[p] = state[p] /\ burstTime'[p] = burstTime[p]
                \/ /\ state[p] = RUNNING /\ p # 0
                   /\ burstTime'[p] = IF burstTime[p] - 1 >= BurstFloor
                                      THEN burstTime[p] - 1 ELSE BurstFloor
                   /\ state'[p] = IF burstTime'[p] = 0 THEN IDLE ELSE RUNNING
             /\ state'[p] \in {WAITING, RUNNING, IDLE, BACK_STORE}
             /\ burstTime'[p] \in Nat \cup {BurstFloor}
  <2>1. CASE p \in Runs
    BY <1>3, <1>5, <1>6, <2>1
  <2>2. CASE p \notin Runs
    BY <1>5, <1>6, <2>2 DEF SwapTypeOK
  <2> QED
    BY <2>1, <2>2
<1>8. Loaded' = Loaded /\ Stored' = Stored
  BY <1>1, <1>7, States DEF Loaded, InMemory, Stored
<1>9. /\ state' \in [Processes -> {WAITING, RUNNING, IDLE, BACK_STORE}]
      /\ burstTime' \in [Processes -> Nat \cup {BurstFloor}]
  BY <1>2, <1>7
<1> QED
  BY <1>2, <1>7, <1>8, <1>9

LEMMA BurstKeeps ==
  ASSUME SwapInv, decrementBurst
  PROVE  SwapInv'
<1>1. /\ SwapTypeOK /\ RootHolds /\ MemoryInv /\ RingInv
      /\ pc = "quantum"
  BY Stays DEF decrementBurst
<1>2. UNCHANGED <<memory, memorySize, memStart, numProcess, memUsed, pc,
                  proc, i, store, bs, head, tail, redrawn>>
  BY <1>1, BurstIs DEF store
<1>3. SwapTypeOK'
  BY <1>1, <1>2, BurstIs DEF SwapTypeOK
<1>4. RingInv'
  BY <1>1, <1>2, BurstIs, RingSame
<1>5. MemoryInv'
  BY <1>1, <1>2, BurstIs DEF MemoryInv, Placed, MemoryHolds, Extent
<1>6. RootHolds'
  BY <1>1, <1>2, BurstIs, Constants DEF RootHolds
<1>7. StartHolds' /\ CallHolds'
  BY <1>1, <1>2, BurstIs DEF StartHolds, CallHolds
<1> QED
  BY <1>3, <1>4, <1>5, <1>6, <1>7 DEF SwapInv, IntactInv

LEMMA SwapNextKeeps ==
  ASSUME SwapInv, [SwapNext]_swapVars, redrawn' = redrawn
  PROVE  SwapInv'
<1>1. CASE SwapNext
  BY <1>1, StartKeeps, LooksKeep, Puts, SwapOutKeeps, BurstKeeps, MoveDownKeeps
     DEF SwapNext
<1>2. CASE UNCHANGED swapVars
  <2>1. UNCHANGED <<memory, memorySize, memStart, state, numProcess, memUsed, pc,
                    proc, i, burstTime, bs, head, tail, redrawn>>
    BY <1>2 DEF swapVars, vars, table, store
  <2>2. /\ SwapTypeOK' = SwapTypeOK /\ Intact' = Intact /\ Loaded' = Loaded
        /\ Stored' = Stored /\ RootHolds' = RootHolds /\ StartHolds' = StartHolds
    BY <2>1 DEF SwapTypeOK, Intact, Loaded, InMemory, Stored, RootHolds, StartHolds
  <2>3. MemoryInv' = MemoryInv
    BY <2>1, <2>2 DEF MemoryInv, Placed, MemoryHolds, Extent
  <2>4. CallHolds' = CallHolds
    BY <2>1, <2>2 DEF CallHolds, Wanted, FromStore, Extent
  <2>5. SwapTypeOK /\ RingInv => RingInv'
    BY <2>1, <2>2, RingSame DEF store
  <2> QED
    BY <2>2, <2>3, <2>4, <2>5 DEF SwapInv, IntactInv
<1> QED
  BY <1>1, <1>2

\* Draws are only counted, never taken back.
LEMMA RedrawnGrows ==
  ASSUME redrawn \in Nat, [SwapNext]_swapVars
  PROVE  redrawn' \in Nat /\ (redrawn' = 0 => redrawn' = redrawn)
<1>1. redrawn' = redrawn \/ redrawn' = redrawn + 1
  BY DEF SwapNext, SwapStart, Draw, PutInHole, NoHoleFits, Walk, WalkOver,
         WalkAstray, SwapOut, Fill, decrementBurst, Compact, MoveDown,
         MoveAstray, Compacted, CompactThrows, swapVars
<1> QED
  BY <1>1

\* A step after which every process still has one copy.
LEMMA OrderlyStep ==
  ASSUME OrderlyInv, [SwapNext]_swapVars, redrawn' = 0
  PROVE  SwapInv /\ redrawn = 0 /\ redrawn' = redrawn
BY RedrawnGrows DEF OrderlyInv

\* The invariant of the swap operations, as long as only processes are drawn
\* that are not in memory.
THEOREM SwapInvariance == SwapSpec => []OrderlyInv
<1>1. SwapInit => OrderlyInv
  BY SwapStarts DEF OrderlyInv, SwapInit
<1>2. OrderlyInv /\ [SwapNext]_swapVars => OrderlyInv'
  BY RedrawnGrows, SwapNextKeeps DEF OrderlyInv
<1> QED
  BY <1>1, <1>2, PTL DEF SwapSpec

\* No sequence of swaps and compactions loses, doubles or splits a process, in
\* memory or in the ring, as long as only processes are drawn that are not in
\* memory.
THEOREM SwapsLoseNothing == SwapSpec => []SwapsHold
<1>1. OrderlyInv => SwapsHold
  BY Stays, StoreFollows DEF OrderlyInv, SwapsHold, Orderly, Intact
<1> QED
  BY <1>1, SwapInvariance, PTL

-----------------------------------------------------------------------------
(***************************************************************************)
(* Processes with several copies.  Once a process has been placed a second *)
(* time, its entry in the table is that of one copy, and a copy may be cut *)
(* short when compaction() clears another.  What remains: the root process *)
(* is where it was, and what the ring holds are whole copies, one behind   *)
(* the other, since only whole copies are swapped out.  It is enough for   *)
(* the types, for the places that are found, and for how cells are counted.*)
(***************************************************************************)
\* The root process has the first cells of memory, and no others.
RootAlone ==
  pc # "start" => \A a \in Cells : memory[a] = 0 <=> a < RootSize

\* No entry of a process in memory lies among them.
EntriesApart ==
  \A p \in Processes \ {0} : InMemory(p) => RootSize <= memStart[p]

\* A copy begins at distance d in the ring; B are the distances where copies
\* begin, and n is where the last one ends.
CopyAt(d, n, B) ==
  /\ d \in 0 .. n - 1 /\ At(d) \in Processes \ {0}
  /\ d + memorySize[At(d)] \in B \cup {n}
  /\ \A e \in d .. d + memorySize[At(d)] - 1 : At(e) = At(d)
  /\ \A e \in B : d < e => d + memorySize[At(d)] <= e

Calling == pc \in {"fit", "scan", "fill"}

CopiesHold(n, B) ==
  /\ tail = Ring(head + n)
  /\ n > 0 => 0 \in B
  /\ \A d \in B : CopyAt(d, n, B)
  /\ \A p \in Processes : state[p] = BACK_STORE => \E d \in B : At(d) = p
  /\ Calling /\ proc = NULL => n > 0

RingCopies == \E n \in 0 .. MaxMemory, B \in SUBSET Nat : CopiesHold(n, B)

\* The process that is to be put in memory, and the place found for it.
CallGoesOn ==
  /\ Calling => proc = NULL \/ proc \in Processes \ {0}
  /\ pc = "fill" => /\ i + memorySize[Wanted] <= MaxMemory
                    /\ \A a \in Extent(i, Wanted) : memory[a] = FREE

CopiesInv ==
  /\ SwapTypeOK
  /\ Intact => /\ RootHolds /\ StartHolds /\ RootAlone /\ EntriesApart
               /\ CallGoesOn /\ RingCopies

LEMMA CopiesStay ==
  ASSUME CopiesInv, pc # "astray"
  PROVE  /\ SwapTypeOK /\ RootHolds /\ StartHolds /\ RootAlone /\ EntriesApart
         /\ CallGoesOn /\ RingCopies
         /\ pc # "start" => memory[0] = 0 /\ memory[0] # FREE
<1>1. /\ SwapTypeOK /\ RootHolds /\ StartHolds /\ RootAlone /\ EntriesApart
      /\ CallGoesOn /\ RingCopies
  BY DEF CopiesInv, Intact
<1>2. pc # "start" => memory[0] = 0
  BY <1>1, Constants DEF RootAlone
<1> QED
  BY <1>1, <1>2, Constants

\* What is free is behind the root process.
LEMMA BehindRoot ==
  ASSUME SwapTypeOK, RootAlone, pc # "start", NEW a \in Cells, memory[a] = FREE
  PROVE  RootSize <= a
BY Numbers, Constants, States DEF RootAlone

\* The copy at the head of the ring.
LEMMA HeadCopy ==
  ASSUME SwapTypeOK, NEW n \in 0 .. MaxMemory, NEW B \in SUBSET Nat,
         CopiesHold(n, B), n > 0
  PROVE  /\ 0 \in B /\ FromStore = At(0) /\ FromStore \in Processes \ {0}
         /\ memorySize[FromStore] \in 1 .. n
         /\ \A d \in 0 .. memorySize[FromStore] - 1 : At(d) = FromStore
<1>1. head \in Nat /\ head < MaxMemory /\ n \in Nat
  BY Numbers DEF SwapTypeOK
<1>2. FromStore = At(0)
  BY <1>1, RingIs DEF At, FromStore
<1>3. 0 \in B /\ CopyAt(0, n, B) /\ \A e \in B : CopyAt(e, n, B)
  BY DEF CopiesHold
<1>4. FromStore \in Processes \ {0}
  BY <1>2, <1>3 DEF CopyAt
<1>5. memorySize[FromStore] \in Nat /\ memorySize[FromStore] >= 1
  BY <1>4, Numbers
<1>6. 0 + memorySize[FromStore] \in B \cup {n}
  BY <1>2, <1>3 DEF CopyAt
<1>7. memorySize[FromStore] <= n
  BY <1>1, <1>3, <1>5, <1>6 DEF CopyAt
<1>8. \A d \in 0 .. memorySize[FromStore] - 1 : At(d) = FromStore
  BY <1>2, <1>3, <1>5 DEF CopyAt
<1> QED
  BY <1>1, <1>2, <1>3, <1>4, <1>5, <1>7, <1>8

LEMMA WhoIsWanted ==
  ASSUME CopiesInv, Calling
  PROVE  /\ Wanted \in Processes \ {0}
         /\ proc = NULL => Wanted = FromStore
         /\ proc # NULL => Wanted = proc
<1>1. SwapTypeOK /\ CallGoesOn /\ RingCopies
  BY CopiesStay DEF Calling
<1>2. CASE proc = NULL
  <2>1. PICK n \in 0 .. MaxMemory, B \in SUBSET Nat : CopiesHold(n, B)
    BY <1>1 DEF RingCopies
  <2>2. n > 0
    BY <1>2, <2>1 DEF CopiesHold
  <2> QED
    BY <1>1, <1>2, <2>1, <2>2, HeadCopy DEF Wanted
<1>3. CASE proc # NULL
  BY <1>1, <1>3 DEF CallGoesOn, Wanted
<1> QED
  BY <1>2, <1>3

\* Nothing happens to the ring.
LEMMA CopiesSame ==
  ASSUME SwapTypeOK, RingCopies, UNCHANGED <<store, memorySize>>,
         \A p \in Processes : state'[p] = BACK_STORE => state[p] = BACK_STORE,
         Calling' /\ proc' = NULL =>
           \/ Calling /\ proc = NULL
           \/ \E p \in Processes : state[p] = BACK_STORE
  PROVE  RingCopies'
<1>1. PICK n \in 0 .. MaxMemory, B \in SUBSET Nat : CopiesHold(n, B)
  BY DEF RingCopies
<1>2. head' = head /\ tail' = tail /\ bs' = bs /\ memorySize' = memorySize
  BY DEF store
<1>3. \A d : At(d)' = At(d)
  BY <1>2 DEF At, Ring
<1>4. \A d \in B : CopyAt(d, n, B)'
  BY <1>1, <1>2, <1>3 DEF CopiesHold, CopyAt
<1>5. \A p \in Processes : state'[p] = BACK_STORE => \E d \in B : At(d)' = p
  BY <1>1, <1>3 DEF CopiesHold
<1>6. Calling' /\ proc' = NULL => n > 0
  <2>1. CASE \E p \in Processes : state[p] = BACK_STORE
    <3>1. PICK d \in B : CopyAt(d, n, B)
      BY <1>1, <2>1 DEF CopiesHold
    <3> QED
      BY <3>1 DEF CopyAt
  <2>2. CASE ~(\E p \in Processes : state[p] = BACK_STORE)
    BY <1>1, <2>2 DEF CopiesHold
  <2> QED
    BY <2>1, <2>2
<1>7. tail' = Ring(head' + n) /\ (n > 0 => 0 \in B)
  BY <1>1, <1>2 DEF CopiesHold
<1>8. CopiesHold(n, B)'
  BY <1>4, <1>5, <1>6, <1>7 DEF CopiesHold, Ring, Processes
<1> QED
  BY <1>8 DEF RingCopies

\* The copy at the head leaves the ring.
LEMMA CopiesLose ==
  ASSUME SwapTypeOK, NEW n \in 0 .. MaxMemory, NEW B \in SUBSET Nat,
         CopiesHold(n, B), n > 0, NEW p, p = FromStore, memorySize[p] < MaxMemory,
         bs' = [a \in Cells |-> IF Ring(a - head) < memorySize[p]
                                THEN FREE ELSE bs[a]],
         head' = HeadAfter(memorySize[p]), tail' = tail, memorySize' = memorySize,
         state' = [state EXCEPT ![p] = RUNNING], ~Calling'
  PROVE  RingCopies'
<1>0. PICK z : z = memorySize[p]
  OBVIOUS
<1>1. /\ p = At(0) /\ p \in Processes /\ z \in 1 .. n /\ 0 \in B /\ z \in Nat
      /\ n \in Nat /\ n <= MaxMemory /\ MaxMemory \in Nat /\ tail = Ring(head + n)
      /\ CopyAt(0, n, B) /\ \A d \in B : CopyAt(d, n, B)
  BY <1>0, HeadCopy, Numbers DEF CopiesHold
<1>2. /\ \A d \in Distances :
           d + z < MaxMemory => d + z \in Distances /\ At(d)' = At(d + z)
      /\ tail' = Ring(head' + (n - z))
  BY <1>0, <1>1, CopyGoes
<1>3. /\ z \in B \cup {n} /\ \A e \in B : 0 < e => z <= e
  BY <1>0, <1>1 DEF CopyAt
<1>4. \A d \in B : d \in 0 .. n - 1 /\ d \in Nat
  BY <1>1 DEF CopyAt
<1> DEFINE C == {d \in 0 .. n - z - 1 : d + z \in B}
<1>5. \A d \in 0 .. n - z - 1 : d \in Distances /\ d \in Nat /\ At(d)' = At(d + z)
  BY <1>1, <1>2 DEF Distances
<1>6. ASSUME NEW d \in C
      PROVE  CopyAt(d, n - z, C)'
  <2>1. /\ d \in 0 .. n - z - 1 /\ d \in Nat /\ d + z \in B /\ CopyAt(d + z, n, B)
        /\ At(d)' = At(d + z)
    BY <1>1, <1>5
  <2> DEFINE y == memorySize[At(d + z)]
  <2>2. /\ At(d + z) \in Processes \ {0} /\ (d + z) + y \in B \cup {n}
        /\ \A e \in d + z .. (d + z) + y - 1 : At(e) = At(d + z)
        /\ \A e \in B : d + z < e => (d + z) + y <= e
    BY <2>1 DEF CopyAt
  <2>3. y \in Nat /\ y >= 1
    BY <2>2, Numbers
  <2>4. memorySize'[At(d)'] = y
    BY <2>1
  <2> HIDE DEF y
  <2>5. d + y \in C \cup {n - z}
    <3>1. CASE (d + z) + y = n
      BY <1>1, <2>1, <2>3, <3>1
    <3>2. CASE (d + z) + y \in B
      <4>1. (d + z) + y \in 0 .. n - 1 /\ (d + z) + y = (d + y) + z
        BY <1>1, <1>4, <2>1, <2>3, <3>2
      <4>2. d + y \in 0 .. n - z - 1
        BY <1>1, <2>1, <2>3, <4>1
      <4> QED
        BY <3>2, <4>1, <4>2
    <3> QED
      BY <2>2, <3>1, <3>2
  <2>6. ASSUME NEW e \in d .. d + y - 1
        PROVE  At(e)' = At(d)'
    <3>1. (d + z) + y <= n
      BY <1>1, <1>4, <2>1, <2>2, <2>3
    <3>2. e \in 0 .. n - z - 1 /\ e + z \in d + z .. (d + z) + y - 1
      BY <1>1, <2>1, <2>3, <3>1
    <3>3. At(e)' = At(e + z)
      BY <1>5, <3>2
    <3> QED
      BY <2>1, <2>2, <3>2, <3>3
  <2>7. ASSUME NEW e \in C, d < e
        PROVE  d + y <= e
    <3>1. e \in Nat /\ e + z \in B /\ d + z < e + z
      BY <1>1, <2>1, <2>7
    <3>2. (d + z) + y <= e + z
      BY <2>2, <3>1
    <3> QED
      BY <1>1, <2>1, <2>3, <3>1, <3>2
  <2>8. At(d)' \in Processes \ {0}
    BY <2>1, <2>2
  <2> QED
    BY <2>1, <2>4, <2>5, <2>6, <2>7, <2>8 DEF CopyAt, Processes
<1>7. n - z > 0 => 0 \in C
  BY <1>1, <1>3
<1>8. ASSUME NEW q \in Processes, state'[q] = BACK_STORE
      PROVE  \E d \in C : At(d)' = q
  <2>1. q # p /\ state[q] = BACK_STORE
    BY <1>1, <1>8, States DEF SwapTypeOK
  <2>2. PICK e \in B : At(e) = q
    BY <2>1 DEF CopiesHold
  <2>3. e \in 0 .. n - 1 /\ e # 0 /\ z <= e /\ e \in Nat
    BY <1>1, <1>3, <1>4, <2>1, <2>2
  <2>4. e - z \in 0 .. n - z - 1 /\ (e - z) + z = e
    BY <1>1, <2>3
  <2>5. e - z \in C
    BY <2>4
  <2>6. At(e - z)' = q
    BY <1>5, <2>2, <2>4
  <2> QED
    BY <2>5, <2>6
<1>9. n - z \in 0 .. MaxMemory /\ C \in SUBSET Nat
  BY <1>1
<1> HIDE DEF C
<1>10. ASSUME NEW k, k = n - z
       PROVE  CopiesHold(k, C)'
  BY <1>2, <1>6, <1>7, <1>8, <1>10 DEF CopiesHold, Ring, Processes
<1> QED
  BY <1>9, <1>10 DEF RingCopies

\* A copy comes to the ring.
LEMMA CopiesGain ==
  ASSUME SwapTypeOK, NEW n \in 0 .. MaxMemory, NEW B \in SUBSET Nat,
         CopiesHold(n, B), NEW p \in Processes \ {0}, memorySize[p] <= MaxMemory,
         ~Overruns(memorySize[p]), NEW start \in Cells,
         \A d \in 0 .. memorySize[p] - 1 : memory[start + d] = p,
         bs' = Copied(start, p), tail' = Ring(tail + memorySize[p]),
         head' = head, memorySize' = memorySize,
         state' = [state EXCEPT ![p] = BACK_STORE]
  PROVE  RingCopies' /\ (n > 0 => FromStore' = FromStore)
<1>0. PICK z : z = memorySize[p]
  OBVIOUS
<1>1. /\ z \in Nat /\ z >= 1 /\ n \in Nat /\ MaxMemory \in Nat
      /\ tail = Ring(head + n) /\ \A d \in B : CopyAt(d, n, B)
      /\ head \in Nat /\ head < MaxMemory
  BY <1>0, Numbers DEF CopiesHold, SwapTypeOK
<1>2. n > 0 => At(0) # FREE
  BY HeadCopy, States
<1>3. /\ n \in Distances /\ n + z <= MaxMemory
      /\ \A d \in Distances : At(d)' = IF n <= d /\ d < n + z THEN p ELSE At(d)
      /\ tail' = Ring(head' + (n + z))
  BY <1>0, <1>1, <1>2, CopyComes
<1> DEFINE C == B \cup {n}
<1>4. \A d \in 0 .. n - 1 : d \in Distances /\ At(d)' = At(d)
  <2>1. \A d \in 0 .. n - 1 : d \in Distances /\ ~(n <= d)
    BY <1>1, <1>3 DEF Distances
  <2> QED
    BY <1>3, <2>1
<1>5. \A d \in n .. n + z - 1 : At(d)' = p
  <2>1. \A d \in n .. n + z - 1 : d \in Distances /\ n <= d /\ d < n + z
    BY <1>1, <1>3 DEF Distances
  <2> QED
    BY <1>3, <2>1
<1>6. ASSUME NEW d \in B
      PROVE  CopyAt(d, n + z, C)'
  <2> DEFINE y == memorySize[At(d)]
  <2>1. /\ d \in 0 .. n - 1 /\ At(d) \in Processes \ {0} /\ d + y \in B \cup {n}
        /\ \A e \in d .. d + y - 1 : At(e) = At(d)
        /\ \A e \in B : d < e => d + y <= e
    BY <1>1 DEF CopyAt
  <2>2. /\ y \in Nat /\ y >= 1 /\ At(d)' = At(d) /\ memorySize'[At(d)'] = y
        /\ \A e \in B : e \in 0 .. n - 1
    BY <1>1, <1>4, <2>1, Numbers DEF CopyAt
  <2> HIDE DEF y
  <2>3. d + y <= n
    BY <1>1, <2>1, <2>2
  <2>4. \A e \in d .. d + y - 1 : At(e)' = At(d)'
    <3>1. \A e \in d .. d + y - 1 : e \in 0 .. n - 1
      BY <1>1, <2>1, <2>2, <2>3
    <3> QED
      BY <1>4, <2>1, <2>2, <3>1
  <2>5. d \in 0 .. (n + z) - 1 /\ d + y \in C \cup {n + z}
    BY <1>1, <2>1
  <2>6. \A e \in C : d < e => d + y <= e
    BY <2>1, <2>3
  <2> QED
    BY <2>1, <2>2, <2>4, <2>5, <2>6 DEF CopyAt, Processes
<1>7. CopyAt(n, n + z, C)'
  <2>1. /\ n \in 0 .. (n + z) - 1 /\ n \in n .. n + z - 1
        /\ \A e \in C : ~(n < e)
    <3>1. \A e \in B : e \in 0 .. n - 1
      BY <1>1 DEF CopyAt
    <3> QED
      BY <1>1, <3>1
  <2>2. At(n)' = p /\ memorySize'[At(n)'] = z
    BY <1>0, <1>5, <2>1
  <2> QED
    BY <1>5, <2>1, <2>2 DEF CopyAt, Processes
<1>8. n + z > 0 => 0 \in C
  BY <1>1 DEF CopiesHold
<1>9. ASSUME NEW q \in Processes, state'[q] = BACK_STORE
      PROVE  \E d \in C : At(d)' = q
  <2>1. CASE q = p
    <3>1. n \in n .. n + z - 1
      BY <1>1
    <3> QED
      BY <1>5, <2>1, <3>1
  <2>2. CASE q # p
    <3>1. state[q] = BACK_STORE
      BY <1>9, <2>2 DEF SwapTypeOK
    <3>2. PICK d \in B : At(d) = q
      BY <3>1 DEF CopiesHold
    <3>3. d \in 0 .. n - 1
      BY <1>1 DEF CopyAt
    <3> QED
      BY <1>4, <3>2, <3>3
  <2> QED
    BY <2>1, <2>2
<1>10. n + z \in 0 .. MaxMemory /\ C \in SUBSET Nat /\ n + z > 0
  BY <1>1, <1>3
<1>11. n > 0 => FromStore' = FromStore
  <2>1. n > 0 => At(0)' = At(0)
    BY <1>1, <1>4
  <2> QED
    BY <1>1, <2>1, RingIs DEF At, FromStore, Ring
<1> HIDE DEF C
<1>12. ASSUME NEW k, k = n + z
       PROVE  CopiesHold(k, C)'
  <2>1. \A d \in C : CopyAt(d, k, C)'
    BY <1>6, <1>7, <1>12 DEF C
  <2> QED
    BY <1>3, <1>8, <1>9, <1>10, <1>12, <2>1 DEF CopiesHold, Ring, Processes
<1> QED
  BY <1>10, <1>11, <1>12 DEF RingCopies

LEMMA CopyPut ==
  ASSUME CopiesInv, pc \in {"fit", "fill"}, NEW h \in Nat, Put(h),
         \A a \in Extent(h, Wanted) : memory[a] = FREE,
         pc' = "quantum", UNCHANGED <<proc, i, burstTime, redrawn>>
  PROVE  /\ CopiesInv'
         /\ Wanted \in Processes /\ h + memorySize[Wanted] <= MaxMemory
         /\ memory' = [a \in Cells |-> IF a \in Extent(h, Wanted) THEN Wanted
                                                                  ELSE memory[a]]
         /\ memUsed' = memUsed + memorySize[Wanted]
<1>1. /\ SwapTypeOK /\ RootHolds /\ RootAlone /\ EntriesApart /\ CallGoesOn
      /\ RingCopies /\ pc # "start" /\ Calling /\ Wanted \in Processes \ {0}
  BY CopiesStay, WhoIsWanted DEF Calling
<1>2. PICK n \in 0 .. MaxMemory, B \in SUBSET Nat : CopiesHold(n, B)
  BY <1>1 DEF RingCopies
<1>3. ASSUME proc = NULL
      PROVE  /\ n > 0 /\ Wanted = FromStore
             /\ \A d \in 0 .. memorySize[Wanted] - 1 : At(d) = Wanted
  <2>1. n > 0 /\ Wanted = FromStore
    BY <1>1, <1>2, <1>3 DEF CopiesHold, Wanted
  <2> QED
    BY <1>1, <1>2, <2>1, HeadCopy
<1>4. /\ memory' = [a \in Cells |-> IF a \in Extent(h, Wanted) THEN Wanted
                                                               ELSE memory[a]]
      /\ h + memorySize[Wanted] <= MaxMemory
      /\ memStart' = [memStart EXCEPT ![Wanted] = h]
      /\ state' = [state EXCEPT ![Wanted] = RUNNING]
      /\ memUsed' = memUsed + memorySize[Wanted]
      /\ memorySize' = memorySize
      /\ proc = NULL => PutStored(h)
      /\ proc # NULL => UNCHANGED <<store, numProcess>>
  BY <1>1, <1>3, PutDoes
<1>5. /\ memorySize[Wanted] \in Nat /\ memorySize[Wanted] >= 1
      /\ h \in Cells /\ RootSize <= h /\ RootSize \in Nat /\ RootSize >= 1
      /\ memorySize[Wanted] < MaxMemory
  <2>1. memorySize[Wanted] \in Nat /\ memorySize[Wanted] >= 1
    BY <1>1, Numbers
  <2>2. h \in Extent(h, Wanted) /\ h \in Cells
    BY <1>1, <1>4, <2>1, Numbers DEF Extent
  <2>3. RootSize <= h
    BY <1>1, <2>2, BehindRoot
  <2> QED
    BY <1>1, <1>4, <2>1, <2>2, <2>3, Numbers, Constants
<1>6. RootAlone'
  <2> SUFFICES ASSUME NEW a \in Cells
               PROVE  memory'[a] = 0 <=> a < RootSize
    BY DEF RootAlone, Cells
  <2>1. CASE a \in Extent(h, Wanted)
    <3>1. h <= a /\ a \in Nat
      BY <1>1, <1>5, <2>1, Numbers DEF Extent
    <3> QED
      BY <1>1, <1>4, <1>5, <2>1, <3>1
  <2>2. CASE a \notin Extent(h, Wanted)
    BY <1>1, <1>4, <2>2 DEF RootAlone
  <2> QED
    BY <2>1, <2>2
<1>7. EntriesApart' /\ RootHolds'
  <2>1. \A p \in Processes :
          IF p = Wanted THEN state'[p] = RUNNING /\ memStart'[p] = h
                        ELSE state'[p] = state[p] /\ memStart'[p] = memStart[p]
    BY <1>1, <1>4 DEF SwapTypeOK
  <2>2. EntriesApart'
    BY <1>1, <1>5, <2>1 DEF EntriesApart, InMemory, Processes
  <2> QED
    BY <1>1, <1>4, <2>1, <2>2, Constants DEF RootHolds
<1>8. /\ memory' \in [Cells -> Processes \cup {FREE}]
      /\ memStart' \in [Processes -> Cells] /\ memUsed' \in Int
      /\ state' \in [Processes -> {WAITING, RUNNING, IDLE, BACK_STORE}]
  BY <1>1, <1>4, <1>5 DEF SwapTypeOK
<1>9. /\ RingCopies' /\ numProcess' \in Int
      /\ bs' \in [Cells -> Processes \cup {FREE}] /\ head' \in Cells /\ tail' \in Cells
  <2>1. CASE proc = NULL
    <3>1. /\ bs' = [a \in Cells |-> IF Ring(a - head) < memorySize[Wanted]
                                    THEN FREE ELSE bs[a]]
          /\ head' = HeadAfter(memorySize[Wanted]) /\ tail' = tail
          /\ numProcess' = numProcess + 1 /\ Wanted = FromStore /\ n > 0
      BY <1>3, <1>4, <2>1 DEF PutStored
    <3>2. ~Calling'
      BY DEF Calling
    <3>3. RingCopies'
      <4>1. PICK p : p = Wanted
        OBVIOUS
      <4> QED
        BY <1>1, <1>2, <1>4, <1>5, <3>1, <3>2, <4>1, CopiesLose
    <3>4. head' \in Cells
      <4>1. memorySize[Wanted] \in Distances /\ head \in Cells
        BY <1>1, <1>5, Numbers DEF Distances, SwapTypeOK
      <4> QED
        BY <1>1, <3>1, <4>1, RingCell DEF HeadAfter
    <3>5. bs' \in [Cells -> Processes \cup {FREE}] /\ tail' \in Cells /\ numProcess' \in Int
      BY <1>1, <3>1 DEF SwapTypeOK
    <3> QED
      BY <3>3, <3>4, <3>5
  <2>2. CASE proc # NULL
    <3>1. UNCHANGED <<store, numProcess>> /\ memorySize' = memorySize
      BY <1>4, <2>2
    <3>2. \A p \in Processes : state'[p] = BACK_STORE => state[p] = BACK_STORE
      BY <1>1, <1>4, States DEF SwapTypeOK
    <3>3. RingCopies'
      BY <1>1, <3>1, <3>2, CopiesSame DEF Calling
    <3> QED
      BY <1>1, <3>1, <3>3 DEF store, SwapTypeOK
  <2> QED
    BY <2>1, <2>2
<1>10. SwapTypeOK'
  BY <1>1, <1>4, <1>8, <1>9 DEF SwapTypeOK
<1>11. StartHolds' /\ CallGoesOn'
  BY DEF StartHolds, CallGoesOn, Calling
<1> QED
  BY <1>1, <1>4, <1>6, <1>7, <1>9, <1>10, <1>11 DEF CopiesInv

\* The two ways to a place for a process.
LEMMA CopiesPut ==
  ASSUME CopiesInv, PutInHole \/ Fill
  PROVE  /\ CopiesInv' /\ Wanted \in Processes
         /\ \E h \in Nat :
              /\ h + memorySize[Wanted] <= MaxMemory
              /\ \A a \in Extent(h, Wanted) : memory[a] = FREE
              /\ memory' = [a \in Cells |-> IF a \in Extent(h, Wanted) THEN Wanted
                                                                       ELSE memory[a]]
              /\ memUsed' = memUsed + memorySize[Wanted]
<1>1. /\ pc \in {"fit", "fill"} /\ pc' = "quantum"
      /\ UNCHANGED <<proc, i, burstTime, redrawn>>
      /\ SwapTypeOK /\ CallGoesOn /\ memory[0] # FREE /\ Wanted \in Processes
  BY CopiesStay, WhoIsWanted DEF PutInHole, Fill, Calling
<1>2. \E h \in Nat : Put(h) /\ \A a \in Extent(h, Wanted) : memory[a] = FREE
  <2>1. CASE PutInHole
    <3>1. PICK h \in FirstFit \cup BestFit \cup WorstFit : Put(h)
      BY <2>1 DEF PutInHole
    <3>2. h \in Fits(Wanted)
      BY <2>1, <3>1, ChoicesFit DEF PutInHole
    <3> QED
      BY <1>1, <3>1, <3>2, HoleChosen
  <2>2. CASE Fill
    BY <1>1, <2>2 DEF Fill, CallGoesOn, SwapTypeOK
  <2> QED
    BY <2>1, <2>2
<1>3. PICK h \in Nat : Put(h) /\ \A a \in Extent(h, Wanted) : memory[a] = FREE
  BY <1>2
<1> QED
  BY <1>1, <1>3, CopyPut

LEMMA CopiesStart ==
  ASSUME CopiesInv, SwapStart
  PROVE  /\ CopiesInv'
         /\ 0 + memorySize[0] <= MaxMemory
         /\ \A a \in Extent(0, 0) : memory[a] = FREE
         /\ memory' = [a \in Cells |-> IF a \in Extent(0, 0) THEN 0 ELSE memory[a]]
         /\ memUsed' = memUsed + memorySize[0]
<1>1. /\ SwapTypeOK /\ RootHolds /\ StartHolds /\ EntriesApart /\ RingCopies
      /\ pc = "start" /\ pc' = "quantum"
  BY CopiesStay DEF SwapStart, Start
<1>2. /\ 0 + memorySize[0] <= MaxMemory
      /\ memory' = [a \in Cells |-> IF a \in Extent(0, 0) THEN 0 ELSE memory[a]]
      /\ memUsed' = memUsed + memorySize[0]
      /\ memStart' = [memStart EXCEPT ![0] = 0]
      /\ state' = [state EXCEPT ![0] = RUNNING]
      /\ UNCHANGED <<memorySize, numProcess, proc, i, burstTime, store, redrawn>>
  BY DEF SwapStart, Start, PutInMemory, Extent
<1>3. 0 \in Processes /\ 0 \in Cells /\ memorySize[0] \in Nat /\ memorySize[0] = RootSize
  BY <1>1, Numbers, Constants DEF RootHolds
<1>4. state' = state /\ memStart' = memStart
  BY <1>1, <1>2, <1>3 DEF RootHolds, SwapTypeOK
<1>5. \A a \in Extent(0, 0) : a \in Cells /\ memory[a] = FREE
  BY <1>1, <1>2, <1>3, Numbers DEF StartHolds, Extent
<1>6. RootAlone'
  <2> SUFFICES ASSUME NEW a \in Cells
               PROVE  memory'[a] = 0 <=> a < RootSize
    BY DEF RootAlone, Cells
  <2>1. a \in Extent(0, 0) <=> a < RootSize
    BY <1>1, <1>3, Numbers DEF Extent
  <2>2. memory[a] # 0
    BY <1>1, States DEF StartHolds
  <2> QED
    BY <1>2, <2>1, <2>2
<1>7. SwapTypeOK'
  <2>1. memUsed' \in Int /\ memory' \in [Cells -> Processes \cup {FREE}]
    BY <1>1, <1>2, <1>3 DEF SwapTypeOK
  <2> QED
    BY <1>1, <1>2, <1>4, <2>1 DEF SwapTypeOK, store
<1>8. RingCopies'
  BY <1>1, <1>2, <1>4, CopiesSame DEF Calling
<1>9. RootHolds' /\ StartHolds' /\ EntriesApart' /\ CallGoesOn'
  BY <1>1, <1>2, <1>4
     DEF RootHolds, StartHolds, EntriesApart, InMemory, CallGoesOn, Calling
<1> QED
  BY <1>2, <1>5, <1>6, <1>7, <1>8, <1>9 DEF CopiesInv

\* Looking for a process, for a hole and for somebody to swap out, and the
\* calls of compaction().
LEMMA CopiesLook ==
  ASSUME CopiesInv,
         \/ Draw \/ NoHoleFits \/ Walk \/ WalkOver \/ WalkAstray
         \/ Compact \/ MoveAstray \/ Compacted \/ CompactThrows
  PROVE  CopiesInv' /\ UNCHANGED <<memory, memUsed>>
<1>1. /\ UNCHANGED <<pMap, store>> /\ pc \notin {"start", "astray"}
      /\ pc' \in {"quantum", "fit", "scan", "compact", "aborted", "astray"}
  BY DEF Draw, NoHoleFits, Walk, WalkOver, WalkAstray, Compact, MoveAstray,
         Compacted, CompactThrows
<1>2. /\ SwapTypeOK /\ RootHolds /\ StartHolds /\ RootAlone /\ EntriesApart
      /\ CallGoesOn /\ RingCopies /\ memory[0] # FREE
  BY <1>1, CopiesStay
<1>3. /\ UNCHANGED <<memory, memorySize, memStart, state, numProcess, memUsed,
                     burstTime, bs, head, tail, store>>
  BY <1>1 DEF pMap, table, store
<1>4. /\ redrawn' \in 0 .. MaxRedrawn /\ i' \in Nat
      /\ proc' \in Processes \cup {NULL} /\ (proc' \in Processes \ {0} \/ proc' = NULL \/ ~Calling')
      /\ Calling' /\ proc' = NULL => \/ Calling /\ proc = NULL
                                     \/ \E p \in Processes : state[p] = BACK_STORE
  <2>1. CASE Draw
    <3>1. PICK p \in Processes \ {0} :
            /\ proc' = IF state[p] = BACK_STORE THEN NULL ELSE p
            /\ IF InMemory(p) THEN redrawn < MaxRedrawn /\ redrawn' = redrawn + 1
                              ELSE UNCHANGED redrawn
      BY <2>1 DEF Draw
    <3>2. redrawn' \in 0 .. MaxRedrawn
      BY <1>2, <3>1, SwapAssumption DEF SwapTypeOK
    <3>3. i' = i
      BY <2>1 DEF Draw
    <3> QED
      BY <1>2, <3>1, <3>2, <3>3, States DEF SwapTypeOK
  <2>2. CASE NoHoleFits \/ Walk
    <3>1. proc' = proc /\ redrawn' = redrawn /\ pc \in {"fit", "scan"}
      BY <2>2 DEF NoHoleFits, Walk
    <3>2. i' \in Nat
      BY <1>2, <2>2, WalkIs DEF NoHoleFits, Walk
    <3> QED
      BY <1>2, <3>1, <3>2 DEF SwapTypeOK, CallGoesOn, Calling
  <2>3. CASE \/ WalkOver \/ WalkAstray \/ Compact \/ MoveAstray
             \/ Compacted \/ CompactThrows
    <3>1. /\ proc' = proc /\ i' = i /\ redrawn' = redrawn
          /\ pc' \in {"quantum", "compact", "aborted", "astray"}
      BY <2>3 DEF WalkOver, WalkAstray, Compact, MoveAstray, Compacted, CompactThrows
    <3> QED
      BY <1>2, <3>1 DEF SwapTypeOK, Calling
  <2> QED
    BY <2>1, <2>2, <2>3
<1>5. SwapTypeOK'
  BY <1>1, <1>2, <1>3, <1>4 DEF SwapTypeOK
<1>6. RingCopies'
  BY <1>2, <1>3, <1>4, CopiesSame
<1>7. RootHolds' /\ StartHolds' /\ EntriesApart' /\ RootAlone' /\ CallGoesOn'
  BY <1>1, <1>2, <1>3, <1>4
     DEF RootHolds, StartHolds, EntriesApart, InMemory, RootAlone, CallGoesOn
<1> QED
  BY <1>3, <1>5, <1>6, <1>7 DEF CopiesInv

LEMMA CopiesOut ==
  ASSUME CopiesInv, SwapOut
  PROVE  CopiesInv'
<1>1. PICK p : p = memory[i]
  OBVIOUS
<1>2. /\ SwapTypeOK /\ RootHolds /\ RootAlone /\ EntriesApart /\ CallGoesOn
      /\ RingCopies /\ memory[0] = 0 /\ state[0] = RUNNING
      /\ pc = "scan" /\ proc' = proc /\ i' = i
  BY CopiesStay DEF SwapOut, RootHolds
<1>3. /\ i \in Cells /\ p \in Processes \ {0}
      /\ memorySize[p] >= memorySize[Wanted] /\ SizeAt(i) = memorySize[p]
      /\ i + memorySize[p] <= MaxMemory /\ memorySize[p] < MaxMemory
      /\ \A d \in 0 .. memorySize[p] - 1 : memory[i + d] = p
      /\ memory' = [a \in Cells |-> IF a \in Extent(i, p) THEN FREE ELSE memory[a]]
      /\ bs' = Copied(i, p) /\ tail' = Ring(tail + memorySize[p])
      /\ memorySize' = memorySize /\ head' = head
  BY <1>1, <1>2, SwapOutDoes
<1>4. SwapTypeOK'
  BY <1>2, SwapOutTypes
<1>5. ASSUME pc' # "astray"
      PROVE  RootHolds' /\ StartHolds' /\ RootAlone' /\ EntriesApart'
             /\ CallGoesOn' /\ RingCopies'
  <2>1. ~Overruns(memorySize[p]) /\ tail' # 0 /\ pc' = "fill"
    BY <1>3, <1>5 DEF SwapOut
  <2>2. /\ memStart' = [memStart EXCEPT ![p] = tail]
        /\ state' = [state EXCEPT ![p] = BACK_STORE]
    BY <1>1, <1>2, <2>1, SwapOutDoes
  <2>3. \A q \in Processes :
          IF q = p THEN state'[q] = BACK_STORE
                   ELSE state'[q] = state[q] /\ memStart'[q] = memStart[q]
    BY <1>2, <2>2 DEF SwapTypeOK
  <2>4. RootHolds' /\ StartHolds' /\ EntriesApart'
    BY <1>2, <1>3, <2>1, <2>3, Constants, States
       DEF RootHolds, StartHolds, EntriesApart, InMemory, Processes
  <2>5. i \in Nat /\ memorySize[p] \in Nat /\ memorySize[p] >= 1
    BY <1>2, <1>3, Numbers
  <2>6. RootAlone'
    <3> SUFFICES ASSUME NEW a \in Cells
                 PROVE  memory'[a] = 0 <=> a < RootSize
      BY DEF RootAlone, Cells
    <3>1. CASE a \in Extent(i, p)
      <4>1. a - i \in 0 .. memorySize[p] - 1 /\ i + (a - i) = a
        BY <1>2, <2>5, <3>1, Numbers DEF Extent
      <4>2. memory[a] = p /\ p # 0
        BY <1>3, <4>1
      <4>3. memory'[a] = FREE
        BY <1>3, <3>1
      <4> QED
        BY <1>2, <4>2, <4>3, States DEF RootAlone
    <3>2. CASE a \notin Extent(i, p)
      BY <1>2, <1>3, <3>2 DEF RootAlone
    <3> QED
      BY <3>1, <3>2
  <2>7. PICK n \in 0 .. MaxMemory, B \in SUBSET Nat : CopiesHold(n, B)
    BY <1>2 DEF RingCopies
  <2>8. RingCopies' /\ (n > 0 => FromStore' = FromStore)
    <3>1. memorySize[p] <= MaxMemory
      BY <1>2, <1>3, <2>5, Numbers
    <3>2. SwapTypeOK /\ CopiesHold(n, B) /\ ~Overruns(memorySize[p])
      BY <1>2, <2>1, <2>7
    <3> QED
      BY <1>3, <2>2, <3>1, <3>2, CopiesGain
  <2>9. Wanted' = Wanted /\ Wanted \in Processes
    <3>1. CASE proc = NULL
      <4>1. n > 0
        BY <1>2, <2>7, <3>1 DEF CopiesHold, Calling
      <4> QED
        BY <1>2, <2>8, <3>1, <4>1, WhoIsWanted DEF Wanted, Calling
    <3>2. CASE proc # NULL
      BY <1>2, <3>2, WhoIsWanted DEF Wanted, Calling
    <3> QED
      BY <3>1, <3>2
  <2>10. /\ i + memorySize[Wanted] <= MaxMemory
         /\ \A a \in Extent(i, Wanted) : memory'[a] = FREE
    <3>1. memorySize[Wanted] \in Nat
      BY <1>2, <2>9, Numbers
    <3>2. i + memorySize[Wanted] <= MaxMemory
      BY <1>2, <1>3, <2>5, <3>1, Numbers
    <3>3. ASSUME NEW a \in Extent(i, Wanted)
          PROVE  a \in Cells /\ a \in Extent(i, p)
      BY <1>2, <1>3, <2>5, <3>1, <3>2, Numbers DEF Extent
    <3> QED
      BY <1>3, <3>2, <3>3
  <2>11. CallGoesOn'
    BY <1>2, <1>3, <2>1, <2>9, <2>10 DEF CallGoesOn, Calling, Extent, Processes
  <2> QED
    BY <2>4, <2>6, <2>8, <2>11
<1> QED
  BY <1>4, <1>5 DEF CopiesInv, Intact

LEMMA CopiesDown ==
  ASSUME CopiesInv, MoveDown
  PROVE  CopiesInv'
<1> DEFINE p == NextDown
<1>1. /\ SwapTypeOK /\ RootHolds /\ RootAlone /\ EntriesApart /\ CallGoesOn
      /\ RingCopies /\ memory[0] # FREE /\ pc = "compact" /\ InMemory(p)
      /\ HoleStarts # {} /\ HoleEnd # MaxMemory
  BY CopiesStay DEF MoveDown
<1>2. /\ memory' = [a \in Cells |->
           IF GoesDown(p) /\ a \in Extent(FirstHole, p) THEN p
           ELSE IF a \in Cleared(p) THEN FREE ELSE memory[a]]
      /\ IF GoesDown(p)
         THEN /\ memUsed' = memUsed + memorySize[p]
              /\ memStart' = [memStart EXCEPT ![p] = FirstHole]
              /\ state' = [state EXCEPT ![p] = RUNNING]
         ELSE UNCHANGED <<memUsed, memStart, state>>
      /\ UNCHANGED <<memorySize, numProcess, pc, proc, i, burstTime, store, redrawn>>
  BY DEF MoveDown
<1>3. /\ FirstHole \in Cells /\ FirstHole \in Nat /\ RootSize <= FirstHole
      /\ RootSize \in Nat /\ p \in Processes /\ p # 0 /\ RootSize <= memStart[p]
  <2>1. PICK h \in HoleStarts : h = FirstHole
    BY <1>1, FirstHoleIs
  <2>2. /\ h \in Cells /\ HoleSize(h) \in 1 .. MaxMemory - h
        /\ \A a \in h .. h + HoleSize(h) - 1 : a \in Cells /\ memory[a] = FREE
        /\ h + HoleSize(h) < MaxMemory => memory[h + HoleSize(h)] # FREE
    BY <1>1, HoleIs
  <2>3. h \in Nat /\ HoleSize(h) \in Nat /\ HoleSize(h) >= 1 /\ MaxMemory \in Nat
        /\ HoleEnd = h + HoleSize(h) /\ RootSize \in Nat
    BY <1>1, <2>1, <2>2, Numbers, Constants DEF HoleEnd
  <2>4. memory[h] = FREE /\ RootSize <= h
    <3>1. h \in h .. h + HoleSize(h) - 1
      BY <2>3
    <3>2. memory[h] = FREE
      BY <2>2, <3>1
    <3> QED
      BY <1>1, <2>2, <3>2, BehindRoot
  <2>5. HoleEnd \in Cells /\ memory[HoleEnd] # FREE
    BY <1>1, <2>2, <2>3, Numbers
  <2>6. p \in Processes
    BY <1>1, <2>5, Numbers DEF NextDown
  <2>7. p # 0
    BY <1>1, <2>3, <2>4, <2>5 DEF RootAlone, NextDown
  <2> HIDE DEF p
  <2>8. RootSize <= memStart[p]
    BY <1>1, <2>6, <2>7 DEF EntriesApart
  <2> QED
    BY <2>1, <2>2, <2>3, <2>4, <2>6, <2>7, <2>8
<1> HIDE DEF p
<1>4. memorySize[p] \in Nat /\ memStart[p] \in Nat
  BY <1>1, <1>3, Numbers
<1>5. RootAlone'
  <2> SUFFICES ASSUME NEW a \in Cells
               PROVE  memory'[a] = 0 <=> a < RootSize
    BY DEF RootAlone, Cells
  <2>1. a \in Nat
    BY <1>1, Numbers
  <2>2. CASE a \in Extent(FirstHole, p) \/ a \in Cleared(p)
    <3>1. ~(a < RootSize)
      BY <1>3, <1>4, <2>1, <2>2 DEF Cleared, Extent
    <3>2. memory[a] # 0
      BY <1>1, <3>1 DEF RootAlone
    <3>3. memory'[a] \in {p, FREE, memory[a]}
      BY <1>2
    <3> QED
      BY <1>3, <3>1, <3>2, <3>3, States
  <2>3. CASE a \notin Extent(FirstHole, p) /\ a \notin Cleared(p)
    BY <1>1, <1>2, <2>3 DEF RootAlone
  <2> QED
    BY <2>2, <2>3
<1>6. /\ memory' \in [Cells -> Processes \cup {FREE}]
      /\ memStart' \in [Processes -> Cells] /\ memUsed' \in Int
      /\ state' \in [Processes -> {WAITING, RUNNING, IDLE, BACK_STORE}]
  <2>1. memory' \in [Cells -> Processes \cup {FREE}]
    BY <1>1, <1>2, <1>3 DEF SwapTypeOK
  <2> QED
    BY <1>1, <1>2, <1>3, <1>4, <2>1 DEF SwapTypeOK
<1>7. \A q \in Processes :
        \/ state'[q] = state[q] /\ memStart'[q] = memStart[q]
        \/ q = p /\ state'[q] = RUNNING /\ memStart'[q] = FirstHole
  BY <1>1, <1>2 DEF SwapTypeOK
<1>8. EntriesApart' /\ RootHolds'
  BY <1>1, <1>2, <1>3, <1>7, Constants
     DEF EntriesApart, InMemory, RootHolds, Processes
<1>9. RingCopies'
  BY <1>1, <1>2, <1>7, States, CopiesSame DEF Calling
<1>10. SwapTypeOK'
  BY <1>1, <1>2, <1>6 DEF SwapTypeOK, store
<1>11. StartHolds' /\ CallGoesOn'
  BY <1>1, <1>2 DEF StartHolds, CallGoesOn, Calling
<1> QED
  BY <1>5, <1>8, <1>9, <1>10, <1>11 DEF CopiesInv

LEMMA CopiesAge ==
  ASSUME CopiesInv, decrementBurst
  PROVE  CopiesInv' /\ UNCHANGED <<memory, memUsed>>
<1>1. /\ SwapTypeOK /\ RootHolds /\ RootAlone /\ EntriesApart /\ RingCopies
      /\ pc = "quantum"
  BY CopiesStay DEF decrementBurst
<1>2. /\ UNCHANGED <<memory, memorySize, memStart, numProcess, memUsed, pc,
                     proc, i, store, redrawn, bs, head, tail>>
      /\ \A p \in Processes : \/ state'[p] = state[p]
                              \/ /\ p # 0 /\ state[p] = RUNNING
                                 /\ state'[p] \in {IDLE, RUNNING}
      /\ state' \in [Processes -> {WAITING, RUNNING, IDLE, BACK_STORE}]
      /\ burstTime' \in [Processes -> Nat \cup {BurstFloor}]
  BY <1>1, BurstIs DEF store
<1>3. RingCopies'
  BY <1>1, <1>2, States, CopiesSame DEF Calling
<1>4. SwapTypeOK'
  BY <1>1, <1>2 DEF SwapTypeOK
<1>5. RootHolds' /\ RootAlone' /\ EntriesApart' /\ StartHolds' /\ CallGoesOn'
  BY <1>1, <1>2, Constants
     DEF RootHolds, RootAlone, EntriesApart, InMemory, StartHolds, CallGoesOn,
         Calling
<1> QED
  BY <1>2, <1>3, <1>4, <1>5 DEF CopiesInv

LEMMA CopiesBegin == SwapInit => CopiesInv
<1> SUFFICES ASSUME SwapInit PROVE CopiesInv
  OBVIOUS
<1>1. pc = "start" /\ head = 0 /\ tail = 0
  BY DEF SwapInit, Init
<1>2. SwapTypeOK /\ RootHolds /\ StartHolds
  BY <1>1, SwapStarts DEF SwapInv, Intact, IntactInv
<1>3. RootAlone /\ EntriesApart /\ CallGoesOn
  BY <1>1, <1>2, States
     DEF RootAlone, EntriesApart, InMemory, StartHolds, CallGoesOn, Calling
<1>4. RingCopies
  <2>1. \A p \in Processes : state[p] # BACK_STORE
    BY <1>1, <1>2, States DEF RootHolds, StartHolds
  <2>2. 0 \in 0 .. MaxMemory /\ {} \in SUBSET Nat /\ Ring(0 + 0) = 0
    BY Constants, RingIs
  <2>3. CopiesHold(0, {})
    BY <1>1, <2>1, <2>2 DEF CopiesHold, Calling
  <2> QED
    BY <2>2, <2>3 DEF RingCopies
<1> QED
  BY <1>2, <1>3, <1>4 DEF CopiesInv

LEMMA CopiesNext ==
  ASSUME CopiesInv, [SwapNext]_swapVars
  PROVE  CopiesInv'
<1>1. CASE SwapNext
  BY <1>1, CopiesStart, CopiesLook, CopiesPut, CopiesOut, CopiesAge, CopiesDown
     DEF SwapNext
<1>2. CASE UNCHANGED swapVars
  <2>1. UNCHANGED <<memory, memorySize, memStart, state, numProcess, memUsed, pc,
                    proc, i, burstTime, bs, head, tail, redrawn, store>>
    BY <1>2 DEF swapVars, vars, table, store
  <2>2. /\ SwapTypeOK' = SwapTypeOK /\ Intact' = Intact /\ RootHolds' = RootHolds
        /\ StartHolds' = StartHolds /\ RootAlone' = RootAlone
        /\ EntriesApart' = EntriesApart
    BY <2>1 DEF SwapTypeOK, Intact, RootHolds, StartHolds, RootAlone, EntriesApart,
                InMemory
  <2>3. CallGoesOn' = CallGoesOn
    BY <2>1 DEF CallGoesOn, Calling, Wanted, FromStore, Extent
  <2>4. SwapTypeOK /\ RingCopies => RingCopies'
    BY <2>1, CopiesSame DEF Calling
  <2> QED
    BY <2>2, <2>3, <2>4 DEF CopiesInv
<1> QED
  BY <1>1, <1>2

\* The invariant that holds however often a process is placed again.
THEOREM CopiesInvariance == SwapSpec => []CopiesInv
BY CopiesBegin, CopiesNext, PTL DEF SwapSpec

\* Every state has its type: no second copy of a process, no swap and no
\* compaction brings an index of memory, of the ring or of the table out of
\* bounds.
THEOREM SwapTypeCorrect == SwapSpec => []SwapTypeOK
<1>1. CopiesInv => SwapTypeOK
  BY DEF CopiesInv
<1> QED
  BY <1>1, CopiesInvariance, PTL

\* putInMemory() never refuses: neither a hole that was found big enough nor the
\* place of a process swapped out, even of a process with several copies; nor,
\* as long as there are none, the first hole in compaction().
THEOREM PlacesAlwaysSuffice == SwapSpec => []PlacesSuffice
<1>1. CopiesInv /\ OrderlyInv => PlacesSuffice
  <2> SUFFICES ASSUME CopiesInv, OrderlyInv
               PROVE  PlacesSuffice
    OBVIOUS
  <2>1. ASSUME pc = "fit", NEW h \in Fits(Wanted)
        PROVE  h + memorySize[Wanted] <= MaxMemory
    <3>1. SwapTypeOK /\ memory[0] # FREE /\ Wanted \in Processes
      BY <2>1, CopiesStay, WhoIsWanted DEF Calling
    <3> QED
      BY <3>1, HoleChosen
  <2>2. pc = "fill" => i + memorySize[Wanted] <= MaxMemory
    BY CopiesStay DEF CallGoesOn
  <2>3. pc = "compact" /\ HoleStarts # {} /\ HoleEnd # MaxMemory /\ redrawn = 0 =>
          GoesDown(NextDown)
    BY MoveIs DEF OrderlyInv
  <2> QED
    BY <2>1, <2>2, <2>3 DEF PlacesSuffice
<1> QED
  BY <1>1, CopiesInvariance, SwapInvariance, PTL

-----------------------------------------------------------------------------
(***************************************************************************)
(* The cells in use are counted.                                           *)
(***************************************************************************)
UsedCells == {a \in Cells : memory[a] # FREE}

LEMMA ExtentCount ==
  ASSUME SwapTypeOK, NEW p \in Processes, NEW start \in Nat,
         start + memorySize[p] <= MaxMemory
  PROVE  /\ Extent(start, p) \subseteq Cells /\ IsFiniteSet(Extent(start, p))
         /\ Cardinality(Extent(start, p)) = memorySize[p]
<1>1. memorySize[p] \in Nat /\ memorySize[p] >= 1 /\ start + memorySize[p] - 1 \in Int
  BY Numbers
<1>2. IsFiniteSet(Extent(start, p)) /\ Cardinality(Extent(start, p)) = memorySize[p]
  <2>1. PICK b \in Int : b = start + memorySize[p] - 1
    BY <1>1
  <2>2. IsFiniteSet(start .. b)
        /\ Cardinality(start .. b) = IF start > b THEN 0 ELSE b - start + 1
    BY FS_Interval
  <2>3. Extent(start, p) = start .. b
    BY <2>1 DEF Extent
  <2> QED
    BY <1>1, <2>1, <2>2, <2>3
<1>3. Extent(start, p) \subseteq Cells
  BY <1>1, Numbers DEF Extent
<1> QED
  BY <1>2, <1>3

\* Two parts of memory that have no cell in common.
LEMMA PartsCount ==
  ASSUME NEW S \in SUBSET Cells, NEW T \in SUBSET Cells, S \cap T = {}
  PROVE  /\ Cardinality(S \cup T) = Cardinality(S) + Cardinality(T)
         /\ Cardinality(S) \in Nat /\ Cardinality(T) \in Nat
         /\ Cardinality(S \cup T) <= MaxMemory
<1>1. IsFiniteSet(S) /\ IsFiniteSet(T) /\ IsFiniteSet(S \cup T)
  BY FiniteProcesses, FS_Subset
<1>2. Cardinality(S \cup T) = Cardinality(S) + Cardinality(T) - Cardinality({})
  BY <1>1, FS_Union
<1>3. Cardinality(S \cup T) <= Cardinality(Cells) /\ Cardinality(Cells) = MaxMemory
  <2>1. Cardinality(0 .. MaxMemory - 1) = MaxMemory
    BY FS_Interval, Constants
  <2>2. Cardinality(Cells) = MaxMemory
    BY <2>1 DEF Cells
  <2>3. S \cup T \in SUBSET Cells
    OBVIOUS
  <2> QED
    BY <2>2, <2>3, FiniteProcesses, FS_Subset
<1>4. Cardinality(S) \in Nat /\ Cardinality(T) \in Nat /\ Cardinality({}) = 0
  BY <1>1, FS_CardinalityType, FS_EmptySet
<1> QED
  BY <1>2, <1>3, <1>4

LEMMA ComingCounts ==
  ASSUME SwapTypeOK, NEW p \in Processes, NEW start \in Nat,
         start + memorySize[p] <= MaxMemory,
         \A a \in Extent(start, p) : memory[a] = FREE,
         memory' = [a \in Cells |-> IF a \in Extent(start, p) THEN p
                                                              ELSE memory[a]]
  PROVE  /\ Cardinality(UsedCells') = Cardinality(UsedCells) + memorySize[p]
         /\ Cardinality(UsedCells) \in Nat
         /\ Cardinality(UsedCells) + memorySize[p] <= MaxMemory
<1> DEFINE E == Extent(start, p)
<1>1. E \subseteq Cells /\ Cardinality(E) = memorySize[p]
  BY ExtentCount
<1>2. UsedCells' = UsedCells \cup E /\ UsedCells \cap E = {}
  BY <1>1, States DEF UsedCells
<1>3. UsedCells \subseteq Cells
  BY DEF UsedCells
<1> HIDE DEF E
<1>4. /\ Cardinality(UsedCells \cup E) = Cardinality(UsedCells) + Cardinality(E)
      /\ Cardinality(UsedCells) \in Nat /\ Cardinality(UsedCells \cup E) <= MaxMemory
  BY <1>1, <1>2, <1>3, PartsCount
<1> QED
  BY <1>1, <1>2, <1>4

LEMMA GoingCounts ==
  ASSUME SwapTypeOK, NEW p \in Processes, NEW start \in Nat,
         start + memorySize[p] <= MaxMemory,
         \A a \in Extent(start, p) : memory[a] = p,
         memory' = [a \in Cells |-> IF a \in Extent(start, p) THEN FREE
                                                              ELSE memory[a]]
  PROVE  Cardinality(UsedCells') = Cardinality(UsedCells) - memorySize[p]
<1> DEFINE E == Extent(start, p)
<1>1. E \subseteq Cells /\ Cardinality(E) = memorySize[p] /\ memorySize[p] \in Nat
  BY ExtentCount, Numbers
<1>2. UsedCells = UsedCells' \cup E /\ UsedCells' \cap E = {}
  BY <1>1, States DEF UsedCells
<1>3. UsedCells' \subseteq Cells
  BY DEF UsedCells, Cells
<1> HIDE DEF E
<1>4. Cardinality(UsedCells) = Cardinality(UsedCells') + Cardinality(E)
      /\ Cardinality(UsedCells') \in Nat
  BY <1>1, <1>2, <1>3, PartsCount
<1> QED
  BY <1>1, <1>4

\* memUsed counts the cells in use: each step but the moves of compaction()
\* changes both alike, also when a process comes or goes that has other copies.
THEOREM UsedIsCounted == SwapSpec => UsedFollowsCells
<1> DEFINE Follows == Intact' /\ ~MoveDown =>
             memUsed' - memUsed = Cardinality({a \in Cells : memory'[a] # FREE})
                                - Cardinality({a \in Cells : memory[a] # FREE})
<1>1. CopiesInv /\ SwapNext => Follows
  <2> SUFFICES ASSUME CopiesInv, SwapNext, pc' # "astray", ~MoveDown
               PROVE  memUsed' - memUsed = Cardinality(UsedCells')
                                         - Cardinality(UsedCells)
    BY DEF Intact, UsedCells, Cells
  <2>1. /\ Cardinality(UsedCells) \in Nat /\ memUsed \in Int /\ SwapTypeOK
        /\ \A p \in Processes : memorySize[p] \in Nat
    BY FiniteProcesses, FS_Subset, FS_CardinalityType, Numbers
       DEF UsedCells, CopiesInv, SwapTypeOK
  <2>2. ASSUME UNCHANGED <<memory, memUsed>>
        PROVE  memUsed' - memUsed = Cardinality(UsedCells') - Cardinality(UsedCells)
    <3>1. UsedCells' = UsedCells
      BY <2>2 DEF UsedCells
    <3> QED
      BY <2>1, <2>2, <3>1
  <2>3. ASSUME NEW p \in Processes, NEW h \in Nat, h + memorySize[p] <= MaxMemory,
               \A a \in Extent(h, p) : memory[a] = FREE,
               memory' = [a \in Cells |-> IF a \in Extent(h, p) THEN p ELSE memory[a]],
               memUsed' = memUsed + memorySize[p]
        PROVE  memUsed' - memUsed = Cardinality(UsedCells') - Cardinality(UsedCells)
    <3>1. Cardinality(UsedCells') = Cardinality(UsedCells) + memorySize[p]
      BY <2>1, <2>3, ComingCounts
    <3> QED
      BY <2>1, <2>3, <3>1
  <2>4. CASE SwapStart
    BY <2>3, <2>4, CopiesStart, Constants
  <2>5. CASE PutInHole \/ Fill
    BY <2>3, <2>5, CopiesPut
  <2>6. CASE SwapOut
    <3>1. PICK p : p = memory[i]
      OBVIOUS
    <3>2. memory[0] = 0 /\ state[0] = RUNNING
      BY <2>6, CopiesStay DEF SwapOut, RootHolds
    <3>3. /\ i \in Cells /\ i \in Nat /\ p \in Processes /\ SizeAt(i) = memorySize[p]
          /\ memorySize[p] \in Nat /\ i + memorySize[p] <= MaxMemory
          /\ \A d \in 0 .. memorySize[p] - 1 : memory[i + d] = p
          /\ memory' = [a \in Cells |-> IF a \in Extent(i, p) THEN FREE ELSE memory[a]]
      BY <2>1, <2>6, <3>1, <3>2, SwapOutDoes, Numbers
    <3>4. tail' # 0
      BY <2>6 DEF SwapOut
    <3>5. memUsed' = memUsed - memorySize[p]
      BY <2>1, <2>6, <3>1, <3>2, <3>4, SwapOutDoes
    <3>6. \A a \in Extent(i, p) : memory[a] = p
      <4> SUFFICES ASSUME NEW a \in Extent(i, p)
                   PROVE  memory[a] = p
        OBVIOUS
      <4>1. a - i \in 0 .. memorySize[p] - 1 /\ i + (a - i) = a
        BY <3>3 DEF Extent
      <4> QED
        BY <3>3, <4>1
    <3>7. Cardinality(UsedCells') = Cardinality(UsedCells) - memorySize[p]
      BY <2>1, <3>3, <3>6, GoingCounts
    <3> QED
      BY <2>1, <3>3, <3>5, <3>7
  <2>7. CASE \/ Draw \/ NoHoleFits \/ Walk \/ WalkOver \/ WalkAstray
             \/ Compact \/ MoveAstray \/ Compacted \/ CompactThrows
             \/ decrementBurst
    BY <2>2, <2>7, CopiesLook, CopiesAge
  <2> QED
    BY <2>4, <2>5, <2>6, <2>7 DEF SwapNext
<1>2. CopiesInv /\ [SwapNext]_swapVars =>
        [Intact' /\ ~MoveDown =>
           memUsed' - memUsed = Cardinality({a \in Cells : memory'[a] # FREE})
                              - Cardinality({a \in Cells : memory[a] # FREE})
        ]_swapVars
  BY <1>1
<1> QED
  BY <1>2, CopiesInvariance, PTL DEF SwapSpec, UsedFollowsCells

\* As long as only processes are drawn that are not in memory, compaction()
\* keeps the processes in their order; when it returns, the free cells are one
\* hole at the end, however many copies there are.
THEOREM OrderIsKept == SwapSpec => CompactionKeepsOrder
<1> DEFINE Keeps ==
      /\ MoveDown /\ redrawn = 0 =>
           \A p, q \in Loaded : memStart[p] < memStart[q] =>
                                  memStart'[p] < memStart'[q]
      /\ Compacted => \A a, b \in Cells :
                        a < b /\ memory[a] = FREE => memory[b] = FREE
<1>1. OrderlyInv /\ CopiesInv => Keeps
  <2>1. ASSUME SwapInv, MoveDown, NEW p \in Loaded, NEW q \in Loaded,
               memStart[p] < memStart[q]
        PROVE  memStart'[p] < memStart'[q]
    <3>1. PICK r : r = NextDown
      OBVIOUS
    <3>2. /\ SwapTypeOK /\ MemoryHolds
          /\ memStart' = [memStart EXCEPT ![r] = FirstHole]
          /\ FirstHole \in Nat /\ FirstHole < HoleEnd
          /\ r \in Loaded /\ memStart[r] = HoleEnd
          /\ \A a \in FirstHole .. HoleEnd - 1 : memory[a] = FREE
      BY <2>1, <3>1, Stays, MoveDownIs DEF MoveDown
    <3>3. /\ p \in Processes /\ q \in Processes /\ r \in Processes
          /\ memStart[p] \in Nat /\ memStart[q] \in Nat /\ memStart[p] \in Cells
          /\ memorySize[p] \in Nat /\ memorySize[p] >= 1 /\ HoleEnd \in Nat
      BY <3>2, Numbers
    <3>4. memory[memStart[p]] = p /\ p # FREE
      <4>1. memStart[p] \in Extent(memStart[p], p)
        BY <3>3 DEF Extent
      <4> QED
        BY <3>2, <3>3, <4>1, States DEF MemoryHolds
    <3>5. memStart[p] \notin FirstHole .. HoleEnd - 1
      BY <3>2, <3>4
    <3>6. \A s \in Processes : memStart'[s] = IF s = r THEN FirstHole ELSE memStart[s]
      BY <3>2 DEF SwapTypeOK
    <3> QED
      BY <2>1, <3>2, <3>3, <3>5, <3>6
  <2>2. ASSUME CopiesInv, Compacted, NEW a \in Cells, NEW b \in Cells, a < b,
               memory[a] = FREE
        PROVE  memory[b] = FREE
    <3>1. SwapTypeOK /\ memory[0] # FREE /\ HoleStarts # {} /\ HoleEnd = MaxMemory
      BY <2>2, CopiesStay DEF Compacted
    <3> DEFINE F == {c \in Cells : memory[c] = FREE}
    <3>2. F \in SUBSET Nat /\ a \in F
      BY <2>2, Constants
    <3>3. PICK c \in F : \A d \in F : c <= d
      BY <3>2, Least
    <3>4. c \in HoleStarts
      <4>1. c \in Cells /\ c \in Nat /\ c < MaxMemory /\ c # 0 /\ memory[c] = FREE
        BY <3>1, <3>3, Numbers
      <4>2. c - 1 \in Cells /\ ~(c <= c - 1)
        BY <3>1, <4>1, Numbers
      <4>3. memory[c - 1] # FREE
        BY <3>3, <4>2
      <4> QED
        BY <4>1, <4>2, <4>3, UsedIs DEF HoleStarts
    <3>5. FirstHole \in HoleStarts /\ FirstHole <= c
      <4>1. HoleStarts \in SUBSET Nat
        BY Constants DEF HoleStarts, Cells
      <4>2. PICK m \in HoleStarts : \A g \in HoleStarts : m <= g
        BY <3>1, <4>1, Least
      <4>3. HoleStarts \subseteq Int
        BY <4>1
      <4>4. FirstHole = m
        BY <4>2, <4>3, MinIs DEF FirstHole
      <4> QED
        BY <3>4, <4>2, <4>4
    <3>6. PICK h \in HoleStarts : h = FirstHole
      BY <3>5
    <3>7. /\ h \in Cells /\ h + HoleSize(h) = MaxMemory /\ HoleSize(h) \in Nat
          /\ \A d \in h .. h + HoleSize(h) - 1 : memory[d] = FREE
      <4>1. /\ h \in Cells /\ HoleSize(h) \in 1 .. MaxMemory - h
            /\ \A d \in h .. h + HoleSize(h) - 1 : d \in Cells /\ memory[d] = FREE
        BY <3>1, HoleIs
      <4>2. h + HoleSize(h) = MaxMemory
        BY <3>1, <3>6 DEF HoleEnd
      <4> QED
        BY <3>1, <4>1, <4>2, Numbers
    <3>8. c <= a /\ c \in Nat /\ a \in Nat /\ b \in Nat /\ b < MaxMemory /\ h \in Nat
          /\ h <= c
      BY <3>1, <3>2, <3>3, <3>5, <3>6, <3>7, Numbers
    <3>9. b \in h .. h + HoleSize(h) - 1
      BY <2>2, <3>1, <3>7, <3>8, Numbers
    <3> QED
      BY <3>7, <3>9
  <2> QED
    BY <2>1, <2>2 DEF OrderlyInv
<1>2. OrderlyInv /\ CopiesInv /\ [SwapNext]_swapVars => [Keeps]_swapVars
  BY <1>1
<1> HIDE DEF Keeps
<1>3. SwapSpec => [][Keeps]_swapVars
  BY <1>2, SwapInvariance, CopiesInvariance, PTL DEF SwapSpec
<1> QED
  BY <1>3 DEF CompactionKeepsOrder, Keeps

-----------------------------------------------------------------------------
(***************************************************************************)
(* The head of the ring.  Who is idle, or stored, has no time left; who    *)
(* comes back like that is never idle again.  So the head is as far from   *)
(* the start as those who came back are big, and they are in memory.       *)
(***************************************************************************)
\* B are the processes that came back from the store.
CameBack(B) ==
  /\ B \subseteq Loaded \ {0}
  /\ \A p \in B : state[p] = RUNNING /\ burstTime[p] <= 0
  /\ head = Sum(memorySize, B)

AgeInv ==
  Orderly => /\ \A p \in Processes : state[p] \in {IDLE, BACK_STORE} => burstTime[p] = 0
             /\ \E B \in SUBSET Processes : CameBack(B)

\* As many cells as the sizes of the processes say are theirs.
LEMMA SizesCount ==
  ASSUME SwapTypeOK, MemoryInv, NEW S \in SUBSET Loaded
  PROVE  Sum(memorySize, S) = Cardinality({a \in Cells : memory[a] \in S})
<1> DEFINE
    CellsOf(s) == {a \in Cells : memory[a] \in s}
    Wrong(s) == s \in SUBSET S /\ Sum(memorySize, s) # Cardinality(CellsOf(s))
    Bad == {n \in Nat : \E s : Wrong(s) /\ Cardinality(s) = n}
<1>1. S \subseteq Processes /\ IsFiniteSet(S)
  BY Numbers, FiniteProcesses, FS_Subset
<1>2. Bad = {}
  <2>1. SUFFICES ASSUME Bad # {} PROVE FALSE
    OBVIOUS
  <2>2. PICK n \in Bad : \A m \in Bad : n <= m
    BY <2>1, Least
  <2>3. PICK s : Wrong(s) /\ Cardinality(s) = n
    BY <2>2
  <2>4. s \in SUBSET S /\ IsFiniteSet(s)
    BY <1>1, <2>3, FS_Subset
  <2>5. s # {}
    <3>1. SUFFICES ASSUME s = {} PROVE FALSE
      OBVIOUS
    <3>2. CellsOf(s) = {}
      BY <3>1
    <3>3. Sum(memorySize, s) = 0 /\ Cardinality(CellsOf(s)) = 0
      BY <3>1, <3>2, SumEmpty, FS_EmptySet
    <3> QED
      BY <2>3, <3>3
  <2>6. PICK p : p \in s
    BY <2>5
  <2>7. /\ s \ {p} \in SUBSET S /\ Cardinality(s \ {p}) = n - 1 /\ n - 1 \in Nat
        /\ p \in Processes /\ p \in Loaded
    <3>1. Cardinality(s \ {p}) = n - 1 /\ n \in Nat /\ Cardinality(s \ {p}) \in Nat
      BY <2>2, <2>3, <2>4, <2>6, FS_RemoveElement, FS_CardinalityType
    <3> QED
      BY <1>1, <2>4, <2>6, <3>1
  <2>8. Sum(memorySize, s \ {p}) = Cardinality(CellsOf(s \ {p}))
    <3>1. n - 1 \notin Bad
      <4>1. ~(n <= n - 1)
        BY <2>7
      <4> QED
        BY <2>2, <4>1
    <3> QED
      BY <2>7, <3>1
  <2>9. Sum(memorySize, s) = memorySize[p] + Sum(memorySize, s \ {p})
    <3>1. \A q \in s : memorySize[q] \in Int
      BY <1>1, <2>4, Numbers
    <3> QED
      BY <2>4, <2>6, <3>1, SumRemove
  <2>10. Cardinality(CellsOf(s)) = memorySize[p] + Cardinality(CellsOf(s \ {p}))
    <3> DEFINE E == Extent(memStart[p], p)
               C == CellsOf(s \ {p})
    <3>1. E \subseteq Cells /\ Cardinality(E) = memorySize[p]
      BY <2>7, Numbers, ExtentCount DEF MemoryInv, Placed
    <3>2. \A a \in Cells : memory[a] = p <=> a \in E
      BY <2>7 DEF MemoryInv, MemoryHolds
    <3>3. CellsOf(s) = C \cup E /\ C \cap E = {} /\ C \subseteq Cells
      BY <2>6, <3>1, <3>2
    <3> HIDE DEF E, C, CellsOf
    <3>4. Cardinality(C \cup E) = Cardinality(C) + Cardinality(E)
          /\ Cardinality(C) \in Nat /\ Cardinality(E) \in Nat
      BY <3>1, <3>3, PartsCount
    <3>5. Cardinality(CellsOf(s)) = Cardinality(C) + memorySize[p]
      BY <3>1, <3>3, <3>4
    <3> QED
      BY <3>1, <3>4, <3>5 DEF C
  <2> QED
    BY <2>3, <2>8, <2>9, <2>10
<1>3. Cardinality(S) \in Nat
  BY <1>1, FS_CardinalityType
<1>4. ~Wrong(S)
  BY <1>2, <1>3
<1> QED
  BY <1>4

\* Beside the root process.
LEMMA RoomLeft ==
  ASSUME SwapInv, pc \notin {"start", "astray"}, NEW B, CameBack(B)
  PROVE  /\ Sum(memorySize, B) + RootSize <= Cardinality(UsedCells)
         /\ Cardinality(UsedCells) \in Nat /\ Cardinality(UsedCells) <= MaxMemory
         /\ Sum(memorySize, B) \in Nat
<1>1. /\ SwapTypeOK /\ MemoryInv /\ RootHolds /\ 0 \in Loaded
      /\ B \subseteq Loaded \ {0} /\ IsFiniteSet(B)
  <2>1. SwapTypeOK /\ MemoryInv /\ RootHolds /\ MemoryHolds
    BY Stays
  <2>2. B \in SUBSET Processes
    BY <2>1, Numbers DEF CameBack
  <2> QED
    BY <2>1, <2>2, RootInPlace, FiniteProcesses, FS_Subset DEF CameBack
<1>2. Sum(memorySize, B \cup {0}) = RootSize + Sum(memorySize, B)
  <2>1. /\ IsFiniteSet(B \cup {0}) /\ (B \cup {0}) \ {0} = B /\ 0 \in B \cup {0}
        /\ memorySize[0] = RootSize
    BY <1>1, FS_AddElement DEF RootHolds
  <2>2. \A q \in B \cup {0} : memorySize[q] \in Int
    BY <1>1, Numbers
  <2>3. Sum(memorySize, B \cup {0}) = memorySize[0] + Sum(memorySize, (B \cup {0}) \ {0})
    BY <2>1, <2>2, SumRemove
  <2> QED
    BY <2>1, <2>3
<1> DEFINE C == {a \in Cells : memory[a] \in B \cup {0}}
           D == {a \in Cells : memory[a] \in B}
<1>3. Sum(memorySize, B \cup {0}) = Cardinality(C)
  BY <1>1, SizesCount
<1>4. Sum(memorySize, B) = Cardinality(D)
  BY <1>1, SizesCount
<1>5. /\ C \subseteq UsedCells /\ C \subseteq Cells /\ D \subseteq Cells
      /\ UsedCells \subseteq Cells
  BY <1>1, Numbers, States DEF UsedCells
<1> HIDE DEF C, D
<1>6. /\ IsFiniteSet(UsedCells) /\ Cardinality(C) <= Cardinality(UsedCells)
      /\ Cardinality(D) \in Nat /\ Cardinality(UsedCells) \in Nat
  BY <1>5, FiniteProcesses, FS_Subset, FS_CardinalityType
<1>7. Cardinality(UsedCells) <= MaxMemory
  <2>1. Cardinality(UsedCells \cup {}) <= MaxMemory
    BY <1>5, PartsCount
  <2>2. UsedCells \cup {} = UsedCells
    OBVIOUS
  <2> QED
    BY <2>1, <2>2
<1>8. RootSize \in Nat
  BY Constants
<1> QED
  BY <1>2, <1>3, <1>4, <1>6, <1>7, <1>8

\* Who comes from the ring takes the head further, but not around it.
LEMMA HeadMoves ==
  ASSUME SwapInv, PutInHole \/ Fill, proc = NULL, NEW B, CameBack(B)
  PROVE  /\ head' = head + memorySize[Wanted]
         /\ head' <= MaxMemory - RootSize /\ head' >= head
<1>1. PICK h \in Nat : /\ h # 0 /\ Put(h)
                       /\ \A a \in Extent(h, Wanted) : memory[a] = FREE
  BY Puts
<1>2. /\ SwapTypeOK /\ Wanted \in Processes /\ pc \notin {"start", "astray"}
      /\ memorySize[Wanted] \in Nat /\ memorySize[Wanted] >= 1
      /\ MaxMemory \in Nat /\ RootSize \in Nat /\ RootSize >= 1
  BY Puts, Stays, WantedIs, Numbers, Constants
<1>3. /\ memory' = [a \in Cells |-> IF a \in Extent(h, Wanted) THEN Wanted
                                                               ELSE memory[a]]
      /\ h + memorySize[Wanted] <= MaxMemory /\ PutStored(h)
  BY <1>1, Puts, PutIs
<1>4. Cardinality(UsedCells) + memorySize[Wanted] <= MaxMemory
  BY <1>1, <1>2, <1>3, ComingCounts
<1>5. head + RootSize <= Cardinality(UsedCells) /\ head \in Nat
      /\ Cardinality(UsedCells) \in Nat
  BY <1>2, RoomLeft DEF CameBack
<1>6. head' = Ring(head + memorySize[Wanted])
  <2>1. head' = HeadAfter(memorySize[FromStore]) /\ Wanted = FromStore
    BY <1>3, Puts, WantedIs DEF PutStored
  <2> QED
    BY <2>1 DEF HeadAfter
<1>7. head + memorySize[Wanted] \in Int /\ 0 <= head + memorySize[Wanted]
      /\ head + memorySize[Wanted] <= MaxMemory - RootSize
      /\ head + memorySize[Wanted] < MaxMemory
  BY <1>2, <1>4, <1>5
<1>8. head' = head + memorySize[Wanted]
  BY <1>6, <1>7, RingIs
<1> QED
  BY <1>2, <1>5, <1>7, <1>8

\* The steps that do not move the head.
LEMMA HeadStays ==
  ASSUME SwapInv, NEW B, CameBack(B), head' = head, memorySize' = memorySize,
         B \subseteq Loaded',
         \A p \in B : state'[p] = RUNNING /\ burstTime'[p] <= 0
  PROVE  CameBack(B)'
<1>1. IsFiniteSet(B) /\ Sum(memorySize', B) = Sum(memorySize, B)
  BY FiniteProcesses, FS_Subset DEF CameBack, Loaded, InMemory
<1> QED
  BY <1>1 DEF CameBack

LEMMA AgeStarts == SwapInit => AgeInv
<1> SUFFICES ASSUME SwapInit PROVE AgeInv
  OBVIOUS
<1>1. \A p \in Processes : state[p] \notin {IDLE, BACK_STORE}
  BY States DEF SwapInit, Init, initProcesses
<1>2. CameBack({})
  BY SumEmpty DEF CameBack, SwapInit
<1> QED
  BY <1>1, <1>2 DEF AgeInv

LEMMA AgeKeeps == OrderlyInv /\ AgeInv /\ [SwapNext]_swapVars => AgeInv'
<1> SUFFICES ASSUME SwapInv, AgeInv, [SwapNext]_swapVars, pc' # "astray",
                    redrawn = 0, redrawn' = redrawn
             PROVE  AgeInv'
  BY OrderlyStep DEF AgeInv, Orderly, Intact
<1> DEFINE NoTimeLeft == \A p \in Processes : state[p] \in {IDLE, BACK_STORE} =>
                                                burstTime[p] = 0
<1>1. CASE UNCHANGED swapVars
  <2>1. UNCHANGED <<memorySize, state, pc, burstTime, head>>
    BY <1>1 DEF swapVars, vars, table, store
  <2> QED
    BY <2>1 DEF AgeInv, Orderly, Intact, CameBack, Loaded, InMemory
<1>2. CASE SwapNext
  <2>1. pc # "astray"
    BY <1>2 DEF SwapNext, SwapStart, Start, Draw, PutInHole, NoHoleFits, Walk,
       WalkOver, WalkAstray, SwapOut, Fill, decrementBurst, Compact, MoveDown,
       MoveAstray, Compacted, CompactThrows
  <2>2. SwapTypeOK /\ RootHolds
    BY <2>1, Stays
  <2>3. PICK B \in SUBSET Processes : CameBack(B) /\ NoTimeLeft
    BY <2>1 DEF AgeInv, Orderly, Intact
  <2>4. B \subseteq Loaded \ {0} /\ \A p \in B : state[p] = RUNNING /\ burstTime[p] <= 0
    BY <2>3 DEF CameBack
  <2>5. SUFFICES NoTimeLeft' /\ \E C \in SUBSET Processes : CameBack(C)'
    BY DEF AgeInv, Processes
  <2>6. CASE SwapStart
    <3>1. Loaded = {} /\ UNCHANGED <<head, memorySize, burstTime>>
      BY <2>6, StartKeeps DEF SwapStart, Start, PutInMemory, store
    <3>2. CameBack(B)'
      BY <2>3, <2>4, <3>1, HeadStays
    <3>3. NoTimeLeft'
      <4>1. state' = [state EXCEPT ![0] = RUNNING]
        BY <2>6 DEF SwapStart, Start, PutInMemory
      <4> QED
        BY <2>2, <2>3, <3>1, <4>1, States DEF SwapTypeOK
    <3> QED
      BY <3>2, <3>3
  <2>7. CASE \/ Draw \/ NoHoleFits \/ Walk \/ WalkOver \/ WalkAstray
             \/ Compact \/ MoveAstray \/ Compacted \/ CompactThrows
    <3>1. /\ UNCHANGED <<head, memorySize, burstTime, state>>
          /\ pc # "start" /\ pc' # "start"
      BY <2>7, LooksKeep DEF pMap, table, store
    <3>2. Loaded' = Loaded
      BY <3>1 DEF Loaded, InMemory
    <3>3. CameBack(B)'
      BY <2>3, <2>4, <3>1, <3>2, HeadStays
    <3> QED
      BY <2>3, <3>1, <3>3
  <2>8. CASE PutInHole \/ Fill
    <3>1. PICK h \in Nat : Put(h)
      BY <2>8, Puts
    <3>2. /\ state' = [state EXCEPT ![Wanted] = RUNNING]
          /\ Loaded' = Loaded \cup {Wanted} /\ memorySize' = memorySize
          /\ burstTime' = burstTime /\ Wanted \in Processes \ {0} /\ Wanted \notin Loaded
          /\ proc # NULL => UNCHANGED store
          /\ proc = NULL => Wanted \in Stored
      BY <2>8, <3>1, Puts, PutIs, WantedIs
    <3>3. \A p \in Processes : state'[p] = IF p = Wanted THEN RUNNING ELSE state[p]
      BY <2>2, <3>2 DEF SwapTypeOK
    <3>4. NoTimeLeft'
      BY <2>3, <3>2, <3>3, States
    <3>5. CASE proc # NULL
      <4>1. head' = head
        BY <3>2, <3>5 DEF store
      <4>2. CameBack(B)'
        BY <2>3, <2>4, <3>2, <3>3, <4>1, HeadStays
      <4> QED
        BY <3>4, <4>2
    <3>6. CASE proc = NULL
      <4>1. PICK C \in SUBSET Processes : C = B \cup {Wanted}
        BY <3>2
      <4>2. head' = head + memorySize[Wanted] /\ head \in Nat
        BY <2>2, <2>3, <2>8, <3>6, HeadMoves, Numbers DEF SwapTypeOK
      <4>3. burstTime[Wanted] = 0
        BY <2>3, <3>2, <3>6 DEF Stored
      <4>4. \A p \in C : state'[p] = RUNNING /\ burstTime'[p] <= 0
        BY <2>4, <3>2, <3>3, <4>1, <4>3
      <4>5. C \subseteq Loaded' \ {0}
        BY <2>4, <3>2, <4>1
      <4>6. head' = Sum(memorySize', C)
        <5>1. IsFiniteSet(C) /\ Wanted \in C /\ C \ {Wanted} = B
          BY <2>4, <3>2, <4>1, FiniteProcesses, FS_Subset
        <5>2. \A p \in C : memorySize[p] \in Int
          BY <2>2, <4>1, Numbers
        <5>3. Sum(memorySize, C) = memorySize[Wanted] + Sum(memorySize, C \ {Wanted})
          BY <5>1, <5>2, SumRemove
        <5>4. Sum(memorySize, C) = memorySize[Wanted] + head
          BY <2>3, <5>1, <5>3 DEF CameBack
        <5>5. memorySize[Wanted] \in Nat
          BY <2>2, <3>2, Numbers
        <5>6. Sum(memorySize', C) = Sum(memorySize, C)
          BY <3>2
        <5> QED
          BY <4>2, <5>4, <5>5, <5>6
      <4>7. CameBack(C)'
        BY <4>4, <4>5, <4>6 DEF CameBack
      <4> QED
        BY <3>4, <4>7
    <3> QED
      BY <3>5, <3>6
  <2>9. CASE SwapOut
    <3>1. PICK p : p = memory[i]
      OBVIOUS
    <3>2. /\ p \in Loaded /\ p \in Processes /\ state[p] = IDLE
          /\ Loaded' = Loaded \ {p} /\ state' = [state EXCEPT ![p] = BACK_STORE]
          /\ memorySize' = memorySize /\ head' = head /\ burstTime' = burstTime
      BY <2>2, <2>9, <3>1, SwapOutIs, SwapOutMoves, Numbers DEF SwapOut
    <3>3. \A q \in Processes : state'[q] = IF q = p THEN BACK_STORE ELSE state[q]
      BY <2>2, <3>2 DEF SwapTypeOK
    <3>4. p \notin B
      BY <2>4, <3>2, States
    <3>5. CameBack(B)'
      BY <2>3, <2>4, <3>2, <3>3, <3>4, HeadStays
    <3>6. NoTimeLeft'
      BY <2>3, <3>2, <3>3
    <3> QED
      BY <3>5, <3>6
  <2>10. CASE decrementBurst
    <3>1. /\ Loaded' = Loaded /\ UNCHANGED <<memorySize, head>>
          /\ \A p \in Processes :
               \/ state'[p] = state[p] /\ burstTime'[p] = burstTime[p]
               \/ /\ state[p] = RUNNING /\ p # 0
                  /\ burstTime'[p] = IF burstTime[p] - 1 >= BurstFloor
                                     THEN burstTime[p] - 1 ELSE BurstFloor
                  /\ state'[p] = IF burstTime'[p] = 0 THEN IDLE ELSE RUNNING
      BY <2>2, <2>10, BurstIs DEF store
    <3>2. BurstFloor = -1 /\ \A p \in Processes : burstTime[p] \in Int
      BY <2>2 DEF SwapTypeOK, BurstFloor
    <3>3. \A p \in B : state'[p] = RUNNING /\ burstTime'[p] <= 0
      BY <2>3, <2>4, <3>1, <3>2
    <3>4. CameBack(B)'
      BY <2>3, <2>4, <3>1, <3>3, HeadStays
    <3>5. NoTimeLeft'
      BY <2>3, <3>1, States
    <3> QED
      BY <3>4, <3>5
  <2>11. CASE MoveDown
    <3>1. PICK p : p = NextDown
      OBVIOUS
    <3>2. /\ p \in Loaded /\ p \in Processes /\ pc # "start" /\ pc' # "start"
          /\ state' = [state EXCEPT ![p] = RUNNING]
          /\ UNCHANGED <<memorySize, head, burstTime>>
      BY <2>2, <2>11, <3>1, MoveDownIs, Numbers DEF MoveDown, store
    <3>3. \A q \in Processes : state'[q] = IF q = p THEN RUNNING ELSE state[q]
      BY <2>2, <3>2 DEF SwapTypeOK
    <3>4. B \subseteq Loaded'
      BY <2>4, <3>2, <3>3, States DEF Loaded, InMemory
    <3>5. CameBack(B)'
      BY <2>3, <2>4, <3>2, <3>3, <3>4, HeadStays
    <3>6. NoTimeLeft'
      BY <2>3, <3>2, <3>3, States
    <3> QED
      BY <3>5, <3>6
  <2> QED
    BY <1>2, <2>6, <2>7, <2>8, <2>9, <2>10, <2>11 DEF SwapNext
<1> QED
  BY <1>1, <1>2

\* Who has come back, and what that says of the head of the ring.
THEOREM AgeInvariance == SwapSpec => []AgeInv
BY AgeStarts, AgeKeeps, SwapInvariance, PTL DEF SwapSpec

\* The head of the ring never comes round to the start, as long as only processes
\* are drawn that are not in memory.
THEOREM HeadGoesOnce == SwapSpec => HeadNeverTurns
<1>1. OrderlyInv /\ AgeInv /\ SwapNext =>
        (Orderly' => head' >= head /\ head' <= MaxMemory - RootSize)
  <2> SUFFICES ASSUME SwapInv, AgeInv, SwapNext, pc' # "astray",
                      redrawn = 0, redrawn' = redrawn
               PROVE  head' >= head /\ head' <= MaxMemory - RootSize
    BY OrderlyStep DEF Orderly, Intact
  <2>1. pc # "astray"
    BY DEF SwapNext, SwapStart, Start, Draw, PutInHole, NoHoleFits, Walk,
       WalkOver, WalkAstray, SwapOut, Fill, decrementBurst, Compact, MoveDown,
       MoveAstray, Compacted, CompactThrows
  <2>2. PICK B \in SUBSET Processes : CameBack(B)
    BY <2>1 DEF AgeInv, Orderly, Intact
  <2>3. head \in Nat /\ head <= MaxMemory - RootSize
    <3>1. CASE pc = "start"
      <4>1. Loaded = {}
        BY <3>1 DEF Loaded, InMemory
      <4>2. B = {}
        BY <2>2, <4>1 DEF CameBack
      <4>3. head = 0
        BY <2>2, <4>2, SumEmpty DEF CameBack
      <4> QED
        BY <4>3, Constants
    <3>2. CASE pc # "start"
      <4>1. /\ Sum(memorySize, B) + RootSize <= Cardinality(UsedCells)
            /\ Cardinality(UsedCells) \in Nat /\ Cardinality(UsedCells) <= MaxMemory
            /\ Sum(memorySize, B) \in Nat
        BY <2>1, <2>2, <3>2, RoomLeft
      <4> QED
        BY <2>2, <4>1, Constants DEF CameBack
    <3> QED
      BY <3>1, <3>2
  <2>4. CASE (PutInHole \/ Fill) /\ proc = NULL
    BY <2>2, <2>4, HeadMoves
  <2>5. CASE (PutInHole \/ Fill) /\ proc # NULL
    <3>1. head' = head
      BY <2>5, Puts, PutIs DEF store
    <3> QED
      BY <2>3, <3>1
  <2>6. CASE ~(PutInHole \/ Fill)
    <3>1. head' = head
      BY <2>6, SwapOutIs DEF SwapNext, SwapStart, Draw, NoHoleFits, Walk,
         WalkOver, WalkAstray, decrementBurst, Compact, MoveDown, MoveAstray,
         Compacted, CompactThrows, store
    <3> QED
      BY <2>3, <3>1
  <2> QED
    BY <2>4, <2>5, <2>6
<1>2. OrderlyInv /\ AgeInv /\ [SwapNext]_swapVars =>
        [Orderly' => head' >= head /\ head' <= MaxMemory - RootSize]_swapVars
  BY <1>1
<1> QED
  BY <1>2, SwapInvariance, AgeInvariance, PTL DEF SwapSpec, HeadNeverTurns

-----------------------------------------------------------------------------
(***************************************************************************)
(* The refinement of SwapStore.  StoreQueue takes for its k-th process the *)
(* one with k - 1 others between the head and itself.  There is exactly    *)
(* one, since no two begin at the same distance; who comes has all others  *)
(* before it, and when the one at the head goes all others have one less.  *)
(***************************************************************************)
\* The stored processes between the head and p.
Ahead(p) == {q \in Stored : Behind(q) < Behind(p)}
Rank(p)  == Cardinality(Ahead(p))

\* No two of the stored processes begin at the same distance.
Ordered ==
  /\ IsFiniteSet(Stored)
  /\ \A p \in Stored : Behind(p) \in Nat
  /\ \A p, q \in Stored : Behind(p) = Behind(q) => p = q

\* StoreQueue has each stored process at its place.
Queued ==
  /\ Cardinality(Stored) \in Nat
  /\ StoreQueue \in Seq(Stored) /\ Len(StoreQueue) = Cardinality(Stored)
  /\ \A k \in 1 .. Cardinality(Stored) :
       StoreQueue[k] \in Stored /\ Rank(StoreQueue[k]) = k - 1
  /\ \A p \in Stored :
       Rank(p) + 1 \in 1 .. Cardinality(Stored) /\ StoreQueue[Rank(p) + 1] = p

\* The ranks of n processes are 0 .. n - 1, each of one of them.
LEMMA RanksAre ==
  ASSUME Ordered
  PROVE  /\ Cardinality(Stored) \in Nat
         /\ \A p \in Stored : Rank(p) \in 0 .. Cardinality(Stored) - 1
         /\ \A p, q \in Stored : Rank(p) = Rank(q) => p = q
         /\ \A k \in 0 .. Cardinality(Stored) - 1 : \E p \in Stored : Rank(p) = k
<1>1. IsFiniteSet(Stored) /\ Cardinality(Stored) \in Nat
  BY FS_CardinalityType DEF Ordered
<1>2. \A p \in Stored : IsFiniteSet(Ahead(p)) /\ Rank(p) \in Nat
  BY <1>1, FS_Subset, FS_CardinalityType DEF Ahead, Rank
<1>3. ASSUME NEW p \in Stored
      PROVE  Rank(p) \in 0 .. Cardinality(Stored) - 1
  <2>1. p \notin Ahead(p) /\ Ahead(p) \in SUBSET Stored
    BY DEF Ahead, Ordered
  <2>2. Rank(p) <= Cardinality(Stored) /\ Rank(p) # Cardinality(Stored)
    BY <1>1, <2>1, FS_Subset DEF Rank
  <2> QED
    BY <1>1, <1>2, <2>2
<1>4. ASSUME NEW p \in Stored, NEW q \in Stored, Behind(p) < Behind(q)
      PROVE  Rank(p) < Rank(q)
  <2>1. Ahead(p) \in SUBSET Ahead(q) /\ p \in Ahead(q) /\ p \notin Ahead(p)
    BY <1>4 DEF Ahead, Ordered
  <2>2. Rank(p) <= Rank(q) /\ Rank(p) # Rank(q)
    BY <1>2, <2>1, FS_Subset DEF Rank
  <2> QED
    BY <1>2, <2>2
<1>5. ASSUME NEW p \in Stored, NEW q \in Stored, Rank(p) = Rank(q)
      PROVE  p = q
  <2>1. ~(Behind(p) < Behind(q)) /\ ~(Behind(q) < Behind(p))
    BY <1>2, <1>4, <1>5
  <2> QED
    BY <2>1 DEF Ordered
<1>6. ASSUME NEW k \in 0 .. Cardinality(Stored) - 1
      PROVE  \E p \in Stored : Rank(p) = k
  <2> DEFINE T == 0 .. Cardinality(Stored) - 1
             f == [p \in Stored |-> Rank(p)]
  <2>1. f \in [Stored -> T] /\ \A p, q \in Stored : f[p] = f[q] => p = q
    BY <1>3, <1>5
  <2>2. f \in Injection(Stored, T)
    BY <2>1 DEF Injection, IsInjective
  <2>3. IsFiniteSet(T) /\ Cardinality(T) = Cardinality(Stored)
    BY <1>1, FS_Interval
  <2>4. f \in Surjection(Stored, T)
    BY <2>2, <2>3, FS_Injection
  <2>5. k \in T /\ \A t \in T : \E p \in Stored : f[p] = t
    BY <2>4 DEF Surjection
  <2> QED
    BY <2>5
<1> QED
  BY <1>1, <1>3, <1>5, <1>6

LEMMA QueueIs == Ordered => Queued
<1> SUFFICES ASSUME Ordered PROVE Queued
  OBVIOUS
<1> DEFINE c == Cardinality(Stored)
           s(k) == CHOOSE p \in Stored : Rank(p) = k - 1
<1>1. /\ c \in Nat /\ \A p \in Stored : Rank(p) \in 0 .. c - 1
      /\ \A p, q \in Stored : Rank(p) = Rank(q) => p = q
      /\ \A k \in 0 .. c - 1 : \E p \in Stored : Rank(p) = k
  BY RanksAre
<1>2. StoreQueue = [k \in 1 .. c |-> s(k)]
  BY DEF StoreQueue, Rank, Ahead
<1> HIDE DEF c
<1>3. ASSUME NEW k \in 1 .. c
      PROVE  s(k) \in Stored /\ Rank(s(k)) = k - 1
  <2>1. k - 1 \in 0 .. c - 1
    BY <1>1
  <2>2. \E p \in Stored : Rank(p) = k - 1
    BY <1>1, <2>1
  <2> QED
    BY <2>2
<1> HIDE DEF s
<1>4. StoreQueue \in Seq(Stored)
  BY <1>1, <1>2, <1>3, IsASeq
<1>5. Len(StoreQueue) = c
  BY <1>1, <1>2
<1>6. \A k \in 1 .. c : StoreQueue[k] \in Stored /\ Rank(StoreQueue[k]) = k - 1
  BY <1>2, <1>3
<1>7. ASSUME NEW p \in Stored
      PROVE  Rank(p) + 1 \in 1 .. c /\ StoreQueue[Rank(p) + 1] = p
  <2>1. Rank(p) + 1 \in 1 .. c /\ Rank(p) + 1 - 1 = Rank(p)
    BY <1>1
  <2> QED
    BY <1>1, <1>6, <2>1
<1> QED
  BY <1>1, <1>4, <1>5, <1>6, <1>7 DEF Queued, c

\* Nobody moves in the ring.
LEMMA QueueKept ==
  ASSUME Queued, Queued', Stored' = Stored,
         \A p \in Stored : Behind(p)' = Behind(p)
  PROVE  StoreQueue' = StoreQueue
<1>1. ASSUME NEW p \in Stored PROVE Rank(p)' = Rank(p)
  <2>1. Ahead(p)' = Ahead(p)
    BY DEF Ahead
  <2> QED
    BY <2>1 DEF Rank
<1>2. /\ StoreQueue \in Seq(Stored) /\ StoreQueue' \in Seq(Stored)
      /\ Len(StoreQueue) = Cardinality(Stored)
      /\ Len(StoreQueue') = Cardinality(Stored)
  BY DEF Queued
<1>3. ASSUME NEW k \in 1 .. Len(StoreQueue)
      PROVE  StoreQueue[k] = StoreQueue'[k]
  <2>1. PICK p : p = StoreQueue[k]
    OBVIOUS
  <2>2. p \in Stored /\ Rank(p) = k - 1
    BY <1>2, <2>1 DEF Queued
  <2>3. StoreQueue'[Rank(p)' + 1] = p
    BY <2>2 DEF Queued
  <2>4. k \in Int
    OBVIOUS
  <2> QED
    BY <1>1, <2>1, <2>2, <2>3, <2>4
<1> QED
  BY <1>2, <1>3, SeqEqual

\* A process comes behind all others.
LEMMA QueueGrows ==
  ASSUME Queued, Queued', Ordered, Ordered', NEW p, p \notin Stored,
         Stored' = Stored \cup {p},
         \A q \in Stored : Behind(q)' = Behind(q) /\ Behind(q) < Behind(p)'
  PROVE  StoreQueue' = Append(StoreQueue, p)
<1>0. Behind(p)' \in Nat /\ \A q \in Stored : Behind(q) \in Nat
  BY DEF Ordered
<1>1. ASSUME NEW q \in Stored PROVE Rank(q)' = Rank(q)
  <2>1. Ahead(q)' = Ahead(q)
    BY <1>0 DEF Ahead
  <2> QED
    BY <2>1 DEF Rank
<1>2. Rank(p)' = Cardinality(Stored)
  <2>1. Ahead(p)' = Stored
    BY <1>0 DEF Ahead
  <2> QED
    BY <2>1 DEF Rank
<1> DEFINE c == Cardinality(Stored)
           t == Append(StoreQueue, p)
<1>3. c \in Nat /\ Cardinality(Stored') = c + 1
  BY FS_AddElement DEF Queued, Ordered
<1>4. StoreQueue \in Seq(Stored) /\ Len(StoreQueue) = c
      /\ StoreQueue' \in Seq(Stored') /\ Len(StoreQueue') = c + 1
  BY <1>3 DEF Queued
<1>5. StoreQueue \in Seq(Stored') /\ p \in Stored'
  BY <1>4, SeqMonotonic
<1>6. t \in Seq(Stored') /\ Len(t) = c + 1 /\ t[c + 1] = p
      /\ \A k \in 1 .. c : t[k] = StoreQueue[k]
  BY <1>3, <1>4, <1>5
<1>7. ASSUME NEW k \in 1 .. c + 1 PROVE StoreQueue'[k] = t[k]
  <2>1. CASE k = c + 1
    <3>1. StoreQueue'[Rank(p)' + 1] = p
      BY DEF Queued
    <3> QED
      BY <1>2, <1>6, <2>1, <3>1
  <2>2. CASE k # c + 1
    <3>1. k \in 1 .. c /\ k \in Int
      BY <1>3, <2>2
    <3>2. PICK q : q = StoreQueue[k]
      OBVIOUS
    <3>3. q \in Stored /\ Rank(q) = k - 1
      BY <3>1, <3>2 DEF Queued
    <3>4. StoreQueue'[Rank(q)' + 1] = q
      BY <3>3 DEF Queued
    <3> QED
      BY <1>1, <1>6, <3>1, <3>2, <3>3, <3>4
  <2> QED
    BY <2>1, <2>2
<1> HIDE DEF t
<1>8. StoreQueue' = t
  BY <1>4, <1>6, <1>7, SeqEqual
<1> QED
  BY <1>8 DEF t

\* The process at the head goes, and all others move up.
LEMMA QueueShrinks ==
  ASSUME Queued, Queued', Ordered, NEW p \in Stored, Behind(p) = 0,
         Stored' = Stored \ {p}, NEW z \in Nat,
         \A q \in Stored \ {p} : Behind(q)' = Behind(q) - z
  PROVE  /\ StoreQueue # <<>> /\ Head(StoreQueue) = p
         /\ StoreQueue' = Tail(StoreQueue)
<1>0. IsFiniteSet(Stored) /\ \A q \in Stored : Behind(q) \in Nat
  BY DEF Ordered
<1>1. ASSUME NEW q \in Stored \ {p} PROVE Rank(q) = Rank(q)' + 1 /\ Rank(q)' \in Nat
  <2>1. Behind(q) # 0
    BY DEF Ordered
  <2>2. Ahead(q)' = Ahead(q) \ {p} /\ p \in Ahead(q)
    BY <1>0, <2>1 DEF Ahead
  <2>3. IsFiniteSet(Ahead(q))
    BY <1>0, FS_Subset DEF Ahead
  <2>4. Cardinality(Ahead(q) \ {p}) = Cardinality(Ahead(q)) - 1
        /\ Cardinality(Ahead(q)) \in Nat /\ Cardinality(Ahead(q) \ {p}) \in Nat
    BY <2>2, <2>3, FS_RemoveElement, FS_CardinalityType
  <2> QED
    BY <2>2, <2>4 DEF Rank
<1>2. Rank(p) = 0
  <2>1. Ahead(p) = {}
    BY <1>0 DEF Ahead
  <2> QED
    BY <2>1, FS_EmptySet DEF Rank
<1> DEFINE c == Cardinality(Stored)
           t == Tail(StoreQueue)
<1>3. c \in Nat /\ Cardinality(Stored') = c - 1 /\ 1 \in 1 .. c /\ StoreQueue[1] = p
  <2>1. c \in Nat /\ Rank(p) + 1 \in 1 .. c /\ StoreQueue[Rank(p) + 1] = p
    BY DEF Queued
  <2>2. Cardinality(Stored') = c - 1
    BY <1>0, FS_RemoveElement
  <2>3. Rank(p) + 1 = 1
    BY <1>2
  <2> QED
    BY <2>1, <2>2, <2>3
<1>4. StoreQueue \in Seq(Stored) /\ Len(StoreQueue) = c
      /\ StoreQueue' \in Seq(Stored') /\ Len(StoreQueue') = c - 1
  BY <1>3 DEF Queued
<1>5. StoreQueue # <<>> /\ Head(StoreQueue) = p
  BY <1>3, <1>4
<1>6. /\ t \in Seq(Stored) /\ Len(t) = c - 1
      /\ \A k \in 1 .. c - 1 : t[k] = StoreQueue[k + 1]
  BY <1>4, <1>5, HeadTailProperties
<1>7. StoreQueue' \in Seq(Stored)
  BY <1>4, SeqMonotonic
<1>8. ASSUME NEW k \in 1 .. c - 1 PROVE StoreQueue'[k] = t[k]
  <2>1. k + 1 \in 1 .. c /\ k + 1 # 1 /\ k \in Int
    BY <1>3
  <2>2. PICK q : q = StoreQueue[k + 1]
    OBVIOUS
  <2>3. q \in Stored /\ Rank(q) = k
    BY <2>1, <2>2 DEF Queued
  <2>4. q \in Stored \ {p}
    BY <1>2, <2>1, <2>3
  <2>5. StoreQueue'[Rank(q)' + 1] = q /\ Rank(q)' + 1 = k
    BY <1>1, <2>3, <2>4 DEF Queued
  <2> QED
    BY <1>6, <2>2, <2>5
<1> HIDE DEF t
<1>9. StoreQueue' = t
  BY <1>4, <1>6, <1>7, <1>8, SeqEqual
<1> QED
  BY <1>5, <1>9 DEF t

\* While nothing is astray the queue is in order.
LEMMA InvQueues == SwapInv /\ Intact => Ordered /\ Queued
<1> SUFFICES ASSUME SwapInv, Intact PROVE Ordered
  BY QueueIs
<1>1. SwapTypeOK /\ RingInv
  BY Stays DEF Intact
<1>2. PICK n \in 0 .. MaxMemory : RingHolds(n)
  BY <1>1 DEF RingInv
<1>3. IsFiniteSet(Stored) /\ \A p \in Stored : p \in Processes
  BY FiniteProcesses DEF Stored
<1>4. \A p \in Stored : /\ Behind(p) \in Nat /\ Behind(p) \in Distances
                        /\ Inside(p, Behind(p))
  BY <1>1, <1>3, BehindIs
<1>5. \A p \in Stored : At(Behind(p)) = p
  BY <1>2, <1>3, <1>4 DEF RingHolds
<1> QED
  BY <1>3, <1>4, <1>5 DEF Ordered

\* The processes in the queue are the stored ones.
LEMMA QueueHolds ==
  ASSUME Queued
  PROVE  Swapping!Stored = Stored
<1>1. DOMAIN StoreQueue = 1 .. Cardinality(Stored)
  BY LenProperties DEF Queued
<1>2. \A k \in 1 .. Cardinality(Stored) : StoreQueue[k] \in Stored
  BY DEF Queued
<1>3. \A p \in Stored : \E k \in 1 .. Cardinality(Stored) : StoreQueue[k] = p
  BY DEF Queued
<1> QED
  BY <1>1, <1>2, <1>3 DEF Swapping!Stored

\* A step in which nobody comes or goes is none of the store.
LEMMA QueueStays ==
  ASSUME Queued, Queued', Orderly, Orderly', Loaded' = Loaded, Stored' = Stored,
         head' = head, \A p \in Stored : memStart'[p] = memStart[p]
  PROVE  UNCHANGED Swapping!storeVars
<1>1. \A p \in Stored : Behind(p)' = Behind(p)
  BY DEF Behind, Ring
<1>2. StoreQueue' = StoreQueue
  BY <1>1, QueueKept
<1> QED
  BY <1>2 DEF Swapping!storeVars

\* Out: the process swapped out is the last of the queue.
LEMMA SwapOutStores ==
  ASSUME SwapInv, Ordered, Queued, Ordered', Queued', SwapOut, pc' # "astray",
         Orderly' = Orderly
  PROVE  Swapping!Out
<1>1. PICK p : p = memory[i]
  OBVIOUS
<1>2. SwapTypeOK /\ RingInv /\ pc # "astray"
  BY Stays DEF SwapOut
<1>3. p \in Loaded /\ p \in Processes /\ p \notin Stored /\ head' = head
  BY <1>1, <1>2, SwapOutIs DEF Loaded, InMemory
<1>4. /\ Loaded' = Loaded \ {p} /\ Stored' = Stored \cup {p}
      /\ memStart' = [memStart EXCEPT ![p] = tail] /\ ~Overruns(memorySize[p])
  BY <1>1, SwapOutMoves
<1>5. PICK n \in 0 .. MaxMemory : RingHolds(n)
  BY <1>2 DEF RingInv
<1>6. n \in Distances /\ tail = Ring(head + n)
  BY <1>2, <1>3, <1>4, <1>5, HeadUsed, RoomBehind DEF RingHolds
<1>7. Behind(p)' = n /\ \A q \in Processes \ {p} : Behind(q)' = Behind(q)
  BY <1>2, <1>3, <1>4, <1>6, BehindComes
<1>8. ASSUME NEW q \in Stored
      PROVE  Behind(q)' = Behind(q) /\ Behind(q) < Behind(p)'
  <2>1. q \in Processes /\ q # p
    BY <1>3 DEF Stored
  <2>2. Behind(q) + memorySize[q] <= n
    BY <1>5 DEF RingHolds
  <2>3. Behind(q) \in Nat /\ memorySize[q] \in Nat /\ memorySize[q] >= 1 /\ n \in Nat
    BY <1>2, <2>1, BehindIs, Numbers
  <2> QED
    BY <1>7, <2>1, <2>2, <2>3
<1>9. StoreQueue' = Append(StoreQueue, p)
  BY <1>3, <1>4, <1>8, QueueGrows
<1> QED
  BY <1>3, <1>4, <1>9 DEF Swapping!Out

\* Back or Load: a process comes to memory.
LEMMA PutLoads ==
  ASSUME SwapInv, Ordered, Queued, Queued', PutInHole \/ Fill,
         Orderly' = Orderly
  PROVE  Swapping!Back \/ Swapping!Load
<1>1. /\ SwapTypeOK /\ RingInv /\ pc \in {"fit", "fill"} /\ pc' = "quantum"
  BY Stays, Puts
<1>2. PICK h \in Nat : h # 0 /\ Put(h)
  BY Puts
<1>3. /\ memStart' = [memStart EXCEPT ![Wanted] = h]
      /\ Loaded' = Loaded \cup {Wanted} /\ Stored' = Stored \ {Wanted}
      /\ h + memorySize[Wanted] <= MaxMemory
      /\ proc = NULL => PutStored(h)
      /\ proc # NULL => UNCHANGED <<store, numProcess>>
  BY <1>1, <1>2, PutIs
<1>4. /\ Wanted \in Processes /\ Wanted \notin Loaded
      /\ proc = NULL => /\ Wanted = FromStore /\ Wanted \in Stored
                        /\ Behind(Wanted) = 0
      /\ proc # NULL => Wanted \notin Stored
  BY <1>1, WantedIs
<1>6. PICK p : p = Wanted
  OBVIOUS
<1>7. CASE proc = NULL
  <2>1. head' = HeadAfter(memorySize[p])
    BY <1>3, <1>4, <1>6, <1>7 DEF PutStored
  <2>2. memorySize[p] \in Nat /\ memorySize[p] < MaxMemory
    BY <1>1, <1>2, <1>3, <1>4, <1>6, Numbers
  <2>3. PICK n \in 0 .. MaxMemory : RingHolds(n)
    BY <1>1 DEF RingInv
  <2>4. p \in Stored /\ Behind(p) = 0 /\ Stored' = Stored \ {p}
        /\ memStart' = [memStart EXCEPT ![p] = h]
    BY <1>3, <1>4, <1>6, <1>7
  <2>5. \A q \in Stored \ {p} : Behind(q)' = Behind(q) - memorySize[p]
    BY <1>1, <2>1, <2>2, <2>3, <2>4, BehindGoes
  <2>6. /\ StoreQueue # <<>> /\ Head(StoreQueue) = p
        /\ StoreQueue' = Tail(StoreQueue)
    <3>1. PICK z \in Nat : z = memorySize[p]
      BY <2>2
    <3>2. \A q \in Stored \ {p} : Behind(q)' = Behind(q) - z
      BY <2>5, <3>1
    <3> QED
      BY <2>4, <3>2, QueueShrinks
  <2> QED
    BY <1>3, <1>6, <2>6 DEF Swapping!Back
<1>8. CASE proc # NULL
  <2>1. /\ Stored' = Stored /\ p \in Processes \ (Loaded \cup Stored)
        /\ Loaded' = Loaded \cup {p} /\ head' = head
    BY <1>3, <1>4, <1>6, <1>8 DEF store
  <2>2. \A q \in Stored : memStart'[q] = memStart[q]
    BY <1>1, <1>3, <1>6, <2>1 DEF SwapTypeOK, Stored
  <2>3. \A q \in Stored : Behind(q)' = Behind(q)
    BY <2>1, <2>2 DEF Behind, Ring
  <2>4. StoreQueue' = StoreQueue
    BY <2>1, <2>3, QueueKept
  <2> QED
    BY <2>1, <2>4, QueueHolds DEF Swapping!Load
<1> QED
  BY <1>7, <1>8

\* The root process is the first to be loaded.
LEMMA StartLoads ==
  ASSUME SwapInv, Queued, Queued', SwapStart, Orderly' = Orderly
  PROVE  Swapping!Load
<1>1. /\ SwapTypeOK /\ RootHolds /\ pc = "start" /\ pc' = "quantum"
      /\ Loaded = {} /\ Loaded' = {0} /\ Stored' = Stored
  BY Stays, StartKeeps DEF SwapStart, Start
<1>2. head' = head /\ memStart' = [memStart EXCEPT ![0] = 0]
  BY DEF SwapStart, Start, PutInMemory, store
<1>3. 0 \in Processes /\ 0 \notin Stored
  BY <1>1, Constants, States DEF RootHolds, Stored
<1>4. \A q \in Stored : memStart'[q] = memStart[q]
  BY <1>1, <1>2, <1>3 DEF SwapTypeOK, Stored
<1>5. \A q \in Stored : Behind(q)' = Behind(q)
  BY <1>2, <1>4 DEF Behind, Ring
<1>6. StoreQueue' = StoreQueue
  BY <1>1, <1>5, QueueKept
<1> QED
  BY <1>1, <1>3, <1>6, QueueHolds DEF Swapping!Load

\* The store is what it was when no variable changes, astray or not.
LEMMA StoreStutters ==
  ASSUME UNCHANGED swapVars
  PROVE  UNCHANGED Swapping!storeVars
<1> DEFINE StoredIn(st) == {p \in Processes : st[p] = BACK_STORE}
           Far(ms, h, p) == Ring(ms[p] - h)
           Queue(st, ms, h) ==
             [k \in 1 .. Cardinality(StoredIn(st)) |->
                CHOOSE p \in StoredIn(st) :
                  Cardinality({q \in StoredIn(st) : Far(ms, h, q) < Far(ms, h, p)})
                    = k - 1]
<1>1. state' = state /\ memStart' = memStart /\ head' = head /\ pc' = pc
      /\ redrawn' = redrawn
  BY DEF swapVars, vars, table, store
<1>2. StoreQueue = Queue(state, memStart, head)
  BY DEF StoreQueue, Stored, Behind
<1>3. StoreQueue' = Queue(state', memStart', head')
  BY DEF StoreQueue, Stored, Behind, Ring
<1> HIDE DEF Queue
<1>4. StoreQueue' = StoreQueue
  BY <1>1, <1>2, <1>3
<1> QED
  BY <1>1, <1>4 DEF Swapping!storeVars, Loaded, InMemory, Orderly, Intact

LEMMA StoreStarts == SwapInit => Swapping!Init
<1> SUFFICES ASSUME SwapInit PROVE Swapping!Init
  OBVIOUS
<1>1. pc = "start" /\ state = [p \in Processes |-> IF p = 0 THEN RUNNING ELSE WAITING]
  BY DEF SwapInit, Init, initProcesses
<1>2. Stored = {} /\ Loaded = {} /\ Intact /\ Orderly
  BY <1>1, States DEF Stored, Loaded, InMemory, Intact, Orderly, SwapInit
<1>3. SwapInv
  BY SwapStarts
<1>4. Queued
  BY <1>2, <1>3, InvQueues
<1>5. StoreQueue = <<>>
  <2>1. Cardinality(Stored) = 0
    BY <1>2, FS_EmptySet
  <2>2. StoreQueue \in Seq(Stored) /\ Len(StoreQueue) = 0
    BY <1>4, <2>1 DEF Queued
  <2> QED
    BY <2>2, EmptySeq
<1> QED
  BY <1>2, <1>5 DEF Swapping!Init

\* Every step is one of the store, or none.
LEMMA StoreNext ==
  OrderlyInv /\ OrderlyInv' /\ [SwapNext]_swapVars
    => [Swapping!Next]_(Swapping!storeVars)
<1>1. SwapInv' /\ Intact' => Ordered' /\ Queued'
  BY InvQueues, PTL
<1> SUFFICES ASSUME OrderlyInv, OrderlyInv', [SwapNext]_swapVars
             PROVE  [Swapping!Next]_(Swapping!storeVars)
  OBVIOUS
<1>2. CASE UNCHANGED swapVars
  BY <1>2, StoreStutters
<1>3. CASE SwapNext /\ ~Orderly'
  BY <1>3 DEF Swapping!Next, Swapping!Broken
<1>4. CASE SwapNext /\ Orderly'
  <2>1. /\ SwapInv /\ SwapInv' /\ redrawn = 0 /\ redrawn' = redrawn
        /\ pc' # "astray"
    BY <1>4, OrderlyStep DEF OrderlyInv, Orderly, Intact
  <2>2. pc # "astray" /\ Intact /\ Orderly /\ Orderly' = Orderly
    BY <1>4, <2>1 DEF SwapNext, SwapStart, Start, Draw, PutInHole, NoHoleFits,
       Walk, WalkOver, WalkAstray, SwapOut, Fill, decrementBurst, Compact,
       MoveDown, MoveAstray, Compacted, CompactThrows, Intact, Orderly
  <2>3. Ordered /\ Queued /\ Ordered' /\ Queued'
    BY <1>1, <2>1, <2>2, InvQueues DEF Intact
  <2>4. CASE SwapStart
    BY <2>1, <2>2, <2>3, <2>4, StartLoads DEF Swapping!Next
  <2>5. CASE PutInHole \/ Fill
    BY <2>1, <2>2, <2>3, <2>5, PutLoads DEF Swapping!Next
  <2>6. CASE SwapOut
    BY <2>1, <2>2, <2>3, <2>6, SwapOutStores DEF Swapping!Next
  <2>7. CASE decrementBurst
    <3>1. /\ Loaded' = Loaded /\ Stored' = Stored
          /\ head' = head /\ memStart' = memStart
      BY <2>1, <2>7, BurstIs DEF store, SwapInv
    <3> QED
      BY <2>1, <2>2, <2>3, <3>1, QueueStays
  <2>8. CASE MoveDown
    BY <2>1, <2>2, <2>3, <2>8, MoveStays, QueueStays
  <2>9. CASE \/ Draw \/ NoHoleFits \/ Walk \/ WalkOver \/ WalkAstray
             \/ Compact \/ MoveAstray \/ Compacted \/ CompactThrows
    <3>1. UNCHANGED <<pMap, store>> /\ pc # "start" /\ pc' # "start"
      BY <2>1, <2>9, LooksKeep
    <3>2. /\ Loaded' = Loaded /\ Stored' = Stored
          /\ head' = head /\ memStart' = memStart
      BY <3>1 DEF pMap, table, store, Loaded, InMemory, Stored
    <3> QED
      BY <2>1, <2>2, <2>3, <3>2, QueueStays
  <2> QED
    BY <1>4, <2>4, <2>5, <2>6, <2>7, <2>8, <2>9 DEF SwapNext
<1> QED
  BY <1>2, <1>3, <1>4

\* The cells, the ring and the table are a store: a process is loaded, stored
\* or not started, and the first that putInBackStore() stored is the first that
\* putInMemory() loads, until the ring or the walk goes astray or a process in
\* memory is drawn.
THEOREM IsStore == SwapSpec => ImplementsStore
BY StoreStarts, StoreNext, SwapInvariance, PTL
   DEF SwapSpec, ImplementsStore, Swapping!Spec
=============================================================================
