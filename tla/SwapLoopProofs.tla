--------------------------- MODULE SwapLoopProofs ---------------------------
(***************************************************************************)
(* Theorems about SwapLoop, for a memory, processes and sizes of any       *)
(* number.                                                                 *)
(*                                                                         *)
(* Everything follows from one fact: the used cells are the first memUsed  *)
(* cells.  Then there is at most one hole, it starts at memUsed and is     *)
(* counted to the end of memory and not beyond, because the root process   *)
(* never leaves cell 0; so what fits in it fits in memory, overwrites      *)
(* nothing, and leaves a prefix.                                           *)
(***************************************************************************)
EXTENDS SwapLoop, TLAPS

\* The root process is in memory as soon as there is a quantum.
RootLoaded == pc # "start" => memUsed >= 1

\* The inductive invariant: memory has room for what is used, and the root
\* process is the first to be put there.
IInv == TypeOK /\ UsedIsPrefix /\ RootLoaded /\ memUsed <= MaxMemory
          /\ (pc = "start" => memUsed = 0 /\ memorySize[0] = RootSize)

-----------------------------------------------------------------------------
\* What the assumptions say of the constants, in one place.
LEMMA Constants ==
  /\ MaxMemory \in Nat /\ MaxMemory > FieldCount /\ FieldCount = 6
  /\ RootSize \in Nat /\ RootSize >= 1 /\ RootSize <= MaxMemory
  /\ 0 \in Processes /\ 0 \in Cells /\ FREE = -1
  /\ Processes \subseteq Nat /\ Cells \subseteq Nat
BY MemoryAssumption, LoopAssumption DEF FieldCount, Processes, Cells, FREE

\* The least element of a set of numbers.
LEMMA MinIs ==
  ASSUME NEW S, S \subseteq Int, NEW m \in S, \A y \in S : m <= y
  PROVE  Min(S) = m
<1>1. \E x \in S : \A y \in S : x <= y
  OBVIOUS
<1>2. Min(S) \in S /\ \A y \in S : Min(S) <= y
  BY <1>1 DEF Min
<1>3. m <= Min(S) /\ Min(S) <= m /\ Min(S) \in Int /\ m \in Int
  BY <1>2
<1> QED
  BY <1>3

\* The only hole begins where the used cells end.
LEMMA OneHole ==
  ASSUME IInv, pc # "start"
  PROVE  HoleStarts = IF memUsed < MaxMemory THEN {memUsed} ELSE {}
<1>1. memUsed \in Nat /\ memUsed >= 1 /\ memUsed <= MaxMemory
  BY DEF IInv, TypeOK, RootLoaded
<1>2. \A a \in Cells : Used(a) <=> a < memUsed
  BY DEF IInv, UsedIsPrefix
<1>3. \A a \in Cells : a # 0 => a - 1 \in Cells
  BY Constants DEF Cells
<1>4. \A a \in Cells : (~Used(a) /\ (a = 0 \/ Used(a - 1))) <=> a = memUsed
  BY <1>1, <1>2, <1>3 DEF Cells
<1>5. memUsed < MaxMemory => memUsed \in Cells
  BY <1>1, Constants DEF Cells
<1>6. ~(memUsed < MaxMemory) => memUsed \notin Cells
  BY <1>1, Constants DEF Cells
<1> QED
  BY <1>4, <1>5, <1>6 DEF HoleStarts

\* It is counted to the end of memory, where cell 0 stops the count.
LEMMA HoleReachesEnd ==
  ASSUME IInv, pc # "start", memUsed < MaxMemory
  PROVE  HoleSize(memUsed) = MaxMemory - memUsed
<1>1. memUsed \in Nat /\ memUsed >= 1 /\ MaxMemory \in Nat
  BY Constants DEF IInv, TypeOK, RootLoaded
<1>2. \A a \in Cells : memory[a] # FREE <=> a < memUsed
  BY Constants DEF IInv, UsedIsPrefix, Used, Wrap, Cells
<1> DEFINE D == {d \in 1 .. MaxMemory : Used(memUsed + d)}
<1>3. MaxMemory - memUsed \in D
  <2>1. Wrap(memUsed + (MaxMemory - memUsed)) = 0
    BY <1>1 DEF Wrap
  <2>2. Used(memUsed + (MaxMemory - memUsed))
    BY <1>1, <1>2, <2>1, Constants DEF Used
  <2> QED
    BY <1>1, <2>2
<1>4. \A d \in D : MaxMemory - memUsed <= d
  <2> SUFFICES ASSUME NEW d \in 1 .. MaxMemory, Used(memUsed + d),
                      d < MaxMemory - memUsed
               PROVE  FALSE
    BY <1>1
  <2>1. memUsed + d \in Cells /\ Wrap(memUsed + d) = memUsed + d
    BY <1>1 DEF Cells, Wrap
  <2> QED
    BY <1>1, <1>2, <2>1 DEF Used
<1>5. D \subseteq Int
  BY <1>1
<1> HIDE DEF D
<1>6. Min(D) = MaxMemory - memUsed
  BY <1>3, <1>4, <1>5, MinIs
<1> QED
  BY <1>6 DEF D, HoleSize

\* So a process fits only at memUsed, and only inside memory.
LEMMA FitsAtEnd ==
  ASSUME IInv, pc # "start", NEW p \in Processes, Fits(p) # {}
  PROVE  /\ Min(Fits(p)) = memUsed
         /\ memUsed + memorySize[p] <= MaxMemory
<1>1. memUsed \in Nat /\ MaxMemory \in Nat /\ memorySize[p] \in Nat
  BY Constants DEF IInv, TypeOK
<1>2. memUsed < MaxMemory /\ HoleStarts = {memUsed}
  BY OneHole DEF Fits
<1>3. HoleSize(memUsed) = MaxMemory - memUsed
  BY <1>2, HoleReachesEnd
<1>4. Fits(p) = {memUsed} /\ MaxMemory - memUsed >= memorySize[p]
  BY <1>2, <1>3 DEF Fits
<1>5. Min(Fits(p)) = memUsed
  BY <1>1, <1>4, MinIs
<1> QED
  BY <1>1, <1>4, <1>5

-----------------------------------------------------------------------------
\* Putting a process behind the used cells makes a longer prefix.
LEMMA PutKeepsPrefix ==
  ASSUME TypeOK, UsedIsPrefix, memUsed <= MaxMemory,
         NEW p \in Processes, PutInMemory(memUsed, p)
  PROVE  /\ UsedIsPrefix'
         /\ memUsed' \in Nat /\ memUsed' >= 1 /\ memUsed' <= MaxMemory
         /\ memory' \in [Cells -> Processes \cup {FREE}]
         /\ memStart' \in [Processes -> Cells]
         /\ state' \in [Processes -> {WAITING, RUNNING}]
<1>1. /\ memUsed \in Nat /\ memorySize[p] \in Nat /\ memorySize[p] >= 1
      /\ memUsed + memorySize[p] <= MaxMemory /\ MaxMemory \in Nat
  BY Constants DEF TypeOK, PutInMemory
<1>2. \A a \in Cells : memory[a] # FREE <=> a < memUsed
  BY Constants DEF UsedIsPrefix, Used, Wrap, Cells
<1>3. p # FREE
  BY Constants
<1>4. \A a \in Cells : memory'[a] # FREE <=> a < memUsed + memorySize[p]
  <2> SUFFICES ASSUME NEW a \in Cells
               PROVE  memory'[a] # FREE <=> a < memUsed + memorySize[p]
    OBVIOUS
  <2>1. memory'[a] = IF a \in memUsed .. memUsed + memorySize[p] - 1
                     THEN p ELSE memory[a]
    BY DEF PutInMemory
  <2>2. a \in Nat
    BY Constants
  <2> QED
    BY <1>1, <1>2, <1>3, <2>1, <2>2
<1>5. UsedIsPrefix'
  BY <1>1, <1>4 DEF UsedIsPrefix, Used, Wrap, Cells, PutInMemory
<1>6. memUsed \in Cells
  BY <1>1 DEF Cells
<1> QED
  BY <1>1, <1>5, <1>6 DEF PutInMemory, TypeOK

\* It holds at the start.
LEMMA InitIInv == Init => IInv
<1> SUFFICES ASSUME Init PROVE IInv
  OBVIOUS
<1>1. TypeOK
  <2>1. memorySize \in [Processes -> Nat \ {0}]
    <3>1. Sizes \cup {RootSize} \subseteq Nat \ {0}
      BY Constants, MemoryAssumption
    <3>2. memorySize \in [Processes -> Sizes \cup {RootSize}]
      BY DEF Init, initProcesses, TableSizes
    <3> QED
      BY <3>1, <3>2
  <2>2. memStart \in [Processes -> Cells]
    BY Constants DEF Init, initProcesses, TableSizes
  <2>3. state \in [Processes -> {WAITING, RUNNING}]
    BY DEF Init, initProcesses, TableSizes
  <2>4. memory \in [Cells -> Processes \cup {FREE}]
    BY DEF Init, initProcesses, TableSizes
  <2> QED
    BY <2>1, <2>2, <2>3, <2>4, Constants DEF Init, initProcesses, TableSizes, TypeOK
<1>2. UsedIsPrefix
  BY Constants DEF Init, initProcesses, TableSizes, UsedIsPrefix, Used, Wrap, Cells
<1> QED
  BY <1>1, <1>2, Constants DEF Init, initProcesses, TableSizes, IInv, RootLoaded

\* Every step keeps it.
LEMMA NextIInv == IInv /\ [Next]_vars => IInv'
<1> SUFFICES ASSUME IInv, [Next]_vars PROVE IInv'
  OBVIOUS
<1> USE DEF IInv
<1>1. CASE Start
  <2>1. memUsed = 0 /\ 0 \in Processes /\ PutInMemory(memUsed, 0)
    BY <1>1, Constants DEF Start
  <2>2. TypeOK'
    BY <1>1, <2>1, PutKeepsPrefix DEF TypeOK, Start, PutInMemory
  <2> QED
    BY <1>1, <2>1, <2>2, PutKeepsPrefix DEF Start, RootLoaded
<1>2. CASE Place
  <2>1. proc' \in Processes /\ Fits(proc') # {} /\ pc = "quantum"
    BY <1>2 DEF Place, Pick
  <2>2. Min(Fits(proc')) = memUsed
    BY <2>1, FitsAtEnd
  <2>3. PutInMemory(memUsed, proc')
    BY <1>2, <2>2 DEF Place
  <2>4. TypeOK'
    <3>1. /\ memUsed' \in Nat
          /\ memory' \in [Cells -> Processes \cup {FREE}]
          /\ memStart' \in [Processes -> Cells]
          /\ state' \in [Processes -> {WAITING, RUNNING}]
      BY <2>1, <2>3, PutKeepsPrefix
    <3>2. /\ memorySize' = memorySize /\ numProcess' = numProcess
          /\ pc' = pc /\ i' = i /\ quanta' = quanta + 1
      BY <1>2, <2>3 DEF Place, PutInMemory
    <3> QED
      BY <2>1, <3>1, <3>2 DEF TypeOK
  <2> QED
    BY <1>2, <2>1, <2>3, <2>4, PutKeepsPrefix DEF Place, RootLoaded
<1>3. CASE NoHole
  BY <1>3
  DEF NoHole, Pick, TypeOK, UsedIsPrefix, Used, RootLoaded, table
<1>4. CASE Scan
  <2>1. i' \in Nat
    <3>1. i \in Cells
      BY <1>4, Constants DEF Scan, TypeOK, Cells
    <3>2. CASE Used(i)
      <4>1. memory[i] \in Processes
        BY <3>1, <3>2, Constants DEF Used, Wrap, Cells, TypeOK
      <4> QED
        BY <1>4, <3>2, <4>1 DEF Scan, SizeAt, TypeOK
    <3>3. CASE ~Used(i)
      <4>1. i >= 1
        BY Constants, <1>4, <3>1, <3>3 DEF UsedIsPrefix, RootLoaded, Scan, TypeOK, Cells
      <4>2. MaxMemory - FieldCount \in Cells
        BY Constants DEF Cells
      <4>3. SizeAt(i) \in Int /\ SizeAt(i) >= -1
        <5>1. \A x \in Processes \cup {FREE} : x \in Int /\ x >= -1
          BY Constants
        <5> QED
          BY <3>3, <4>2, <5>1 DEF SizeAt, TypeOK
      <4> QED
        BY <1>4, <4>1, <4>3 DEF Scan, TypeOK
    <3> QED
      BY <3>2, <3>3
  <2> QED
    BY <1>4, <2>1 DEF Scan, TypeOK, UsedIsPrefix, Used, RootLoaded, table
<1>5. CASE ScanOver
  BY <1>5 DEF ScanOver, TypeOK, UsedIsPrefix, Used, RootLoaded, table
<1>6. CASE Done
  BY <1>6 DEF Done, TypeOK, UsedIsPrefix, Used, RootLoaded, table
<1>7. CASE UNCHANGED vars
  BY <1>7 DEF vars, TypeOK, UsedIsPrefix, Used, RootLoaded, table
<1> QED
  BY <1>1, <1>2, <1>3, <1>4, <1>5, <1>6, <1>7 DEF Next

\* IInv is an invariant of the simulation.
THEOREM Invariance == Spec => []IInv
BY InitIInv, NextIInv, PTL DEF Spec

\* Every variable has its type: the walk never leaves memory at the front.
THEOREM TypeCorrect == Spec => []TypeOK
<1>1. IInv => TypeOK
  BY DEF IInv
<1> QED
  BY <1>1, Invariance, PTL

\* memUsed counts the used cells, which are the first.
THEOREM PrefixUsed == Spec => []UsedIsPrefix
<1>1. IInv => UsedIsPrefix
  BY DEF IInv
<1> QED
  BY <1>1, Invariance, PTL

-----------------------------------------------------------------------------
\* What a put leaves of the processes in memory: the cells it writes were free.
LEMMA PutKeepsExtents ==
  ASSUME IInv, NEW p \in Processes, PutInMemory(memUsed, p),
         pc' # "start",
         \A q \in Processes : state[q] = RUNNING /\ q # p =>
           \A d \in 0 .. memorySize[q] - 1 :
             memStart[q] + d \in Cells /\ memory[memStart[q] + d] = q
  PROVE  ExtentsHold'
<1> SUFFICES ASSUME NEW q \in Processes, state'[q] = RUNNING,
                    NEW d \in 0 .. memorySize[q] - 1
             PROVE  /\ memStart'[q] + d \in Cells
                    /\ memory'[memStart'[q] + d] = q
  BY DEF ExtentsHold, PutInMemory
<1>1. /\ memUsed \in Nat /\ memorySize[p] \in Nat /\ d \in Nat
      /\ memUsed + memorySize[p] <= MaxMemory /\ MaxMemory \in Nat
  BY Constants DEF IInv, TypeOK, PutInMemory
<1>2. \A a \in Cells :
        memory'[a] = IF a \in memUsed .. memUsed + memorySize[p] - 1
                     THEN p ELSE memory[a]
  BY DEF PutInMemory
<1>3. CASE q = p
  <2>1. memStart'[q] = memUsed
    BY <1>3 DEF PutInMemory, IInv, TypeOK
  <2>2. memUsed + d \in Cells
    BY <1>1, <1>3 DEF Cells
  <2>3. memUsed + d \in memUsed .. memUsed + memorySize[p] - 1
    BY <1>1, <1>3
  <2> QED
    BY <1>2, <1>3, <2>1, <2>2, <2>3
<1>4. CASE q # p
  <2>1. memStart'[q] = memStart[q] /\ state[q] = RUNNING
    BY <1>4 DEF PutInMemory, IInv, TypeOK
  <2>2. memStart[q] + d \in Cells /\ memory[memStart[q] + d] = q
    BY <1>4, <2>1
  <2>3. memStart[q] + d < memUsed
    <3>1. q # FREE
      BY Constants
    <3>2. Wrap(memStart[q] + d) = memStart[q] + d
      BY <2>2, Constants DEF Wrap, Cells
    <3> QED
      BY <2>2, <3>1, <3>2 DEF IInv, UsedIsPrefix, Used
  <2> QED
    BY <1>1, <1>2, <2>1, <2>2, <2>3
<1> QED
  BY <1>3, <1>4

\* Until the root process is put in memory the others wait.
EInv == ExtentsHold /\ (pc = "start" => \A q \in Processes \ {0} :
                                            state[q] = WAITING)

\* Only a put changes the memory and the table.
LEMMA NextEInv == IInv /\ EInv /\ [Next]_vars => EInv'
<1> SUFFICES ASSUME IInv, EInv, [Next]_vars PROVE EInv'
  OBVIOUS
<1>1. CASE Start
  <2>1. memUsed = 0 /\ 0 \in Processes /\ PutInMemory(memUsed, 0)
    BY <1>1, Constants DEF Start, IInv
  <2>2. pc' # "start"
    BY <1>1 DEF Start
  <2>3. \A q \in Processes : q # 0 => state[q] # RUNNING
    BY <1>1 DEF Start, EInv, WAITING, RUNNING
  <2> QED
    BY <2>1, <2>2, <2>3, PutKeepsExtents DEF EInv
<1>2. CASE Place
  <2>1. /\ proc' \in Processes /\ Fits(proc') # {}
        /\ pc = "quantum" /\ pc' = "quantum"
    BY <1>2 DEF Place, Pick
  <2>2. PutInMemory(memUsed, proc')
    BY <1>2, <2>1, FitsAtEnd DEF Place
  <2>3. PICK p \in Processes : p = proc'
    BY <2>1
  <2>4. PutInMemory(memUsed, p)
    BY <2>2, <2>3
  <2> QED
    BY <2>1, <2>4, PutKeepsExtents DEF EInv, ExtentsHold
<1>3. CASE UNCHANGED <<memory, table>> /\ pc # "start" /\ pc' # "start"
  BY <1>3 DEF EInv, ExtentsHold, table
<1>4. CASE UNCHANGED vars
  BY <1>4 DEF vars, EInv, ExtentsHold, table
<1> QED
  BY <1>1, <1>2, <1>3, <1>4 DEF Next, NoHole, Pick, Scan, ScanOver, Done

\* A running process is where its entry says, all of it.
THEOREM ExtentsAreHeld == Spec => []ExtentsHold
<1>1. Init => EInv
  BY DEF Init, initProcesses, TableSizes, EInv, ExtentsHold
<1>2. EInv => ExtentsHold
  BY DEF EInv
<1> QED
  BY <1>1, <1>2, NextEInv, Invariance, PTL DEF Spec

-----------------------------------------------------------------------------
\* compaction() is never called: a hole found big enough is inside memory.
THEOREM HolesInside == Spec => []HolesAreInside
<1>1. IInv => HolesAreInside
  BY FitsAtEnd DEF HolesAreInside
<1> QED
  BY <1>1, Invariance, PTL

\* putInBackStore() is never called: no entry the walk reads is idle.
THEOREM NothingSwapped == Spec => []NothingToSwap
<1>1. IInv => NothingToSwap
  <2> SUFFICES ASSUME IInv, pc = "scan", i < MaxMemory
               PROVE  StateAt(i) # IDLE
    BY DEF NothingToSwap
  <2> USE DEF IInv
  <2>1. i \in Cells
    BY Constants DEF TypeOK, Cells
  <2>2. CASE Used(i)
    <3>1. memory[i] \in Processes
      BY <2>1, <2>2, Constants DEF Used, Wrap, Cells, TypeOK
    <3> QED
      BY <2>2, <3>1 DEF StateAt, TypeOK, WAITING, RUNNING, IDLE
  <2>3. CASE ~Used(i)
    <3>1. MaxMemory - 1 \in Cells /\ i <= MaxMemory - 1 /\ i \in Nat
      BY <2>1, Constants DEF Cells
    <3>2. ~Used(MaxMemory - 1)
      BY <2>1, <2>3, <3>1, Constants DEF UsedIsPrefix, TypeOK
    <3>3. memory[MaxMemory - 1] = FREE
      BY <3>1, <3>2, Constants DEF Used, Wrap, Cells
    <3> QED
      BY <2>3, <3>3 DEF StateAt, FREE, IDLE
  <2> QED
    BY <2>2, <2>3
<1> QED
  BY <1>1, Invariance, PTL
=============================================================================
