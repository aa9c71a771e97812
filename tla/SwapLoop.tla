------------------------------ MODULE SwapLoop ------------------------------
(***************************************************************************)
(* The simulation proj_05/partone.cpp runs: loop() with the first-fit      *)
(* algorithm, over main memory, the table of processes and the counters.   *)
(*                                                                         *)
(* A quantum picks a process at random and puts it in the first hole it    *)
(* fits in.  When there is none, putProcessInHole() walks the memory for   *)
(* an idle process to swap out.  The walk is a loop of its own, which may  *)
(* not end, so each of its turns is a step.  It takes whatever a cell      *)
(* holds for a process: of a free cell, -1, it reads processes[-1], the    *)
(* six integers that lie before the table, which are the last six cells of *)
(* memory.                                                                 *)
(*                                                                         *)
(* loop() neither runs the processes (decrementBurst() is not called) nor  *)
(* frees memory, so no process is ever idle or in the backing store; that  *)
(* the code for those is never reached is NothingToSwap below.             *)
(***************************************************************************)
EXTENDS Integers, FiniteSets, FiniteSetsExt

CONSTANTS
  MaxMemory,        \* MAX_MEMORY
  MaxProcesses,     \* MAX_PROCESSES
  MaxQuanta,        \* MAX_QUANTA
  RootSize,         \* the memory of process 0, 120
  Sizes             \* what rand() % MAX_MEMORY_PER_PROC + 4 can yield

FieldCount == 6     \* the integers in a struct process
FREE       == -1

ASSUME MemoryAssumption ==
  /\ MaxMemory \in Nat /\ MaxMemory > FieldCount
  /\ RootSize \in 1 .. MaxMemory - FieldCount
  /\ Sizes \subseteq Nat \ {0}
ASSUME LoopAssumption ==
  MaxProcesses \in Nat \ {0} /\ MaxQuanta \in Nat

Cells     == 0 .. MaxMemory - 1
Processes == 0 .. MaxProcesses - 1

WAITING == 0
RUNNING == 1
IDLE    == 2

VARIABLES
  memory,           \* pMap.memory
  memorySize, memStart, state,        \* fields of pMap.processes
  numProcess, memUsed,                \* pMap
  pc,               \* "start", "quantum", "scan" (the walk), "done"
  quanta,           \* the counter of loop()
  proc,             \* its process
  i                 \* the counter of the walk

table == <<memorySize, memStart, state>>
vars  == <<memory, table, numProcess, memUsed, pc, quanta, proc, i>>

\* createProcess(): what the sizes of the processes may be.
TableSizes == {f \in [Processes -> Sizes \cup {RootSize}] :
                 /\ f[0] = RootSize
                 /\ \A p \in Processes \ {0} : f[p] \in Sizes}

initProcesses ==
  /\ memorySize \in TableSizes
  /\ memStart = [p \in Processes |-> 0]
  /\ state = [p \in Processes |-> IF p = 0 THEN RUNNING ELSE WAITING]

\* main(), up to the call of loop().
Init ==
  /\ memory = [a \in Cells |-> FREE]
  /\ numProcess = 0 /\ memUsed = 0
  /\ initProcesses
  /\ pc = "start" /\ quanta = 0 /\ proc = 0 /\ i = 0

-----------------------------------------------------------------------------
(***************************************************************************)
(* findHoles().  A hole is counted from its first cell to the next cell    *)
(* that is used, around the end of memory if need be.                      *)
(***************************************************************************)
Wrap(a) == IF a < MaxMemory THEN a ELSE a - MaxMemory
Used(a) == memory[Wrap(a)] # FREE

HoleStarts == {a \in Cells : ~Used(a) /\ (a = 0 \/ Used(a - 1))}

HoleSize(a) == Min({d \in 1 .. MaxMemory : Used(a + d)})

\* Mutant of Fits: a hole one cell short will do.
FitsShort(p) == {a \in HoleStarts : HoleSize(a) + 1 >= memorySize[p]}

\* The holes a process fits in.
Fits(p) == {a \in HoleStarts : HoleSize(a) >= memorySize[p]}

\* Mutant of PutInMemory: the entry points behind the process.
PutInMemoryEnd(start, p) ==
  /\ start + memorySize[p] <= MaxMemory
  /\ memory' = [a \in Cells |-> IF a \in start .. start + memorySize[p] - 1
                                THEN p ELSE memory[a]]
  /\ memUsed' = memUsed + memorySize[p]
  /\ memStart' = [memStart EXCEPT ![p] = start + memorySize[p] - 1]
  /\ state' = [state EXCEPT ![p] = RUNNING]
  /\ UNCHANGED <<memorySize, numProcess>>

\* Mutant of PutInMemory: a process that is in memory is not counted again.
PutInMemoryCountsOnce(start, p) ==
  /\ start + memorySize[p] <= MaxMemory
  /\ memory' = [a \in Cells |-> IF a \in start .. start + memorySize[p] - 1
                                THEN p ELSE memory[a]]
  /\ memUsed' = IF state[p] = WAITING \/ p = 0 THEN memUsed + memorySize[p]
                                               ELSE memUsed
  /\ memStart' = [memStart EXCEPT ![p] = start]
  /\ state' = [state EXCEPT ![p] = RUNNING]
  /\ UNCHANGED <<memorySize, numProcess>>

\* putInMemory(start, p): the cells, the counter, the entry of the table.
PutInMemory(start, p) ==
  /\ start + memorySize[p] <= MaxMemory
  /\ memory' = [a \in Cells |-> IF a \in start .. start + memorySize[p] - 1
                                THEN p ELSE memory[a]]
  /\ memUsed' = memUsed + memorySize[p]
  /\ memStart' = [memStart EXCEPT ![p] = start]
  /\ state' = [state EXCEPT ![p] = RUNNING]
  /\ UNCHANGED <<memorySize, numProcess>>

-----------------------------------------------------------------------------
\* loop() puts the root process at 0.
Start ==
  /\ pc = "start"
  /\ PutInMemory(0, 0)
  /\ pc' = "quantum"
  /\ UNCHANGED <<quanta, proc, i>>

Pick == /\ pc = "quantum" /\ quanta < MaxQuanta
        /\ proc' \in Processes \ {0}

\* A quantum whose process fits in a hole.
Place ==
  /\ Pick
  /\ Fits(proc') # {}
  /\ PutInMemory(Min(Fits(proc')), proc')
  /\ quanta' = quanta + 1
  /\ UNCHANGED <<pc, i>>

\* A quantum whose process fits in none begins the walk.
NoHole ==
  /\ Pick
  /\ Fits(proc') = {}
  /\ pc' = "scan" /\ i' = 0
  /\ UNCHANGED <<memory, table, numProcess, memUsed, quanta>>

\* Mutants: the sixth field is read for the size, the fifth for the state.
SizeAtLast(a)  == IF Used(a) THEN memorySize[memory[a]]
                             ELSE memory[MaxMemory - 1]
StateAtFifth(a) == IF Used(a) THEN state[memory[a]] ELSE memory[MaxMemory - 2]

\* The entry of the table the walk finds at cell a.  Cell a holds the pid of
\* a process, or -1: then the entry is the end of memory.
SizeAt(a) == IF Used(a) THEN memorySize[memory[a]]
                        ELSE memory[MaxMemory - FieldCount]

StateAt(a) == IF Used(a) THEN state[memory[a]] ELSE memory[MaxMemory - 1]

\* One turn of the walk, over an entry that is not idle.
Scan ==
  /\ pc = "scan"
  /\ i < MaxMemory
  /\ StateAt(i) # IDLE
  /\ i' = i + SizeAt(i)
  /\ UNCHANGED <<memory, table, numProcess, memUsed, pc, quanta, proc>>

\* The walk is over: the process is not placed in this quantum.
ScanOver ==
  /\ pc = "scan"
  /\ i >= MaxMemory
  /\ pc' = "quantum" /\ quanta' = quanta + 1
  /\ UNCHANGED <<memory, table, numProcess, memUsed, proc, i>>

Done ==
  /\ pc = "quantum" /\ quanta >= MaxQuanta
  /\ pc' = "done"
  /\ UNCHANGED <<memory, table, numProcess, memUsed, quanta, proc, i>>

Next == Start \/ Place \/ NoHole \/ Scan \/ ScanOver \/ Done

Spec == Init /\ [][Next]_vars

\* The program is one thread, and it runs.
FairSpec == Spec /\ WF_vars(Next)

-----------------------------------------------------------------------------
(***************************************************************************)
(* Properties.                                                             *)
(***************************************************************************)
\* Every variable has its type; the walk never leaves memory at the front.
TypeOK ==
  /\ memory \in [Cells -> Processes \cup {FREE}]
  /\ memorySize \in [Processes -> Nat \ {0}]
  /\ memStart \in [Processes -> Cells]
  /\ state \in [Processes -> {WAITING, RUNNING}]
  /\ numProcess \in Nat /\ memUsed \in Nat
  /\ pc \in {"start", "quantum", "scan", "done"}
  /\ quanta \in Nat /\ proc \in Processes
  /\ i \in Nat

\* Although a process may be put in memory any number of times, memUsed is
\* the number of cells in use, and the cells in use are the first ones: first
\* fit without freeing leaves one hole, at the end.
UsedIsPrefix ==
  \A a \in Cells : Used(a) <=> a < memUsed

\* A running process is where its entry says, all of it.
ExtentsHold ==
  \A p \in Processes : state[p] = RUNNING /\ pc # "start" =>
    \A d \in 0 .. memorySize[p] - 1 :
      memStart[p] + d \in Cells /\ memory[memStart[p] + d] = p

\* The walk finds nothing to swap out, not even in the cells it takes for the
\* entry of a process: putInBackStore() is never called.
NothingToSwap ==
  pc = "scan" /\ i < MaxMemory => StateAt(i) # IDLE

\* putInMemory() never refuses a hole that was found big enough, so that
\* putProcessInHole() never calls compaction().
HolesAreInside ==
  pc = "quantum" =>
    \A p \in Processes \ {0} : Fits(p) # {} =>
      Min(Fits(p)) + memorySize[p] <= MaxMemory

\* The walk ends when memory is used up to the cell that is read for the size
\* of processes[-1].
ScanEnds ==
  pc = "scan" /\ memUsed > MaxMemory - FieldCount ~> pc = "quantum"

\* "# quanta to run before ending simulation": the simulation ends.
SimulationEnds == <>(pc = "done")
=============================================================================
