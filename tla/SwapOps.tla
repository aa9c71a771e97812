------------------------------ MODULE SwapOps ------------------------------
(***************************************************************************)
(* The swap operations of proj_05/partone.cpp, over the memory and the     *)
(* table of SwapLoop and the back store: the three ways to choose a hole,  *)
(* swapping out and in, compaction and the burst times.                    *)
(*                                                                         *)
(* loop() as it stands reaches few of them, since it never runs the        *)
(* processes.  Here they are called the way they were written to be: a     *)
(* quantum draws any process, as loop() does, and places it; between       *)
(* quanta decrementBurst() may run the processes and compaction() may be   *)
(* called, as test() does.                                                 *)
(*                                                                         *)
(* loop() also draws processes that are in memory, and places them a       *)
(* second time.  What the operations keep then is little: the entry in the *)
(* table is that of the last copy, a swap takes whichever copy it comes to *)
(* first, and compaction() clears the one of the entry when it means       *)
(* another, and may not come to an end.  "redrawn" counts how often this   *)
(* has happened.                                                           *)
(*                                                                         *)
(* The back store is a ring of cells from head to tail.  It has no check   *)
(* of its capacity, and the last cell copied is read as bs[tail - 1],      *)
(* before the array when tail has come round to 0.  A call that overruns   *)
(* the store or reads before it, that swaps out cells which are no whole   *)
(* copy of a process, or that clears the memory of a process which is in   *)
(* the store, by the place it has there, leaves the program "astray"; the  *)
(* model ends there, and what it shows holds until then.                   *)
(***************************************************************************)
EXTENDS SwapLoop

CONSTANTS
  Bursts,           \* what getburstTime() can yield
  BeforeStore,      \* the integer in front of backStore.bs
  MaxRedrawn,       \* bound: how often processes in memory are drawn
  MaxUsed           \* bound: compaction() is followed up to that memUsed

ASSUME SwapAssumption ==
  /\ Bursts \subseteq Nat \ {0}
  /\ BeforeStore \in Processes
  /\ MaxRedrawn \in Nat /\ MaxUsed \in Nat

BACK_STORE == 3
NULL       == -1
BurstFloor == -1    \* bounds burstTime: below 0 it makes no difference

VARIABLES
  burstTime,        \* a field of pMap.processes
  bs, head, tail,   \* backStore, whose capacity is MAX_MEMORY
  redrawn           \* history: how often a process in memory was drawn

pMap     == <<memory, table, numProcess, memUsed, burstTime>>
store    == <<bs, head, tail>>
swapVars == <<vars, burstTime, store, redrawn>>

\* proc is the argument p of runAlgorithm(): NULL for "from the back store".
SwapInit ==
  /\ Init
  /\ burstTime \in {f \in [Processes -> Bursts \cup {BurstFloor}] :
                      \A p \in Processes : f[p] = BurstFloor <=> p = 0}
  /\ bs = [a \in Cells |-> FREE] /\ head = 0 /\ tail = 0
  /\ redrawn = 0

Ring(a) == a % MaxMemory

Extent(start, p) == start .. start + memorySize[p] - 1

SwapStart == Start /\ UNCHANGED <<burstTime, store, redrawn>>

-----------------------------------------------------------------------------
InMemory(p) == state[p] \in {RUNNING, IDLE}

\* A process is drawn, wherever it is.
Draw ==
  /\ pc = "quantum"
  /\ \E p \in Processes \ {0} :
       /\ proc' = IF state[p] = BACK_STORE THEN NULL ELSE p
       /\ IF InMemory(p) THEN redrawn < MaxRedrawn /\ redrawn' = redrawn + 1
                         ELSE UNCHANGED redrawn
  /\ pc' = "fit"
  /\ UNCHANGED <<pMap, quanta, i, store>>

\* Mutant of FromStore: the last one stored is taken.
FromStoreLast == bs[Ring(tail - 1)]

\* From the store comes who is at its head, whoever was drawn.
FromStore == bs[head]

Wanted == IF proc = NULL THEN FromStore ELSE proc

\* firstFit(), bestFit(), worstFit(): the holes each may take.  The last two
\* sort the holes by size, in no particular order when sizes are equal.
FirstFit == {Min(Fits(Wanted))}
BestFit  == {h \in Fits(Wanted) :
               \A g \in Fits(Wanted) : HoleSize(h) <= HoleSize(g)}
WorstFit == {h \in Fits(Wanted) :
               \A g \in Fits(Wanted) : HoleSize(h) >= HoleSize(g)}

\* Mutant of HeadAfter: the head goes back.
HeadAfterBack(n) == head - n

HeadAfter(n) == Ring(head + n)

\* putInMemory(start, NULL): the process at the head of the store.
PutStored(start) ==
  LET p == FromStore IN
  /\ start + memorySize[p] <= MaxMemory
  /\ memory' = [a \in Cells |-> IF a \in Extent(start, p)
                                THEN bs[Ring(head + a - start)] ELSE memory[a]]
  /\ bs' = [a \in Cells |-> IF Ring(a - head) < memorySize[p]
                            THEN FREE ELSE bs[a]]
  /\ head' = HeadAfter(memorySize[p])
  /\ numProcess' = numProcess + 1
  /\ memUsed' = memUsed + memorySize[p]
  /\ memStart' = [memStart EXCEPT ![p] = start]
  /\ state' = [state EXCEPT ![p] = RUNNING]
  /\ UNCHANGED <<memorySize, tail>>

Put(start) ==
  \/ proc = NULL /\ PutStored(start)
  \/ proc # NULL /\ PutInMemory(start, proc) /\ UNCHANGED store

\* putProcessInHole() when a hole is found.
PutInHole ==
  /\ pc = "fit"
  /\ Fits(Wanted) # {}
  /\ \E h \in FirstFit \cup BestFit \cup WorstFit : Put(h)
  /\ pc' = "quantum"
  /\ UNCHANGED <<quanta, proc, i, burstTime, redrawn>>

NoHoleFits ==
  /\ pc = "fit"
  /\ Fits(Wanted) = {}
  /\ pc' = "scan" /\ i' = 0
  /\ UNCHANGED <<pMap, quanta, proc, store, redrawn>>

-----------------------------------------------------------------------------
\* The walk for an idle process that is big enough, by what it takes for the
\* entry of a process at cell a.
SwapsAt(a) == StateAt(a) = IDLE /\ SizeAt(a) >= memorySize[Wanted]

\* What lies from cell a on is a whole process.
IsCopy(a) == Used(a) /\ \A c \in Extent(a, memory[a]) :
                         c \in Cells /\ memory[c] = memory[a]

Walk ==
  /\ pc = "scan"
  /\ i < MaxMemory
  /\ ~SwapsAt(i)
  /\ i' = i + SizeAt(i)
  /\ UNCHANGED <<pMap, pc, quanta, proc, store, redrawn>>

WalkOver ==
  /\ pc = "scan"
  /\ i >= MaxMemory
  /\ pc' = "quantum"
  /\ UNCHANGED <<pMap, quanta, proc, i, store, redrawn>>

\* What would be swapped out is not one process.
WalkAstray ==
  /\ pc = "scan"
  /\ i < MaxMemory
  /\ SwapsAt(i) /\ ~IsCopy(i)
  /\ pc' = "astray"
  /\ UNCHANGED <<pMap, quanta, proc, i, store, redrawn>>

\* The ring when process p, in memory from cell start, is copied to it.
Copied(start, p) ==
  [a \in Cells |-> IF Ring(a - tail) < memorySize[p]
                   THEN memory[start + Ring(a - tail)] ELSE bs[a]]

\* Mutant of LastCopied: the process at the head is taken for it.
LastCopiedHead(ring, end) == ring[head]

\* bs[tail - 1]: whom putInBackStore() takes for the process it copied.
LastCopied(ring, end) == IF end = 0 THEN BeforeStore ELSE ring[end - 1]

\* putInBackStore(start, NULL): process p, which lies from cell start on.
putInBackStore(start, p) ==
  LET end  == Ring(tail + memorySize[p])
      last == LastCopied(Copied(start, p), end)
  IN
  /\ bs' = Copied(start, p)
  /\ memory' = [a \in Cells |-> IF a \in Extent(start, p)
                                THEN FREE ELSE memory[a]]
  /\ tail' = end
  /\ numProcess' = numProcess - 1
  /\ memUsed' = memUsed - memorySize[last]
  /\ memStart' = [memStart EXCEPT ![last] = tail]
  /\ state' = [state EXCEPT ![last] = BACK_STORE]
  /\ UNCHANGED <<memorySize, head>>

\* Some of the next n cells of the ring hold a process.
Overruns(n) == \E d \in 0 .. n - 1 : bs[Ring(tail + d)] # FREE

SwapOut ==
  /\ pc = "scan"
  /\ i < MaxMemory
  /\ SwapsAt(i) /\ IsCopy(i)
  /\ putInBackStore(i, memory[i])
  /\ pc' = IF Overruns(SizeAt(i)) \/ tail' = 0 THEN "astray" ELSE "fill"
  /\ UNCHANGED <<quanta, proc, i, burstTime, redrawn>>

\* The process wanted takes the place of the one swapped out.
Fill ==
  /\ pc = "fill"
  /\ Put(i)
  /\ pc' = "quantum"
  /\ UNCHANGED <<quanta, proc, i, burstTime, redrawn>>

-----------------------------------------------------------------------------
\* Mutant of Expires: a process whose time is over expires again.
ExpiresAgain(b) == b <= 0

Expires(b) == b = 0

\* All running processes but the root get older; at 0 they are idle.
decrementBurst ==
  /\ pc = "quantum"
  /\ LET Runs == {p \in Processes \ {0} : state[p] = RUNNING} IN
     /\ burstTime' = [p \in Processes |->
          IF p \in Runs THEN Max({burstTime[p] - 1, BurstFloor})
                        ELSE burstTime[p]]
     /\ state' = [p \in Processes |->
          IF p \in Runs /\ Expires(burstTime'[p]) THEN IDLE ELSE state[p]]
  /\ UNCHANGED <<memory, memorySize, memStart, numProcess, memUsed, pc,
                 quanta, proc, i, store, redrawn>>

\* Mutant of FirstHole: the last one.
FirstHoleLast == Max(HoleStarts)

FirstHole == Min(HoleStarts)
HoleEnd   == FirstHole + HoleSize(FirstHole)

\* compaction() is called.
Compact ==
  /\ pc = "quantum"
  /\ pc' = "compact"
  /\ UNCHANGED <<pMap, quanta, proc, i, store, redrawn>>

\* Mutant of Cleared: clearMemory() is not called.
ClearedNone(p) == {}

\* clearMemory(p->memStart, p->memorySize)
Cleared(p) == Extent(memStart[p], p)

\* Who lies behind the first hole, which does not end memory.
NextDown == memory[HoleEnd]

\* putInMemory(holes.at(0).start, p) does not refuse.
GoesDown(p) == FirstHole + memorySize[p] <= MaxMemory

\* The process behind the first hole moves down to the start of it, by
\* clearMemory() and putInMemory(), which counts it in memUsed once more and
\* makes it run.
MoveDown ==
  /\ pc = "compact"
  /\ HoleStarts # {} /\ HoleEnd # MaxMemory
  /\ InMemory(NextDown)
  /\ memUsed <= MaxUsed
  /\ LET p == NextDown IN
     /\ memory' = [a \in Cells |->
          IF GoesDown(p) /\ a \in Extent(FirstHole, p) THEN p
          ELSE IF a \in Cleared(p) THEN FREE ELSE memory[a]]
     /\ IF GoesDown(p)
        THEN /\ memUsed' = memUsed + memorySize[p]
             /\ memStart' = [memStart EXCEPT ![p] = FirstHole]
             /\ state' = [state EXCEPT ![p] = RUNNING]
        ELSE UNCHANGED <<memUsed, memStart, state>>
  /\ UNCHANGED <<memorySize, numProcess, pc, quanta, proc, i, burstTime,
                 store, redrawn>>

\* The entry of the process is that of a copy in the back store.
MoveAstray ==
  /\ pc = "compact"
  /\ HoleStarts # {} /\ HoleEnd # MaxMemory
  /\ ~InMemory(NextDown)
  /\ pc' = "astray"
  /\ UNCHANGED <<pMap, quanta, proc, i, store, redrawn>>

Compacted ==
  /\ pc = "compact"
  /\ HoleStarts # {} /\ HoleEnd = MaxMemory
  /\ pc' = "quantum"
  /\ UNCHANGED <<pMap, quanta, proc, i, store, redrawn>>

\* Mutant of CompactThrows: the exception is caught and the loop goes on.
CompactGoesOn ==
  /\ pc = "compact"
  /\ HoleStarts = {}
  /\ UNCHANGED swapVars

\* holes.at(0) throws when memory is full, and nobody catches it.
CompactThrows ==
  /\ pc = "compact"
  /\ HoleStarts = {}
  /\ pc' = "aborted"
  /\ UNCHANGED <<pMap, quanta, proc, i, store, redrawn>>

SwapNext ==
  \/ SwapStart \/ Draw \/ PutInHole \/ NoHoleFits
  \/ Walk \/ WalkOver \/ WalkAstray \/ SwapOut \/ Fill
  \/ decrementBurst
  \/ Compact \/ MoveDown \/ MoveAstray \/ Compacted \/ CompactThrows

SwapSpec == SwapInit /\ [][SwapNext]_swapVars

-----------------------------------------------------------------------------
(***************************************************************************)
(* Properties.                                                             *)
(***************************************************************************)
SwapTypeOK ==
  /\ memory \in [Cells -> Processes \cup {FREE}]
  /\ memorySize \in [Processes -> Nat \ {0}]
  /\ memStart \in [Processes -> Cells]
  /\ state \in [Processes -> {WAITING, RUNNING, IDLE, BACK_STORE}]
  /\ burstTime \in [Processes -> Nat \cup {BurstFloor}]
  /\ numProcess \in Int /\ memUsed \in Int
  /\ pc \in {"start", "quantum", "fit", "scan", "fill", "compact",
             "aborted", "astray"}
  /\ proc \in Processes \cup {NULL} /\ i \in Nat
  /\ bs \in [Cells -> Processes \cup {FREE}] /\ head \in Cells /\ tail \in Cells
  /\ redrawn \in 0 .. MaxRedrawn

Intact == pc # "astray"

\* Nor has a process been placed a second time.
Orderly == Intact /\ redrawn = 0

Loaded == IF pc = "start" THEN {} ELSE {p \in Processes : InMemory(p)}
Stored == {p \in Processes : state[p] = BACK_STORE}

\* Every process in memory lies where its entry says, all of it, and nowhere
\* else; of a process that is not in memory no cell is left.
MemoryHolds ==
  \A a \in Cells, p \in Processes :
    memory[a] = p <=> p \in Loaded /\ a \in Extent(memStart[p], p)

\* The same for the ring: memStart of a stored process is where it begins in
\* the ring, and head and tail enclose the stored processes.
StoreHolds ==
  /\ \A a \in Cells, p \in Processes :
       bs[a] = p <=> p \in Stored /\ Ring(a - memStart[p]) < memorySize[p]
  /\ bs[head] = FREE <=> Stored = {}
  /\ Ring(head + Cardinality({a \in Cells : bs[a] # FREE})) = tail

\* As long as only processes are drawn that are not in memory, no sequence of
\* swaps and compactions loses, doubles or splits a process, in memory or in
\* the ring.
SwapsHold == Orderly => MemoryHolds /\ StoreHolds

\* memUsed counts the cells in use: each step changes both alike, whichever
\* way a process comes or goes, a second time or not, but for the moves of
\* compaction().
UsedFollowsCells ==
  [][Intact' /\ ~MoveDown =>
       memUsed' - memUsed = Cardinality({a \in Cells : memory'[a] # FREE})
                          - Cardinality({a \in Cells : memory[a] # FREE})
    ]_swapVars

\* As long as only processes are drawn that are not in memory, the head of the
\* ring never comes round to the start: a process whose time is up and that
\* runs again, because it came back from the store, never is idle again, so
\* that those who came back are never more than memory holds beside the root
\* process.  Only the tail can overrun the ring.
HeadNeverTurns ==
  [][Orderly' => head' >= head /\ head' <= MaxMemory - RootSize]_swapVars

\* putInMemory() never refuses: neither a hole that was found big enough nor
\* the place of a process swapped out, even of a process with several copies;
\* nor, as long as there are none, the first hole in compaction().  Hence
\* putProcessInHole() never takes its second chance.
PlacesSuffice ==
  /\ pc = "fit" => \A h \in Fits(Wanted) :
                     h + memorySize[Wanted] <= MaxMemory
  /\ pc = "fill" => i + memorySize[Wanted] <= MaxMemory
  /\ pc = "compact" /\ HoleStarts # {} /\ HoleEnd # MaxMemory /\ redrawn = 0 =>
       GoesDown(NextDown)

\* As long as only processes are drawn that are not in memory, compaction()
\* keeps the processes in their order and, when it returns, the free cells are
\* one hole at the end.
CompactionKeepsOrder ==
  [][/\ MoveDown /\ redrawn = 0 =>
          \A p, q \in Loaded : memStart[p] < memStart[q] =>
                                 memStart'[p] < memStart'[q]
     /\ Compacted => \A a, b \in Cells :
                       a < b /\ memory[a] = FREE => memory[b] = FREE
    ]_swapVars

\* The loop of compaction() ends, unless a process has been placed a second
\* time; its condition "|| n > 250" would make it endless where it was meant
\* to stop it.
CompactionEnds ==
  pc = "compact" ~> pc \in {"quantum", "aborted"} \/ redrawn > 0

\* The stored processes by their distance from the head of the ring.
Behind(p)  == Ring(memStart[p] - head)
StoreQueue ==
  [k \in 1 .. Cardinality(Stored) |->
     CHOOSE p \in Stored :
       Cardinality({q \in Stored : Behind(q) < Behind(p)}) = k - 1]

Swapping == INSTANCE SwapStore WITH
  Users <- Processes, loaded <- Loaded, queue <- StoreQueue, intact <- Orderly

\* As long as only processes are drawn that are not in memory, the cells, the
\* ring and the table implement the abstract store.
ImplementsStore == Swapping!Spec
=============================================================================
