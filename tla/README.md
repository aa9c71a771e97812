# A TLA+ verification of CS_3243

This directory holds TLA+ models of the programs of this repository, TLC
configurations that check them on small instances, and proofs, checked by
TLAPS, of what holds for every instance.

The repository is the course work of an operating-systems class: a dozen small
programs in five projects, each a `main` of its own, that share ideas (forked
children, threads, semaphores, memory maps) and often code, but run
separately. "Components" below are therefore programs, or parts of one.

## 1. Inventory

### proj_04: the bounded buffer (`project4a.cpp`, `partone.cpp`)

*State*: a linked queue (`size`, `head`, `tail`, malloc'ed nodes), the
semaphores `empty` and `full`, the mutex `lockMem`, the global `done`, main's
local `quit`. *Operations*: `producer`, `consumer` (loops of wait, lock, queue
operation, unlock, post, sleep), `push`, `pop`, `printQ`, `emptyQ`, and `main`,
which creates the threads, clears `done`, joins, prints, destroys, empties.
*Interaction*: threads share everything; main touches the queue without the
mutex once it believes the threads gone. *Hard*: interleavings, dangling
`head`/`tail`, uninitialised `next` and `quit`, a full queue, the shutdown.
*Correct when*: slots and values are conserved, the chain of nodes is intact,
values come out in order, main frees nothing that is in use, and threads do
not lock up.

### proj_04: the forked batch sort (`project4b.cpp`)

*State*: two named semaphores in the kernel; in each process a private copy of
the arrays and of `sorted_size`. *Operations*: `main`, `importList`,
`performFork`, `childWork`, `parentWork`, the `waitpid` loop, `writeToFile`.
*Interaction*: only the semaphores (the mutex and the arrays are not shared
after `fork`). *Hard*: names that outlive a run, a child that opens a name
after another process removed it, `fork` and `sem_open` failing, a poll taken
for an answer. *Correct when*: the list written is the list read, sorted;
tokens are not made from nothing; parent and children keep step; nothing is
left in the kernel.

### proj_05: the swapping simulation (`partone.cpp`, older snapshot `partone_seg.cpp`)

*State*: `pMap` (memory cells, table of processes, counters) and a back store
used as a circular queue. *Operations*: `loop`, `getProc`, `firstFit`,
`bestFit`, `worstFit`, `findHoles`, `putProcessInHole`, `putInMemory`,
`putInBackStore`, `clearMemory`, `compaction`, `decrementBurst`,
`initProcesses`, and printing. *Hard*: long sequences of operations, the walk
over memory that indexes the table with what a cell holds, the limits of
memory and of the back store. *Correct when*: cells, entries and counters
agree, and the loop ends.

### proj_05: the paging simulation (`parttwo.cpp`, `parttwo_dt.cpp`)

*State*: `processList`, `aliveProcess` (copies of those that are alive), the
page table and the back store, both of pointers to pages. *Operations*:
`initProcesses`, `touchProcess`, which brings a process to life and stores its
pages, `putInBackStore`, `killProcess`. `parttwo.cpp` creates the processes and
prints. *Hard*: array bounds, a store that fills up at once, what is left after
a death. *Correct when*: a process is alive once at most, and a slot is free for
whoever comes next.

### proj_03: the threaded sort (`other.cpp`; another version is `partthree.cpp`)

*State*: the list read, `masterSortedList`, `globalLock`, the counter
`m_numOfRunningThreads`, and per thread `m_thread` and its piece.
*Operations*: partition, `createAndExecuteThread`, `performSortOnThread` (six
sorts), `onThreadFinished` (join, lock, merge, unlock, count down), main's
polling and `writeContentsToFile`. *Hard*: the counter and `m_thread` are
written by main and by threads without a lock; empty pieces. *Correct when*:
every piece is merged once, and main writes when all are.

### proj_03: the rest

- `partthree_ll.cpp`: a doubly linked list (`insert`, `remove`, `print`,
  `get_nth_element`). Correct when links, `size` and the operations agree.
- `partone.cpp`, `partoneb.cpp`: main forks children, works, and polls them.
  State: a counter in main, and the kernel's knowledge of each child. Hard: a
  fork that fails, a poll that does not wait. Correct when main fails only when
  it must, and ends.
- `parttwo.cpp`, `parttwob.cpp`: threads throw darts and estimate pi. State: an
  array of results in the heap, a counter in each thread. Hard: results read
  before they are written, the array freed too early. Correct when every dart is
  thrown and counted once.
- `test.cpp` (also in proj_05), `partthreeb.cpp`: experiments.

### proj_02

A boot sector in assembly that prints text through the BIOS.

`PROJECT.json` lists all of these, the hazards each is exposed to, and which
properties watch over them.

## 2. Modules, and how they correspond to the code

| Module | Models | Used by |
|---|---|---|
| `FifoBuffer` | what a bounded buffer promises | `BoundedBuffer` (refinement) |
| `BoundedBuffer` | `project4a.cpp`, `proj_04/partone.cpp` | `MCBoundedBuffer`, `BoundedBufferProofs` |
| `ForkSort` | `project4b.cpp` | `MCForkSort`, `ForkSortProofs` |
| `MergeSort` | `merge`, `merge_sort`, `selectionSort` of `project4b.cpp` | `MCForkSort`, `MCPrograms`, `SortProofs` |
| `SwapLoop` | `loop()` of `proj_05/partone.cpp` and all it reaches | `MCSwapLoop`, `SwapLoopProofs`, `SwapOps` |
| `SwapStore` | what swapping promises to the processes | `SwapOps` (refinement) |
| `SwapOps` | the swap operations of `proj_05/partone.cpp`, over `SwapLoop` | `MCSwapOps`, `SwapOpsProofs` |
| `Paging` | `proj_05/parttwo_dt.cpp` | `MCPrograms`, `ProgramsProofs` |
| `ThreadSort` | `proj_03/other.cpp`, its threads | `MCThreadSort`, `ThreadSortProofs` |
| `SortRoutines` | `proj_03/other.cpp`, its sorts and merges | `MCPrograms`, `MCThreadSort`, `SortProofs` |
| `LinkedList` | `proj_03/partthree_ll.cpp` | `MCPrograms`, `ProgramsProofs` |
| `Children` | `proj_03/partone.cpp`, `partoneb.cpp` | `MCPrograms`, `ProgramsProofs` |
| `Darts` | `proj_03/parttwo.cpp`, `parttwob.cpp` | `MCPrograms`, `ProgramsProofs` |
| `SumFacts` | nothing of the code: lemmas on sums over finite sets | all `...Proofs` but `SwapLoopProofs` |

`SortProofs` has no component of its own: it is about the functions of `MergeSort`
and `SortRoutines`, and `ThreadSortProofs` and `ProgramsProofs` (which is about
`MCPrograms` and all it runs) cite it.

Definitions whose comment begins with "Mutant of" are faulty variants of the
definition after them. No run uses them as they stand; put in the place of the
original they show that a property can fail.

**BoundedBuffer.** `mpc` and `k` are main's place and loop counter; `pc[t]` is
the place of thread `t` in `producer` or `consumer`. One step is one call on a
semaphore or the mutex, or one half of `push` or `pop`: `PushLink` links the
node and `PushCount` does `size++`; `PopUnlink` unlinks and `PopFree` frees.
Nodes are addresses that `malloc` may reuse; a new node's `next` is arbitrary,
as the code never assigns it. The two programs differ in main only; the record
`Program` says how (initial value of `empty`, which routine the consumer
threads run, whether main joins when `quit` is 0). `pthread_create` may fail
(`CreateFails`): main goes on, and later joins an id that was never assigned
(`JoinGarbage`). What is abstracted: the values (`rand() % 200 + 1`) are a small
set, and printing is left out.

main takes no mutex, and destroys it under the threads it has not joined.
`pthread_mutex_lock` then fails or not (`lock` is 2 when it does), nobody looks at
the result, and threads run `push` and `pop` beside each other and beside main.
As soon as two are at the queue at once, `torn` is TRUE: counts may be lost,
links broken, freed memory followed. Then the model says nothing of the queue
any more: every test of it may come out either way, every access may crash
(`TornAccess`, `EmptyQTorn`), and the threads go on using a queue that main has
freed until main returns. The semaphores and the places of main and of the threads
are still those of the program.

**ForkSort.** The kernel is a sequence of semaphores and the function `name`
from the two names to them. A process keeps the semaphore it opened even when
the name is gone. A child's batch is sorted in memory no one else sees, so it
is a step of the semaphore call before it. `Kill` and `Restart` model the user
who interrupts the program and starts it again; the kernel survives.

**SwapLoop.** A quantum is `Place` or `NoHole`, the latter followed by the walk
of `putProcessInHole()`, one `Scan` a turn, because it may not end. Of a free
cell the code reads `processes[-1]`: with the layout of `struct processMap`
(`memory` directly before `processes`) these are the last six cells of memory,
and so the model reads them.

**SwapOps** extends `SwapLoop`: the same memory, table and counters, and the
burst times, the ring `bs`, `head` and `tail`. `loop()` reaches few of these
operations (`NothingToSwap`), so the module calls them the way they were
written to be called: a quantum draws any process (`Draw`) and goes through
`putProcessInHole` with any of the three fits (`PutInHole`), or the walk
(`Walk`, `SwapOut`, `Fill`); between quanta `decrementBurst` may run, and
`compaction` may be called. `proc = NULL` is the `NULL` handed to
`runAlgorithm`. What `putInBackStore` takes for the process it copied is
`bs[tail - 1]` (`LastCopied`). With `tail` at 0 that is the integer in front of
`backStore`; in builds with g++, `-O0` and `-O2` alike, it is padding between
two zeroed globals, so process 0 (`BeforeStore`).

As in `loop()` (line 189), a process that is in memory may be drawn, and gets
a second copy. `redrawn` counts how often. What swapping keeps then is little:
the table knows the last copy only, a swap takes the copy it meets first, so
that a process may be in memory and in the ring at once, and `compaction()`
clears the copy the table knows when it means another one, and need not end.
So the properties come in two kinds. Types, `PlacesSuffice` (but for its last
part) and `UsedFollowsCells` hold whatever is drawn. `SwapsHold`,
`HeadNeverTurns`, `CompactionKeepsOrder`, `CompactionEnds` and `ImplementsStore`
hold as long as only processes are drawn that are not in memory, and say so.

The program is "astray" when the ring is overrun, when `tail` comes round to 0,
when what the walk takes for an idle process is not one whole copy of a
process, or when `compaction()` is to move what the table has in the back store:
what it does to other processes depends on the cells it hits, and the model ends.

**SwapStore** is what swapping is for: a process is loaded, stored or not
started, and the store is a queue. `StoreQueue` reads that queue off the ring:
the stored processes, by their distance from `head`.

**Paging.** `touchProcess` is one step, in two cases: `Touch` when the process
has time left, `TouchLast` when it is killed. The pointers stored in the page
table and in the back store point into a copy of the process on the stack that
is dead when the function returns and whose place the next call reuses. So a
stored pointer is the number of a page in that copy, whosever pages may lie
there later. Nothing ever follows one. `killProcess` runs on behind its
array: the model lets it crash, or go on, or take cells of `backMem` for
entries and overwrite them, which are the outcomes in the two builds.

**Children.** The kernel's view of a child is `child[k]`: running, zombie,
reaped, or never forked (the pid is 1 then). `Poll` is one `waitpid`.

**Darts.** The threads' loops are a step a dart. Where a dart lands is a choice.
The sets `PartTwo` and `PartTwoB` are the calls main makes; an assumption
evaluated by TLC says that the number of threads divides the darts in each.
`pthread_create` and `pthread_join` may fail (`CreateFails`, `JoinFails`): main then
frees the array, under threads that may still write to it, and exits.

**MCPrograms** puts the small programs in one instance: the variable `program`
says which is run, and the others stay as they are. It also runs every sorting
routine on every short list.

**ThreadSort.** `++` and `--` of the counter are a read and a write each.
`m_thread` holds the thread's id, or main's once main has overwritten it.
`pthread_join` of oneself fails, of main blocks for ever, and of a thread
someone else is joining fails. The partition and the merges are over real
lists.

**SortRoutines, MergeSort.** Pure functions from list to list. Every loop of
`SortRoutines` is a `Loop(body, s, n)`: `n` turns, the `k`-th of which makes
`body[k][r]` of what the `k - 1` before it left. A `while` has as many turns as it can
take at most, and one that finds its condition false changes nothing. `doQuickSort`,
`doMergeSort`, `merge` and `merge_sort` are recursive functions. The `long` numbers are
integers: the routines compare and copy them, and add only indices.

**LinkedList.** The five cases of `insert`, `remove` and the walks, on node
addresses. Only well-formed calls: `n` is NULL or a node of the list.
`get_nth_element` of a negative number is the head, as in the code.

## 3. Runs

| Run | Instance | What it asks |
|---|---|---|
| `BoundedBuffer_quit` | project4a, 2+2 threads, any of which may not be created, 2 places, 2 values, asked to stop | guards of the queue, joins, FIFO refinement |
| `BoundedBuffer_overflow` | project4a, 2+2 threads (may fail), 1 place, `quit` arbitrary, fair | values dropped by a full queue; the chain; no lock-up before the stop, rest after it |
| `BoundedBuffer_partone` | partone, 2+1 threads (may fail), 3 places, `quit` arbitrary | the slots under a main that does not join, and when it may race with threads |
| `BoundedBuffer_hang` | project4a, 1+1 threads, 1 place, fair | *violated*: main returns after the stop |
| `ForkSort_sorted` | 2 children, batches of 2, every list of 4 over 3 values, calls may fail | every merged prefix, and the list written, is sorted |
| `ForkSort_runs` | 2 runs, 2 children with 2 batches each, 1 token, kills, calls may fail, fair | tokens, keeping step, names left, the end of a run |
| `SwapLoop_quanta` | 16 cells, 4 processes of sizes 2, 3, 8, 6 quanta, fair | cells, counters and extents agree; nothing is swapped; when the walk ends |
| `SwapLoop_ends` | 16 cells, 3 processes of sizes 2, 8, fair | *violated*: the simulation ends |
| `ThreadSort_trials` | both trials, a list of 5 and a list of 1, creation may fail | each piece merged once, at most one lost, main's early end |
| `ThreadSort_finished` | trial 1 | *violated*: "All threads finished!" |
| `SwapOps_store` | 8 cells, root of 2, 4 processes of sizes 2 and 3, any order of operations, one draw of a process that is in memory, fair | types, places and the counter with copies; without them, memory, ring and table agree; compaction; the abstract store |
| `Programs_all` | list: 4 nodes; children: 4; darts: 3 calls, up to 3 threads; paging: 2 letters, up to 3 pages and 3 touches to live, 7 touches; sorts: every list of up to 6 numbers of 3 values | links, `size` and walks; the poll; every dart counted; who is alive; all routines sort, the merges agree |

`TypeOK`, `MutualExclusion` and `FifoUntilTorn` of `BoundedBuffer` and `TypeOK` of
`SwapLoop` and of `ForkSort` are in no run: they are proved for every instance.

**Why the bounds are enough.** Two threads of a kind are what it takes for one to
overtake another of its own kind and of the other; two places make the order of values
visible, one place with two producers makes the queue overflow. In
`BoundedBuffer_partone` there are fewer consumers than producers, so that main's
second join loop reads past `cons[]`, and three places, so that three producing
threads can all exit and be joined. No run has more consumers than producers, of whom
main leaves some unjoined; that they race with main and with nobody before is
`RacesAreLate`. The counts, the chain and the guards are also proved for any number.
Two runs are enough for one to inherit from another, and the kernel keeps nothing
else. A third run would add one case, a child left behind by the first that opens the
second's semaphores and posts on them while the third is under way: it may take the
last token of the new "c" and post to the old "p", which leaves the third run waiting
for ever. `KeepStep` and `Finishes` exclude it (`Alone`); the first is proved for any
number of runs. Two children with two batches and one token make each wait for the
other and for main. In `SwapLoop`, sizes 2, 3 and 8 in 16 cells fill memory to each of
the cells 10 to 15 that are read for a process, and leave holes too small for some
processes and not for others; six quanta fill memory and walk it. In `SwapOps`, 8
cells of which the root takes 2 hold up to three more, so that memory is full or has
holes in any place, too small for some processes and not for others, and the sorted
holes differ from the holes in order; four swaps of size 2 bring the tail of the ring
of 8 back to 0, three of size 3 overrun it. One redraw (`MaxRedrawn`) gives two copies
of a process, of which one can be stored, moved or cleared in the place of the other.
With copies `compaction()` may count memory without end: `MaxUsed` stops following it
at a `memUsed` of 12, which no behaviour without copies reaches (`CompactionEnds`
would fail there). A burst of 1 lets a process run out at once: a longer one only
delays it, as nobody is forced to run `decrementBurst`; below -1, `burstTime` makes no
difference (`BurstFloor`). `MCSwapOps` takes the sizes in ascending order, as
processes differ in nothing else. In `Paging`, two letters and three slots let each
process die while the other is alive; with lifetimes of up to 3 and 7 touches a
process dies and comes back several times; four cells of back store are filled at
once, as the 720 are. In `Darts` the calls are scaled down from those of the programs,
divisible like them. In `ThreadSort` the four threads of trial 2 are all there are;
the contents of the list do not influence the schedule except for empty pieces, which
the list of one number gives. `Values`, `Nodes` and, for `LinkedList`, `MinSize` bound
data; `MaxRuns`, `MaxQuanta` and `MaxTouches` bound time.

CHECK_DEADLOCK is FALSE throughout: all the programs end, and some stop on a
semaphore nobody posts, which is what `QuietAfterStop` and `ExitsAfterStop`
are about.

**Fairness.** Weak fairness of main and of every thread or process: the
operating system runs whoever can run, and `sleep()` returns. Nothing stronger:
neither POSIX mutexes nor semaphores promise to serve waiters in turn. So
`TakesForever` says that consumers as a whole take values for ever, not each
one. A user's kill and restart, and failing calls, have no fairness. In
`SwapLoop` and `SwapOps` the program is one thread, and fairness of `Next` says
that it runs; random choices are not assumed to be fair, nor are the calls of
`compaction` and `decrementBurst`.

## 4. Proofs

`BoundedBufferProofs`, for any number of threads, nodes, values and places, for
both programs, and whichever threads cannot be created:

- `Invariance`: the inductive invariant `IInv == QueueInv /\ NotStarted`. The
  types are not inductive by themselves: `pop()` sets `head` to the `next` field
  of the first node, which `push()` never initialises, so that `head` stays a
  pointer only because the queue is a chain of allocated nodes, and it stays
  one only as long as no two are at the queue together.
  `QueueInv` therefore joins `TypeOK`, `MutualExclusion` (until the mutex is
  destroyed), and, until `torn`, `TempsOK` (a node in `temp` belongs to one caller,
  who is about to free it) and `QueueChainIntact`; `NotStarted` says that main
  starts each thread once.
- `TypeCorrect`, `Exclusion`, `ChainCorrect` follow, each with its own condition:
  exclusion holds until main destroys the mutex, the chain until the first race.
  `QueueChainIntact` names the chain by an existential sequence; each step builds
  the next one (append for a push, tail for a pop).
- `SlotsConserved` and `ItemsAccounted` count threads by `Cardinality`; each
  step moves one thread in or out of a set. The slots survive races, as the
  semaphores do.
- `QueueGuarded`: from the two counts, a thread at the queue implies a free or
  a taken place.
- `JoinsSuffice`: when main empties the queue its join loops have passed every
  thread it could create, whenever `AllJoined`.
- `RacesAreLate`: so `torn` stays FALSE in these instances, and in the others until
  main is through with the join loops. Here exclusion and the chain hold
  without a condition.
- `IsFifoUntilTorn`: every step up to the first race is a step of `FifoBuffer` or
  leaves it alone, for any main. `size` is the length of the chain but for a `push`
  or `pop` that is half done, and with what producers and consumers hold of the
  semaphores (`Counts`) no more than `Slots` values are in the chain when one is
  added. `Contents` is a recursive function along `next`; what it yields for a chain
  is `Walk`, and `WalkIs` shows it by the shortest chain for which it would not.
- `IsFifo`: the refinement of `FifoBuffer`, for instances whose join loops reach
  every thread (`NumCons <= NumProd`, and project4a or a stop that was asked for).
  For the others it does not hold, as main and the threads race in the end.

`ForkSortProofs`, for any number of runs, children, batches and tokens, with
processes stopped and started again at any point:

- `PrefixAlwaysSorted` and `WrittenSorted`, from the assumption that `merge_sort`
  returns its first `n` elements sorted (`SortAssumption`, which TLC evaluates for the
  program's own `merge_sort` on all lists of `ForkSort_sorted`, and `MergeSortSorts`
  proves of it for every list). The invariant relates main's place to `sorted_size`;
  what the semaphores hold does not matter.
- `TypeCorrect` (`HandlesInv`): whatever id a process holds was made by
  `sem_open` for the name it asked for, so that a parent's is never a child's.
- `NamesAreRemoved` (`NamesOwed`): for a name that exists somebody is still on
  the way to unlinking it, or somebody was stopped.
- `TokensAreNotMade` (`TokenInv`): what the semaphores hold beyond the tokens
  they were made with, and what is in hands, is at most nothing. The sum over
  all semaphores is needed, as a name may lead to several over time.
- `StepIsKept` (`PaceInv`): `sorted_size` plus the posts main has not taken is at
  most what the children handed over; what they took plus the tokens left is at
  most `sorted_size` and the first tokens. It holds for the run's own
  semaphores only, and only if nobody of another run has them open.

`SwapLoopProofs`, for any memory, sizes, processes and quanta: `TypeCorrect`,
`PrefixUsed`, `ExtentsAreHeld`, `HolesInside`, `NothingSwapped`. The core is
that the used cells are the first `memUsed` ones: then the only hole is at the
end of memory and first fit puts every process there. Its size is counted
around the end of memory, but cell 0 is always in use, so it is not
overstated. `NothingSwapped` needs that the cell read for the state of
`processes[-1]` is either free, or the last one of memory, in which case
memory is full and no free cell is met.

`SortProofs`, for any list of numbers of any length:

- `MergeSortSorts`: `merge_sort` of project4b sorts the first `n` elements, leaves
  the others alone and permutes. For lists `[1 .. ListSize -> V]` this is
  `SortAssumption`. `SelectionSortSorts`: `selectionSort` sorts and permutes too; after
  `x` turns no element up to `x` is greater than one behind it (`SelectedUpTo`).
- `DoSelectionSortSorts`, `DoBubbleSortSorts`, `DoInsertionSortSorts`,
  `DoShellSortSorts`, `DoQuickSortSorts`, `DoMergeSortSorts`: so do the six sorts of
  `other.cpp`; together, `SortOnThreadSorts`. `doQuickSort` and `doSelectionSort` need
  a list that is not empty, as the code does.
- `MergeUnsortedIsMerge`, `MergeSortedIsMerge`: the three merges of the two programs
  return the same list for any two lists, sorted or not; `MergeSortedListsMerges`: for
  sorted ones it is sorted and has the numbers of both.

Recursive functions are a `CHOOSE` of one that has the equation of the
definition, so first there must be one: for `merge` it is filled in from the
ends of the two lists, for `merge_sort` from the short sequences to the long
ones, for `doQuickSort` from the short parts of a list, for a loop from its first
turn (`TableExists`, `SortExists`, `QuickExists`, `TurnsExist`, `LoopExists`).
What holds everywhere is then proved by the shortest sequence, or the first
turn, for which it would not hold. For the loops that is done once: what every turn
keeps is true at the end (`LoopKeeps`). The invariants of the loops:

- bubble sort, `PassAt`: the greatest of the numbers passed is at the place
  reached, and behind the last exchange all are in order (`TailDone`: in their
  places), so that the next pass may be as short as `newN` says.
- insertion and shell sort, `HoleAt`: the numbers passed have moved up one gap,
  and are greater than the one that was taken out. Only gap 1 matters for the
  order at the end; the other gaps permute.
- quick sort, `Crossed`: left of `i` nothing is greater than the pivot, right of
  `j` nothing less, and while `i` and `j` have not crossed each of them has such a
  number to stop at, so that neither leaves the part it is called on. The parts sorted
  next, and what is between them, are in order with each other.
- the merges, `EatenAt` and `RunAt`: what was taken, followed by `merge` of what is
  left, is `merge` of the whole.

`ThreadSortProofs`, for any lists, and any sorts and merges that do on those
lists what `RoutinesAssumption` says. TLC evaluates it for those of
`SortRoutines` on the lists of the runs, and `RoutinesOfTheProgramFit` proves it of
them for every list:

- `TypesHold`: how far the counter strays is bounded by how many threads main had
  counted in, and how many had counted themselves out, when a value was read.
- `AtMostOneIsLost`: a thread is lost only while it joins main, and only one can.
- `FinishIsUndisturbed`, an action property: without a thread that counts itself
  out while main counts in, lost updates only keep main waiting.
- `EachIsMergedOnce`: `masterSortedList` has each number as often as the pieces
  of those that merged; the mutex keeps the merges apart.

`ProgramsProofs`:

- `ChildrenTypeCorrect`, `ChildrenFailOnlyForFork`, `ChildrenPolledOnce`, for any
  number of children. As every answer of `waitpid` counts as an end,
  `current_children` is `NumChild - c` during the first round (`OneRound`), so
  there is no second one, in which a reaped child would be polled.
- `EveryDartIsCounted`, `NoWriteAfterFree`, for any call of `parttwo`: main's sum
  is that of the hits of those it has joined, and it has joined all when it returns.
  When a thread could not be created or joined, main frees the array under threads
  that write to it, and nothing is claimed of that.
- `ProcessesLiveOnce`, for any number of processes and pages: `aliveProcess` has the
  processes with time left, each once, and `killProcess` overwrites every slot of its
  process with '-'.
- `ListKeepsItsNodes`: there is a sequence that is the list, forward by `next`
  and backward by `previous`; each case of `insert` and `remove` builds the next
  one.
- `ProgramsApart`: a behaviour of `MCPrograms` is one of each of the small programs,
  so that these theorems hold there; with it `ProgramTypesCorrect`.
- `RoutinesAlwaysAgree`: whichever routine of the two programs `MCPrograms` runs, on
  whatever list of numbers, the list comes out sorted with each number as often,
  and the merges agree: from `SortProofs`, with `ListsAssumption` (the values are
  integers).

`SwapOpsProofs`, for any memory, sizes and processes, until the program goes
astray, from two inductive invariants. `SwapInv` says where everything is; it holds
as long as only processes are drawn that are not in memory (`OrderlyInv`).
`CopiesInv` is what copies leave of it: the root is in its cells and nowhere else
(so that no hole is counted around the end of memory), no other entry lies among
those cells, what is stored is whole copies, one behind
the other from `head` to `tail` (`RingCopies`), and a call to `putInMemory` that
was promised a place has it (`CallGoesOn`).

- Whatever is drawn, from `CopiesInvariance`: `SwapTypeCorrect`;
  `PlacesAlwaysSuffice` (for holes and for places of processes swapped out: a whole
  copy of a process that is big enough lies there); `UsedIsCounted` (the cells of a
  process are as many as its size); and of `OrderIsKept`, that `compaction()` leaves
  one hole at the end when it returns.
- Without copies, from `SwapInvariance`: `SwapsLoseNothing`. In the ring cells are
  counted by their distance from `head` (`RingHolds`): up to some `n` they are all
  taken, each stored process in one run, and from `n` on all free.
- `OrderIsKept`, its other part: what is behind the first hole moves to its start,
  past nobody.
- `HeadGoesOnce` (`AgeInv`): what was loaded from the store is never idle again
  (its `burstTime` has passed 1), so it stays in memory; `head` is the number of cells
  those processes take, and they and the root fit in memory.
- `IsStore`: every step is a step of `SwapStore` or leaves it alone. The `k`-th of
  `StoreQueue` is the stored process with `k - 1` others between `head` and its
  first cell (`Behind`); there is exactly one, as no two begin at the same distance. Who
  is stored has all the others before it; when the process at the head is loaded,
  the others have one less before them. A step that places a second copy, or goes
  astray, is `Broken`, after which the abstract store promises nothing.

`SumFacts` has what these need to know of `MapThenSumSet`. The library's
induction theorems cannot be used, so where something holds for every finite
set or sequence (`AddsRemove`, `WalkIs`, `SizesCount`) the proof takes the least size
for which it fails (`Least`).

**Only model-checked**: liveness (`TakesForever`, `QuietAfterStop`, `Finishes`,
`ScanEnds`, `CompactionEnds`), since the prover has no rules
for `ENABLED`. Every other property of a run that passes is a theorem.

**Where each assumption comes from.** The constants of a module are assumed to be
what the program can be compiled or called with, and no more, by the named
`ASSUME`s at its head, which TLC evaluates for the instances of the runs. Two
assume that a routine works, `SortAssumption` of `ForkSort` and
`RoutinesAssumption` of `ThreadSort`, so that the proofs about processes and
threads do not depend on how a list is sorted; `SortProofs` and
`RoutinesOfTheProgramFit` discharge them.

## 5. Where the code departs from what it says

Shown by a run each:

- `BoundedBuffer_hang`: after `done = 0` a thread that waits on its semaphore is
  never woken when those that would post it have gone; main joins it for ever.
- `SwapLoop_ends`: when the drawn process fits in no hole, the walk steps over
  a free cell by what it takes for a size, -1 perhaps, and goes back and forth.
- `ThreadSort_finished`: a decrement of the counter overwrites an increment,
  and main says "All threads finished!" while one runs.

Met while modelling, part of the models as the code has them, with no run of
their own:

- `emptyQ` (`project4a.cpp:140`) counts up to a `size` that `pop` counts down:
  half of the queue stays (`EmptyQ` has the same guard).
- `proj_04/partone.cpp:118-123`: with `quit` 0, main destroys the mutex and empties
  and frees the queue while the threads run; so does `project4a.cpp` with more
  consumers than producers (`project4a.cpp:115,123`). From then on the queue is
  `torn`.
- `proj_04/partone.cpp:101` starts the consumer threads on `producer`.
- `waitpid` with `WNOHANG` returns 0 for a child that runs, and
  `project4b.cpp:99` prints that it "has exited" (`Poll`).
- `loop()` places a running process again (`proj_05/partone.cpp:189`); its old
  copy stays in memory (`Place`, and `redrawn` of `SwapOps`).
- `numProcess`, printed as LOADED, is not counted up for a process that is
  not from the back store (`proj_05/partone.cpp:518`; `PutInMemory`), and down for
  everyone who is stored (line 502; `putInBackStore`).
- `bs[tail - 1]` (`proj_05/partone.cpp:503-505`) lies before the array when the
  ring has come round (`LastCopied`), and the ring is not checked for its
  capacity (`Overruns`).
- A process whose time was up and that is made RUNNING again, by coming back or
  by being moved, never is idle again (`proj_05/partone.cpp:206`;
  `Expires`), which is why `HeadNeverTurns` holds.
- Every move of `compaction()` counts the process in `memUsed` once more
  (`proj_05/partone.cpp:339`; `UsedFollowsCells` excepts it). Its condition
  `|| n > 250` would keep the loop going, and `holes.at(0)` throws when memory
  is full (`CompactThrows`).
- "load all into backingStore" (`parttwo_dt.cpp:237`) fills all cells with one
  pointer, to the first page in a copy that is dead, and stores nothing else
  (`putInBackStore`).
- `killProcess` runs to 52 over an array of 23 (`parttwo_dt.cpp:276`;
  `TouchLast`).
- "child ended" (`proj_03/partone.cpp:42`) is said of a child that runs
  (`CountsAsEnd`).
- `parttwo.cpp:72` frees the array the threads write to, before `exit(1)` ends them
  (`CreateFails`).
- A thread of `other.cpp` that reads `m_thread` after main overwrote it
  (line 88) joins main and never merges its piece (`Join`; `AtMostOneLost`
  says that this cannot happen to two).
- `get_nth_element(&list, 4)`, printed as the fourth element
  (`partthree_ll.cpp:69-71`), counts from 0.

## 6. Not modelled, and why

- What is in the queue of proj_04 after a data race, and what happens in
  `proj_05/partone.cpp` after the program went astray: anything may be anywhere.
  `putInBackStore` with a process (lines 487-491) has no caller, and the second chance
  of `putProcessInHole` (lines 423-429) is never taken (`PlacesSuffice`).
- `test()` of the same file, a fixed sequence of the operations modelled.
- `parttwo.cpp` of proj_05, which creates processes and prints them.
- `partthree.cpp` reads its lists after freeing them and fails on
  `thread_list.at(2)` before any thread runs; its sorts are those of `other.cpp`.
- `quick_sort` and `importList` of `partthree_ll.cpp`, which have no caller.
- Printing, parsing of arguments and files, the boot sector, the experiments
  and the older snapshot `partone_seg.cpp`.

## 7. Plan

Done, in this order because it goes from the programs whose schedules matter
most to the sequential ones: `BoundedBuffer` with `FifoBuffer` and its proofs;
`ForkSort` with `MergeSort` and its proofs; `SwapLoop` and its proofs;
`ThreadSort` with `SortRoutines`; `LinkedList`; `SwapOps` with `SwapStore`;
`Children` and its proofs; `Darts`; `Paging`.

Then the proofs: all safety properties of the runs, the refinements of
`FifoBuffer` and of `SwapStore`, and that the sorts of both programs sort every
list. What is left is liveness, which is checked and not proved, and the parts
named in section 6.

## 8. How to run

    tlc -config BoundedBuffer_quit.cfg MCBoundedBuffer
    tlapm BoundedBufferProofs.tla

Each configuration `M_x.cfg` belongs to the module `MCM.tla`.
