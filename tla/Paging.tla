------------------------------- MODULE Paging -------------------------------
(***************************************************************************)
(* proj_05/parttwo_dt.cpp: processes are touched at random; one that is    *)
(* not alive is brought to life first, its pages going to the page table   *)
(* and to the back store, and one whose time is up is killed.              *)
(*                                                                         *)
(* Main memory is never written (putInMemory() is empty), the page table's *)
(* ref never set.  What is stored are no pages but pointers into a copy of *)
(* the process on the stack: the page table points into temp1 of           *)
(* touchProcess(), the back store into temp of putInBackStore().  Both are *)
(* dead when the function returns, and every call has its copy at the same *)
(* place, so that a pointer is the number of the page in it, whosever page *)
(* was there.  Nothing ever follows one.                                   *)
(***************************************************************************)
EXTENDS Integers, FiniteSets, FiniteSetsExt

CONSTANTS
  Letters,          \* the processes that are touched, A to V
  PageCounts,       \* how many valid pages createProcess() may give one
  Lifetimes,        \* what timeAlive may be set to
  MaxPages,         \* MAX_PAGES
  Overlaid,         \* the cells of backMem that lie where aliveProcess would
                    \* have its entries up to 51
  MaxTouches        \* how often main calls touchProcess()

EMPTY   == "-"          \* the processID of a slot that is free
NoPage  == -1           \* the pointer 0
GARBAGE == -2

ASSUME PagingAssumption ==
  /\ IsFiniteSet(Letters) /\ EMPTY \notin Letters
  /\ PageCounts \subseteq Nat \ {0} /\ Lifetimes \subseteq Nat \ {0}
  /\ MaxPages \in Nat \ {0} /\ Overlaid \subseteq 0 .. MaxPages - 1
  /\ MaxTouches \in Nat

Slots == 0 .. Cardinality(Letters)      \* PROCESS_COUNT: one is the kernel's

VARIABLES
  validPages, timeAlive,        \* fields of processList
  aliveProcess,                 \* the processID of each slot
  pTable,                       \* pTable.pTable[0], the only entry written
  backMem,
  touches, crashed

pagingVars == <<validPages, timeAlive, aliveProcess, pTable, backMem, touches,
                crashed>>

\* initProcesses(), initPageTable()
PagingInit ==
  /\ validPages \in [Letters -> PageCounts]
  /\ timeAlive \in [Letters -> Lifetimes]
  /\ aliveProcess = [s \in Slots |-> EMPTY]
  /\ pTable = NoPage
  /\ backMem = [b \in 0 .. MaxPages - 1 |-> NoPage]
  /\ touches = 0 /\ crashed = FALSE

\* Mutant of isAlive: the first slot is left out.
isAliveShort(p) == \E s \in Slots \ {0} : aliveProcess[s] = p

isAlive(p) == \E s \in Slots : aliveProcess[s] = p

\* The first free slot gets the process.
Occupy(p) ==
  [aliveProcess EXCEPT ![Min({s \in Slots : aliveProcess[s] = EMPTY})] = p]

\* The address of page pNum in the copy goes to every free cell.
putInBackStore(mem, pNum) ==
  [b \in DOMAIN mem |-> IF mem[b] = NoPage THEN pNum ELSE mem[b]]

\* The pages of a process, in order.
StoreAll(p) ==
  LET stored[n \in 0 .. validPages[p]] ==
        IF n = 0 THEN backMem ELSE putInBackStore(stored[n - 1], n - 1)
  IN  stored[validPages[p]]

\* The first part of touchProcess(): p is alive afterwards.
Load(p) ==
  IF isAlive(p) THEN UNCHANGED <<aliveProcess, pTable, backMem>>
  ELSE /\ aliveProcess' = Occupy(p)
       /\ pTable' = validPages[p] - 1
       /\ backMem' = StoreAll(p)

\* touchProcess() of a process with time left.
Touch(p) ==
  /\ ~crashed /\ touches < MaxTouches
  /\ timeAlive[p] > 1
  /\ Load(p)
  /\ timeAlive' = [timeAlive EXCEPT ![p] = @ - 1]
  /\ touches' = touches + 1
  /\ UNCHANGED <<validPages, crashed>>

\* Mutant of Renewed: the process gets no new time.
RenewedNot(p) == {0}

\* What killProcess() sets timeAlive to.
Renewed(p) == Lifetimes

\* touchProcess() of a process whose time is up ends with killProcess().  Its
\* loop goes on behind the array: the program crashes there, or goes on, after
\* it may have taken cells of the back store for entries of the process.
TouchLast(p) ==
  /\ ~crashed /\ touches < MaxTouches
  /\ timeAlive[p] = 1
  /\ LET loaded == IF isAlive(p) THEN aliveProcess ELSE Occupy(p)
         stored == IF isAlive(p) THEN backMem ELSE StoreAll(p)
     IN
     /\ aliveProcess' = [s \in Slots |-> IF loaded[s] = p THEN EMPTY
                                                          ELSE loaded[s]]
     /\ pTable' = IF isAlive(p) THEN pTable ELSE validPages[p] - 1
     /\ \/ crashed' = FALSE /\ backMem' = stored
        \/ crashed' = TRUE /\ backMem' = stored
        \/ crashed' = FALSE /\ backMem' = [b \in DOMAIN stored |->
                            IF b \in Overlaid THEN GARBAGE ELSE stored[b]]
  /\ \E n \in Renewed(p) : timeAlive' = [timeAlive EXCEPT ![p] = n]
  /\ touches' = touches + 1
  /\ UNCHANGED validPages

PagingNext == \E p \in Letters : Touch(p) \/ TouchLast(p)

-----------------------------------------------------------------------------
PagingTypeOK ==
  LET Pages == Nat \cup {NoPage} IN
  /\ validPages \in [Letters -> PageCounts]
  /\ timeAlive \in [Letters -> Nat \ {0}]
  /\ aliveProcess \in [Slots -> Letters \cup {EMPTY}]
  /\ pTable \in Pages
  /\ \A b \in 0 .. MaxPages - 1 : backMem[b] \in Pages \cup {GARBAGE}
  /\ touches \in 0 .. MaxTouches /\ crashed \in BOOLEAN

\* A process is alive in one slot at most, over any number of deaths, so that
\* a slot is free for whoever is touched next.
AliveOnce ==
  /\ \A s, t \in Slots :
       aliveProcess[s] = aliveProcess[t] => s = t \/ aliveProcess[s] = EMPTY
  /\ \E s \in Slots : aliveProcess[s] = EMPTY
=============================================================================
