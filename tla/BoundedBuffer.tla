--------------------------- MODULE BoundedBuffer ---------------------------
(***************************************************************************)
(* The bounded buffer of proj_04: producer and consumer threads, two       *)
(* counting semaphores, one mutex and a linked queue whose nodes are       *)
(* malloc'ed and freed, under a main thread that creates the threads, asks *)
(* them to stop, joins them, empties the queue and returns.                *)
(*                                                                         *)
(* Two programs share this code and differ only in main: project4a.cpp and *)
(* its first version partone.cpp.  The record Program says how.            *)
(*                                                                         *)
(* Threads are numbered in creation order: prod[0..numProd-1] first, then  *)
(* cons[0..numCons-1]; main is 0.  A step of a thread is one call on a     *)
(* semaphore or on the mutex, or one half of push() or pop() (the half     *)
(* that touches the links and the half that finishes the operation), so    *)
(* that a broken lock would show as interleaved halves.                    *)
(*                                                                         *)
(* main does not take the mutex, and destroys it under threads it has not  *)
(* joined: two at the queue at once are a data race.  From the first one   *)
(* on (torn) nothing is said of the queue: whatever tests it may find      *)
(* anything, whatever touches it may crash, and the variables of the queue *)
(* keep the values they had, which are no longer those of the program.     *)
(***************************************************************************)
EXTENDS Naturals, FiniteSets

CONSTANTS
  NumProd,       \* argv[1]
  NumCons,       \* argv[2]
  MaxElements,   \* MAX_ELEMENTS
  ArgQuit,       \* TRUE when argc = 5, FALSE when argc = 4
  CreateMayFail, \* whether pthread_create may run out of resources
  ProgramName,   \* "project4a" or "partone"
  Nodes,         \* the addresses malloc can return
  Values,        \* the values rand() % 200 + 1 can yield
  NULL

ASSUME CountsAssumption ==
  /\ NumProd \in Nat
  /\ NumCons \in Nat
  /\ MaxElements \in Nat \ {0}
ASSUME ArgQuitAssumption == ArgQuit \in BOOLEAN
ASSUME CreateAssumption == CreateMayFail \in BOOLEAN
ASSUME ProgramAssumption == ProgramName \in {"project4a", "partone"}
ASSUME NullAssumption == NULL \notin Nodes

(***************************************************************************)
(* How main of each program sets the threads up:                           *)
(*   slots    the initial value of the semaphore empty                     *)
(*   poppers  whether the consumer threads are started on consumer()       *)
(*            (partone.cpp starts them on producer())                      *)
(*   joins    whether main joins the threads even when quit is 0           *)
(***************************************************************************)
Project4a == [slots |-> NumProd,     poppers |-> TRUE,  joins |-> TRUE]
PartOne   == [slots |-> MaxElements, poppers |-> FALSE, joins |-> FALSE]

Program == IF ProgramName = "project4a" THEN Project4a ELSE PartOne

Main      == 0
Producers == 1 .. NumProd
Consumers == (NumProd + 1) .. (NumProd + NumCons)
Threads   == 1 .. (NumProd + NumCons)

\* The threads by the routine they run, producer() or consumer().
Pushers == IF Program.poppers THEN Producers ELSE Threads
Poppers == Threads \ Pushers

VARIABLES
  mpc,                            \* where main is
  k,                              \* the counter of main's current for loop
  quit, done,                     \* main's local quit; the global done
  empty, full,                    \* the semaphores
  lock,                           \* the mutex: 1 when held, 2 destroyed
  pc,                             \* where each thread is
  temp,                           \* the local temp of pop(): NULL outside it
  size, head, tail,               \* the fields of the queue
  alloc,                          \* the nodes that are allocated
  data, next,                     \* the fields of the nodes
  torn                            \* there has been a data race at the queue

semVars   == <<empty, full, lock>>
nodeVars  == <<alloc, data, next>>
queueVars == <<size, head, tail, temp, alloc, data, next>>
mainVars  == <<mpc, k, quit, done>>
vars      == <<mainVars, semVars, pc, queueVars, torn>>

Pointers == Nodes \cup {NULL}

Goto(t, l) == pc' = [pc EXCEPT ![t] = l]

(***************************************************************************)
(* main sets up the queue and the semaphores.  quit is assigned only when  *)
(* argc is 5: with argc = 4 it is read uninitialised, so it may be         *)
(* anything.  A fresh heap holds arbitrary bits; they are chosen when a    *)
(* node is allocated.                                                      *)
(***************************************************************************)
Init ==
  /\ mpc = "create"
  /\ k = 1
  /\ quit \in IF ArgQuit THEN {1} ELSE {0, 1}
  /\ done = 1
  /\ empty = Program.slots
  /\ full = 0
  /\ lock = 0
  /\ pc = [t \in Threads |-> "unborn"]
  /\ size = 0
  /\ head = NULL
  /\ tail = NULL
  /\ temp = [t \in Threads \cup {Main} |-> NULL]
  /\ alloc = {}
  /\ data \in [Nodes -> Values]
  /\ next = [n \in Nodes |-> NULL]
  /\ torn = FALSE

-----------------------------------------------------------------------------
(***************************************************************************)
(* The threads.  Every thread dies with the process.                       *)
(***************************************************************************)
Running == mpc \notin {"exited", "crashed"}

\* sem_wait(&empty) in producer() and sem_wait(&full) in consumer().
SemWait(t) ==
  /\ pc[t] = "wait"
  /\ \/ /\ t \in Pushers
        /\ empty > 0
        /\ empty' = empty - 1
        /\ UNCHANGED full
     \/ /\ t \in Poppers
        /\ full > 0
        /\ full' = full - 1
        /\ UNCHANGED empty
  /\ Goto(t, "lock")
  /\ UNCHANGED <<mainVars, lock, queueVars, torn>>

\* Threads inside the region the mutex protects.
Critical == {t \in Threads : pc[t] \in {"access", "finish", "unlock"}}

\* main is in emptyQ(), or past it with the queue freed.
MainAtQueue == mpc \in {"empty", "free", "freed"}

\* Mutant of Lock: a thread does not wait for the mutex.
LockUnchecked(t) ==
  /\ pc[t] = "lock"
  /\ lock' = IF lock = 2 THEN 2 ELSE 1
  /\ torn' = (torn \/ Critical # {} \/ MainAtQueue)
  /\ Goto(t, "access")
  /\ UNCHANGED <<mainVars, empty, full, queueVars>>

(***************************************************************************)
(* pthread_mutex_lock(&lockMem).  Its result is not looked at: on a mutex  *)
(* that main has destroyed under the threads the call fails, and the       *)
(* thread goes on without it.  It races with whoever is at the queue.      *)
(***************************************************************************)
Lock(t) ==
  /\ pc[t] = "lock"
  /\ lock # 1
  /\ lock' = IF lock = 0 THEN 1 ELSE 2
  /\ torn' = (torn \/ Critical # {} \/ MainAtQueue)
  /\ Goto(t, "access")
  /\ UNCHANGED <<mainVars, empty, full, queueVars>>

\* The queue accepts a value: its condition compares size with capacity for
\* equality, and lets an empty queue through whatever its capacity.
HasRoom == size # MaxElements \/ size = 0

\* Mutant of PushLink: the new node goes before head instead of behind tail.
PushLinkAtHead(t) ==
  /\ pc[t] = "access"
  /\ ~torn
  /\ t \in Pushers
  /\ HasRoom
  /\ \E n \in Nodes \ alloc, v \in Values :
       /\ alloc' = alloc \cup {n}
       /\ data' = [data EXCEPT ![n] = v]
       /\ next' = [next EXCEPT ![n] = head]
       /\ head' = n
       /\ tail' = IF size = 0 THEN n ELSE tail
  /\ Goto(t, "finish")
  /\ UNCHANGED <<mainVars, semVars, size, temp, torn>>

\* Mutant of PushLink: the node is allocated before the queue is found full.
PushLinkLeaks(t) ==
  /\ pc[t] = "access"
  /\ ~torn
  /\ t \in Pushers
  /\ \E n \in Nodes \ alloc, v \in Values, garbage \in Pointers :
       /\ alloc' = alloc \cup {n}
       /\ IF HasRoom
          THEN /\ data' = [data EXCEPT ![n] = v]
               /\ next' = IF size = 0
                          THEN [next EXCEPT ![n] = garbage]
                          ELSE [next EXCEPT ![n] = garbage, ![tail] = n]
               /\ head' = IF size = 0 THEN n ELSE head
               /\ tail' = n
               /\ Goto(t, "finish")
          ELSE /\ Goto(t, "unlock")
               /\ UNCHANGED <<head, tail, data, next>>
  /\ UNCHANGED <<mainVars, semVars, size, temp, torn>>

(***************************************************************************)
(* push(), up to the printf: allocate a node, link it behind tail.  The    *)
(* next field of the node is never assigned: it holds whatever the memory  *)
(* held.  A full queue drops the value (the caller posts full all the      *)
(* same).  The value was drawn before the wait, by rand(): no one can see  *)
(* it before this step, so it is drawn here.                               *)
(***************************************************************************)
PushLink(t) ==
  /\ pc[t] = "access"
  /\ ~torn
  /\ t \in Pushers
  /\ \/ /\ HasRoom
        /\ \E n \in Nodes \ alloc, v \in Values, garbage \in Pointers :
             /\ alloc' = alloc \cup {n}
             /\ data' = [data EXCEPT ![n] = v]
             /\ next' = IF size = 0
                        THEN [next EXCEPT ![n] = garbage]
                        ELSE [next EXCEPT ![n] = garbage, ![tail] = n]
             /\ head' = IF size = 0 THEN n ELSE head
             /\ tail' = n
        /\ Goto(t, "finish")
     \/ /\ ~HasRoom
        /\ Goto(t, "unlock")
        /\ UNCHANGED <<head, tail, nodeVars>>
  /\ UNCHANGED <<mainVars, semVars, size, temp, torn>>

\* push(), after the printf: q->size++.
PushCount(t) ==
  /\ pc[t] = "finish"
  /\ ~torn
  /\ t \in Pushers
  /\ size' = size + 1
  /\ Goto(t, "unlock")
  /\ UNCHANGED <<mainVars, semVars, head, tail, temp, nodeVars, torn>>

\* Mutant of UnlinkHead: size is not decremented.
UnlinkHeadNoCount(t) ==
  /\ temp' = [temp EXCEPT ![t] = head]
  /\ head' = next[head]
  /\ UNCHANGED <<size, tail, nodeVars>>

\* pop() up to its printf, by a thread or by main: unlink the first node.
UnlinkHead(t) ==
  /\ temp' = [temp EXCEPT ![t] = head]
  /\ size' = size - 1
  /\ head' = next[head]
  /\ UNCHANGED <<tail, nodeVars>>

\* free(temp) at the end of pop().
FreeNode(t) ==
  /\ alloc' = alloc \ {temp[t]}
  /\ temp' = [temp EXCEPT ![t] = NULL]
  /\ UNCHANGED <<size, head, tail, data, next>>

PopUnlink(t) ==
  /\ pc[t] = "access"
  /\ ~torn
  /\ t \in Poppers
  /\ \/ /\ size # 0
        /\ UnlinkHead(t)
        /\ Goto(t, "finish")
     \/ /\ size = 0               \* "The queue is empty!"
        /\ Goto(t, "unlock")
        /\ UNCHANGED queueVars
  /\ UNCHANGED <<mainVars, semVars, torn>>

PopFree(t) ==
  /\ pc[t] = "finish"
  /\ ~torn
  /\ t \in Poppers
  /\ FreeNode(t)
  /\ Goto(t, "unlock")
  /\ UNCHANGED <<mainVars, semVars, torn>>

\* A half of push() or pop() on a queue that a race has torn.
TornAccess(t) ==
  /\ torn
  /\ \/ /\ pc[t] = "access"
        /\ Goto(t, "finish")
        /\ UNCHANGED mpc
     \/ /\ pc[t] \in {"access", "finish"}
        /\ Goto(t, "unlock")
        /\ UNCHANGED mpc
     \/ /\ pc[t] \in {"access", "finish"}
        /\ mpc' = "crashed"
        /\ UNCHANGED pc
  /\ UNCHANGED <<k, quit, done, semVars, queueVars, torn>>

\* pthread_mutex_unlock(&lockMem), which fails on a destroyed mutex.
Unlock(t) ==
  /\ pc[t] = "unlock"
  /\ lock' = IF lock = 2 THEN 2 ELSE 0
  /\ Goto(t, "post")
  /\ UNCHANGED <<mainVars, empty, full, queueVars, torn>>

\* Mutant of SemPost: the post is missing.
SemPostMissing(t) ==
  /\ pc[t] = "post"
  /\ Goto(t, "again")
  /\ UNCHANGED <<mainVars, semVars, queueVars, torn>>

\* Mutant of SemPost: each routine posts the semaphore it waited for.
SemPostSwapped(t) ==
  /\ pc[t] = "post"
  /\ \/ t \in Pushers /\ empty' = empty + 1 /\ UNCHANGED full
     \/ t \in Poppers /\ full' = full + 1 /\ UNCHANGED empty
  /\ Goto(t, "again")
  /\ UNCHANGED <<mainVars, lock, queueVars, torn>>

\* sem_post(&full) in producer() and sem_post(&empty) in consumer().
SemPost(t) ==
  /\ pc[t] = "post"
  /\ \/ /\ t \in Pushers
        /\ full' = full + 1
        /\ UNCHANGED empty
     \/ /\ t \in Poppers
        /\ empty' = empty + 1
        /\ UNCHANGED full
  /\ Goto(t, "again")
  /\ UNCHANGED <<mainVars, lock, queueVars, torn>>

\* Mutant of Again: done is never looked at.
AgainAlways(t) ==
  /\ pc[t] = "again"
  /\ Goto(t, "wait")
  /\ UNCHANGED <<mainVars, semVars, queueVars, torn>>

\* sleep(q->sleep), then while (done).
Again(t) ==
  /\ pc[t] = "again"
  /\ Goto(t, IF done = 1 THEN "wait" ELSE "exited")
  /\ UNCHANGED <<mainVars, semVars, queueVars, torn>>

ThreadStep(t) ==
  /\ Running
  /\ \/ SemWait(t) \/ Lock(t) \/ PushLink(t) \/ PushCount(t)
     \/ PopUnlink(t) \/ PopFree(t) \/ TornAccess(t) \/ Unlock(t) \/ SemPost(t)
     \/ Again(t)

-----------------------------------------------------------------------------
(***************************************************************************)
(* main.                                                                   *)
(***************************************************************************)
GotoMain(l, i) == mpc' = l /\ k' = i

\* pthread_create, for the producers and then for the consumers.
Create ==
  /\ mpc = "create"
  /\ k \in Threads
  /\ Goto(k, "wait")
  /\ GotoMain("create", k + 1)
  /\ UNCHANGED <<quit, done, semVars, queueVars, torn>>

\* A pthread_create that fails leaves the id of the thread as it was, and
\* main, which does not look at the result, goes on.
CreateFails ==
  /\ mpc = "create"
  /\ k \in Threads
  /\ CreateMayFail
  /\ GotoMain("create", k + 1)
  /\ UNCHANGED <<quit, done, semVars, pc, queueVars, torn>>

\* The last thread is created: what follows depends on quit.
AfterCreate ==
  /\ mpc = "create"
  /\ k \notin Threads
  /\ \/ /\ quit = 1
        /\ GotoMain("sleep", 0)
     \/ /\ quit = 0
        /\ Program.joins
        /\ GotoMain("join", 1)
     \/ /\ quit = 0
        /\ ~Program.joins
        /\ GotoMain("print", 0)
  /\ UNCHANGED <<quit, done, semVars, pc, queueVars, torn>>

\* sleep(msleep); done = 0;
Stop ==
  /\ mpc = "sleep"
  /\ done' = 0
  /\ GotoMain("join", 1)
  /\ UNCHANGED <<quit, semVars, pc, queueVars, torn>>

\* Mutant of JoinSlots: the loop over cons[] is missing.
JoinSlotsProducers == 1 .. NumProd

(***************************************************************************)
(* The two join loops.  Both run numProd times, the second over cons[]: it *)
(* leaves consumers unjoined when there are more of them than producers,   *)
(* and reads past cons[] when there are fewer.                             *)
(***************************************************************************)
JoinSlots == 1 .. (2 * NumProd)

Join ==
  /\ mpc = "join"
  /\ k \in JoinSlots \cap Threads
  /\ pc[k] = "exited"
  /\ GotoMain("join", k + 1)
  /\ UNCHANGED <<quit, done, semVars, pc, queueVars, torn>>

\* pthread_join of what lies past cons[], or of an id that pthread_create
\* never assigned: it fails, or it faults.
JoinGarbage ==
  /\ mpc = "join"
  /\ k \in JoinSlots
  /\ k \in Threads => pc[k] = "unborn"
  /\ \/ GotoMain("join", k + 1)
     \/ GotoMain("crashed", 0)
  /\ UNCHANGED <<quit, done, semVars, pc, queueVars, torn>>

AfterJoin ==
  /\ mpc = "join"
  /\ k \notin JoinSlots
  /\ GotoMain("print", 0)
  /\ UNCHANGED <<quit, done, semVars, pc, queueVars, torn>>

\* printQ(q) follows size links from head and changes nothing.  It does not
\* take the mutex: with a thread inside push() or pop() it may fault.
PrintQRaces == Critical # {}

(***************************************************************************)
(* printQ(q), and the destruction of the mutex and the semaphores.  A      *)
(* mutex that is held cannot be destroyed; one that is free may be useless *)
(* afterwards; a destroyed semaphore goes on working.  Then main enters    *)
(* emptyQ(), and races with a thread that is at the queue.                 *)
(***************************************************************************)
PrintAndDestroy ==
  /\ mpc = "print"
  /\ \/ /\ lock' \in IF lock = 0 THEN {0, 2} ELSE {lock}
        /\ torn' = (torn \/ Critical # {})
        /\ GotoMain("empty", 0)
     \/ /\ PrintQRaces
        /\ GotoMain("crashed", 0)
        /\ UNCHANGED <<lock, torn>>
  /\ UNCHANGED <<quit, done, empty, full, pc, queueVars>>

\* One turn of the loop of emptyQ(): i < q->size, pop(q) up to its printf.
EmptyQ ==
  /\ mpc = "empty"
  /\ ~torn
  /\ k < size
  /\ UnlinkHead(Main)
  /\ GotoMain("free", k)
  /\ UNCHANGED <<quit, done, semVars, pc, torn>>

\* The rest of pop(), and i++.
EmptyQFree ==
  /\ mpc = "free"
  /\ ~torn
  /\ FreeNode(Main)
  /\ GotoMain("empty", k + 1)
  /\ UNCHANGED <<quit, done, semVars, pc, torn>>

\* free(q), once i has caught up with q->size.
FreeQueue ==
  /\ mpc = "empty"
  /\ ~torn
  /\ k >= size
  /\ GotoMain("freed", 0)
  /\ UNCHANGED <<quit, done, semVars, pc, queueVars, torn>>

\* The loop of emptyQ() on a queue that a race has torn.
EmptyQTorn ==
  /\ torn
  /\ \/ mpc = "empty" /\ mpc' \in {"free", "freed", "crashed"}
     \/ mpc = "free" /\ mpc' \in {"empty", "crashed"}
  /\ UNCHANGED <<k, quit, done, semVars, pc, queueVars, torn>>

\* return 0 from main ends the process, whatever the threads are at.
Exit ==
  /\ mpc = "freed"
  /\ GotoMain("exited", 0)
  /\ UNCHANGED <<quit, done, semVars, pc, queueVars, torn>>

MainStep ==
  \/ Create \/ CreateFails \/ AfterCreate \/ Stop
  \/ Join \/ JoinGarbage \/ AfterJoin \/ PrintAndDestroy
  \/ EmptyQ \/ EmptyQFree \/ EmptyQTorn \/ FreeQueue \/ Exit

Next == MainStep \/ \E t \in Threads : ThreadStep(t)

Spec == Init /\ [][Next]_vars

(***************************************************************************)
(* The operating system runs main and every thread that can run; sleep()   *)
(* returns.  Neither the mutex nor the semaphores promise to serve waiters *)
(* in turn, so no strong fairness is assumed.                              *)
(***************************************************************************)
Fairness == WF_vars(MainStep) /\ \A t \in Threads : WF_vars(ThreadStep(t))

FairSpec == Spec /\ Fairness

-----------------------------------------------------------------------------
(***************************************************************************)
(* Properties.                                                             *)
(***************************************************************************)
MainStates   == {"create", "sleep", "join", "print", "empty", "free",
                 "freed", "exited", "crashed"}
ThreadStates == {"unborn", "wait", "lock", "access", "finish", "unlock",
                 "post", "again", "exited"}

\* Every variable has its type: the counters of the semaphores never go
\* below zero, and until there is a race at the queue neither does its size,
\* and its pointers are nodes or NULL.
TypeOK ==
  /\ mpc \in MainStates
  /\ k \in Nat
  /\ quit \in {0, 1} /\ done \in {0, 1}
  /\ empty \in Nat /\ full \in Nat /\ lock \in {0, 1, 2}
  /\ pc \in [Threads -> ThreadStates]
  /\ torn \in BOOLEAN
  /\ ~torn => /\ temp \in [Threads \cup {Main} -> Pointers]
              /\ size \in Nat /\ head \in Pointers /\ tail \in Pointers
              /\ alloc \subseteq Nodes
              /\ data \in [Nodes -> Values]
              /\ next \in [Nodes -> Pointers]

\* Until main destroys it, the mutex admits one thread at a time into push()
\* and pop(), and is held exactly while one is there.
MutualExclusion ==
  lock # 2 => /\ \A t, u \in Critical : t = u
              /\ lock = IF Critical = {} THEN 0 ELSE 1

\* Threads between their sem_wait and their sem_post.
Between == {t \in Threads :
              pc[t] \in {"lock", "access", "finish", "unlock", "post"}}

\* No slot is ever lost or made up: every slot that empty started with is
\* free (counted by empty), taken (counted by full), or in the hands of one
\* thread on its way from one semaphore to the other.  What producer() and
\* consumer() do between sem_wait and sem_post.
SlotAccounting == empty + full + Cardinality(Between) = Program.slots

\* Pushers that have stored a value and not posted it; poppers that have
\* waited for a value and not unlinked it.
Stored  == {t \in Pushers : pc[t] \in {"unlock", "post"}}
Claimed == {t \in Poppers : pc[t] \in {"lock", "access"}}

\* main leaves the queue to the threads; main takes it away from them.
Serving  == mpc \in {"create", "sleep", "join"}
Emptying == mpc \in {"print", "empty", "free", "freed", "exited"}

\* The semaphore full and the field size never drift apart.  Until main
\* empties the queue, every value in it is counted by full, or is about to
\* be posted, or is claimed by a consumer; and each of these stands for a
\* value as long as the semaphore starts with no more slots than the queue
\* has (with more, push() drops values and full counts what is not there).
ItemAccounting ==
  Serving =>
    LET counted == full + Cardinality(Stored) + Cardinality(Claimed)
    IN  /\ size <= counted
        /\ Program.slots <= MaxElements => size = counted

\* The error branches of push() ("The queue is full!") and of pop() ("The
\* queue is empty!") are dead in producer() and consumer(): the semaphores
\* let a thread at the queue only when its operation can succeed.
SemaphoresGuardQueue ==
  Serving /\ Program.slots <= MaxElements =>
    \A t \in Threads : pc[t] = "access" =>
      /\ t \in Pushers => HasRoom
      /\ t \in Poppers => size # 0

\* The nodes linked from head: one more than size while a push has linked
\* its node and not counted it yet.
Linked == size + IF \E t \in Pushers : pc[t] = "finish" THEN 1 ELSE 0

\* The nodes unlinked and not freed yet.
InTransit == {temp[t] : t \in Threads \cup {Main}} \ {NULL}

\* The join loops reach every thread: project4a.cpp, or a quit that was asked
\* for, and no more consumers than producers.
AllJoined == (Program.joins \/ quit = 1) /\ NumCons <= NumProd

IsChain(s) ==
  /\ \A i, j \in 1 .. Linked : s[i] = s[j] => i = j
  /\ Linked # 0 => head = s[1] /\ tail = s[Linked]
  /\ \A i \in 1 .. Linked : i < Linked => next[s[i]] = s[i + 1]
  /\ \A i \in 1 .. Linked : s[i] \notin InTransit
  /\ alloc = {s[i] : i \in 1 .. Linked} \cup InTransit

\* The links lead from head to tail through exactly the nodes linked, all of
\* them allocated and different, and every other allocated node is one that
\* a pop() is about to free: nothing is leaked, freed twice or used after it
\* was freed, although pop() leaves head and tail dangling when it takes the
\* last node and push() never initialises next.  A race ends the claim.
QueueChainIntact ==
  ~torn => \E s \in [1 .. Linked -> alloc] : IsChain(s)

\* main pops the queue without the mutex, destroys the semaphores and frees
\* the queue only after every thread is gone, whenever the join loops reach
\* all of them: the join loops wait for every thread main could create.
JoinedBeforeFreed ==
  AllJoined /\ Emptying => \A t \in Threads : pc[t] \in {"unborn", "exited"}

\* No two are ever at the queue together while main has not taken it away
\* from the threads, and never at all when the join loops reach every thread:
\* the races of these programs are those of main with threads it left behind.
RacesAreMains == torn => ~Serving /\ ~AllJoined

\* The values in the queue in the order printQ() walks them.
Contents ==
  LET node[i \in 1 .. size] == IF i = 1 THEN head ELSE next[node[i - 1]]
  IN  [i \in 1 .. size |-> data[node[i]]]

\* The threads implement a first-in first-out buffer of as many values as
\* there are slots: a push takes effect when it counts its node, a pop when
\* it unlinks one.  For a main that joins every thread.
Fifo == INSTANCE FifoBuffer WITH items <- Contents, Bound <- Program.slots
ImplementsFifo == Fifo!Spec

\* For any main: every step up to the first race is one of the buffer.
FifoUntilTorn == Fifo!Init /\ [][~torn' => [Fifo!Next]_Contents]_vars

\* When nobody asks the threads to stop (argc = 4 and quit happens to be 0)
\* they never lock up: if every thread could be created, consumers take values
\* for ever.
TakesForever ==
  \/ quit = 1
  \/ [](\E t \in Threads : pc[t] = "unborn")
  \/ []<><<\E t \in Poppers : pc[t] = "access" /\ size' < size>>_vars

\* Once main has cleared done, every thread soon stops for good: it exits,
\* or it waits on a semaphore that no one will post again.
QuietAfterStop ==
  done = 0 ~> [](~Running \/ \A t \in Threads :
                   \/ pc[t] \in {"unborn", "exited"}
                   \/ pc[t] = "wait" /\ IF t \in Pushers THEN empty = 0
                                                        ELSE full = 0)

\* The usage text: with a fifth argument main sleeps "before exiting".
ExitsAfterStop == done = 0 ~> mpc = "exited"
=============================================================================
