----------------------------- MODULE ThreadSort -----------------------------
(***************************************************************************)
(* proj_03/other.cpp: main cuts a list into as many pieces as a trial has  *)
(* threads, starts a thread on each, and polls a counter of the threads    *)
(* that run; each thread sorts its piece and merges it into the global     *)
(* masterSortedList, under a mutex.                                        *)
(*                                                                         *)
(* The counter is incremented by main and decremented by the threads, with *)
(* no lock: each of these is a read and a write.  main also overwrites     *)
(* m_thread, the id pthread_create() stored, with its own id, while the    *)
(* thread may be about to read it.                                         *)
(***************************************************************************)
EXTENDS Integers, Sequences, FiniteSets, FiniteSetsExt

CONSTANTS
  Trials,                   \* what the user may choose, of 1 and 2
  Lists,                    \* what numbers.txt may hold
  Fallible,                 \* whether pthread_create() may fail
  SortPiece(_, _),          \* the sorted list, by the routine
  MergeLists(_, _)          \* the merged list

ASSUME TrialsAssumption == Trials \subseteq {1, 2} /\ Fallible \in BOOLEAN
ASSUME ListsAssumption  == Lists \subseteq Seq(Int)

\* The sorts trial1() and trial2() give their threads.
TrialSorts(trial) ==
  IF trial = 1 THEN <<"QUICK_SORT", "SELECTION_SORT">>
               ELSE <<"MERGE_SORT", "BUBBLE_SORT",
                      "SHELL_SORT", "INSERTION_SORT">>

Ascending(s) == \A i, j \in DOMAIN s : i < j => s[i] <= s[j]

Occurrences(x, s) == Cardinality({i \in DOMAIN s : s[i] = x})

\* The lists that can be made of the numbers of a list, no longer than it is.
Entries(list) == {list[i] : i \in DOMAIN list}
Within(list)  == UNION {[1 .. n -> Entries(list)] : n \in 0 .. Len(list)}

\* What Sort does not do with an empty piece.
Refuses(type, s) == s = <<>> /\ type \in {"QUICK_SORT", "SELECTION_SORT"}

\* The routines sort, and lose no number.
SortsWithin(list, type, s) ==
  LET r == SortPiece(type, s) IN
  /\ r \in Within(list) /\ Ascending(r) /\ Len(r) = Len(s)
  /\ \A x \in Entries(list) : Occurrences(x, r) = Occurrences(x, s)

MergesWithin(list, s, m) ==
  LET r == MergeLists(s, m) IN
  /\ r \in Within(list) /\ Ascending(r) /\ Len(r) = Len(s) + Len(m)
  /\ \A x \in Entries(list) :
       Occurrences(x, r) = Occurrences(x, s) + Occurrences(x, m)

RoutinesFit(list) ==
  /\ \A n \in Trials : \A t \in DOMAIN TrialSorts(n), s \in Within(list) :
       ~Refuses(TrialSorts(n)[t], s) => SortsWithin(list, TrialSorts(n)[t], s)
  /\ \A s, m \in {u \in Within(list) : Ascending(u)} :
       Len(s) + Len(m) <= Len(list) => MergesWithin(list, s, m)

ASSUME RoutinesAssumption == \A list \in Lists : RoutinesFit(list)

VARIABLES
  trial, numbers,   \* the user's choice, masterUnsortedList
  mpc, k,           \* where main is; the index of its current thread
  mreg,             \* what main read of the counter
  running,          \* m_numOfRunningThreads
  lock,             \* globalLock
  master,           \* masterSortedList
  written,          \* what main wrote to the file
  pc,               \* where each thread is
  m_thread, data,   \* fields of each ComplexThread: m_thread, data_list
  merged, reg       \* what the thread computed, what it read of the counter

mainVars   == <<mpc, k, mreg, written>>
threadVars == <<pc, data, merged, reg>>
vars       == <<trial, numbers, mainVars, running, lock, master, m_thread,
                threadVars>>

N       == Len(TrialSorts(trial))
Threads == 1 .. N

\* partitionMasterListForSpecifiedNumOfThreads(): pieces of equal length,
\* which leave out the end of a list that cannot be divided.
Piece(list, t, n) ==
  LET range == Len(list) \div n
  IN  SubSeq(list, (t - 1) * range + 1, t * range)

Init ==
  /\ trial \in Trials /\ numbers \in Lists
  /\ mpc = "create" /\ k = 1 /\ mreg = 0 /\ written = <<>>
  /\ running = 0 /\ lock = 0 /\ master = <<>>
  /\ m_thread = [t \in Threads |-> "NULL"]
  /\ pc = [t \in Threads |-> "unborn"]
  /\ data = [t \in Threads |-> Piece(numbers, t, N)]
  /\ merged = [t \in Threads |-> <<>>]
  /\ reg = [t \in Threads |-> 0]

Alive == mpc \notin {"exited", "crashed"}

Goto(t, l) == pc' = [pc EXCEPT ![t] = l]

-----------------------------------------------------------------------------
(***************************************************************************)
(* main: createAndExecuteThread() for each thread, and the end of main().  *)
(***************************************************************************)
\* pthread_create() stores the id of the thread before the thread runs.
Create ==
  /\ mpc = "create" /\ k \in Threads
  /\ \/ /\ m_thread' = [m_thread EXCEPT ![k] = "thread"]
        /\ Goto(k, "sort")
        /\ mpc' = "incRead" /\ UNCHANGED k
     \/ /\ Fallible
        /\ k' = k + 1
        /\ UNCHANGED <<mpc, m_thread, pc>>
  /\ UNCHANGED <<mreg, written, running, lock, master, data, merged, reg>>

\* ++m_numOfRunningThreads
IncRead ==
  /\ mpc = "incRead"
  /\ mreg' = running
  /\ mpc' = "incWrite"
  /\ UNCHANGED <<k, written, running, lock, master, m_thread, threadVars>>

IncWrite ==
  /\ mpc = "incWrite"
  /\ running' = mreg + 1
  /\ mpc' = "self"
  /\ UNCHANGED <<k, mreg, written, lock, master, m_thread, threadVars>>

\* m_thread = pthread_self(), which is main.
TakeSelf ==
  /\ mpc = "self"
  /\ m_thread' = [m_thread EXCEPT ![k] = "main"]
  /\ k' = k + 1
  /\ mpc' = "create"
  /\ UNCHANGED <<mreg, written, running, lock, master, threadVars>>

AllCreated ==
  /\ mpc = "create" /\ k \notin Threads
  /\ mpc' = "poll"
  /\ UNCHANGED <<k, mreg, written, running, lock, master, m_thread, threadVars>>

\* Mutant of Poll: main does not wait for the last thread.
PollOne ==
  /\ mpc = "poll"
  /\ running <= 1
  /\ mpc' = "finished"
  /\ UNCHANGED <<k, mreg, written, running, lock, master, m_thread, threadVars>>

\* while (m_numOfRunningThreads > 0) sleep(1)
Poll ==
  /\ mpc = "poll"
  /\ running <= 0
  /\ mpc' = "finished"
  /\ UNCHANGED <<k, mreg, written, running, lock, master, m_thread, threadVars>>

\* writeContentsToFile(), without the mutex, and return: a thread that
\* assigns to the list meanwhile is a data race, and the process may crash.
Write ==
  /\ mpc = "finished"
  /\ \/ written' = master /\ mpc' = "exited"
     \/ /\ \E t \in Threads : pc[t] = "assign"
        /\ mpc' = "crashed" /\ UNCHANGED written
  /\ UNCHANGED <<k, mreg, running, lock, master, m_thread, threadVars>>

MainStep ==
  /\ \/ Create \/ IncRead \/ IncWrite \/ TakeSelf \/ AllCreated \/ Poll \/ Write
  /\ UNCHANGED <<trial, numbers>>

-----------------------------------------------------------------------------
(***************************************************************************)
(* A thread: performSortOnThread() and onThreadFinished().                 *)
(***************************************************************************)
\* The switch.  Of an empty piece doQuickSort() takes at(0), which throws in
\* the thread and ends the process; doSelectionSort() runs to size() - 1,
\* which is the greatest unsigned number, and does not come back.
Sort(t) ==
  /\ pc[t] = "sort"
  /\ LET type == TrialSorts(trial)[t]
     IN  \/ /\ ~Refuses(type, data[t])
            /\ data' = [data EXCEPT ![t] = SortPiece(type, data[t])]
            /\ Goto(t, "join")
            /\ UNCHANGED mpc
         \/ /\ data[t] = <<>> /\ type = "QUICK_SORT"
            /\ mpc' = "crashed"
            /\ UNCHANGED <<data, pc>>
         \/ /\ data[t] = <<>> /\ type = "SELECTION_SORT"
            /\ Goto(t, "spin")
            /\ UNCHANGED <<data, mpc>>
  /\ UNCHANGED <<k, mreg, written, running, lock, master, m_thread, merged, reg>>

\* Mutant of Join: a join that fails is tried for ever.
JoinRetries(t) ==
  /\ pc[t] = "join"
  /\ \/ m_thread[t] = "thread" /\ Goto(t, "lock")
     \/ m_thread[t] = "main" /\ Goto(t, "blocked")
  /\ UNCHANGED <<mainVars, running, lock, master, m_thread, data, merged, reg>>

(***************************************************************************)
(* pthread_join(thread->m_thread, ...), whose result is not looked at.     *)
(* Joining oneself fails, and so does joining a thread that another one is *)
(* joining.  main never ends as a thread: who joins it waits for the end   *)
(* of the process.                                                         *)
(***************************************************************************)
Join(t) ==
  /\ pc[t] = "join"
  /\ \/ m_thread[t] = "thread" /\ Goto(t, "lock")
     \/ /\ m_thread[t] = "main"
        /\ Goto(t, IF \E u \in Threads : pc[u] = "blocked" THEN "lock"
                                                           ELSE "blocked")
  /\ UNCHANGED <<mainVars, running, lock, master, m_thread, data, merged, reg>>

\* Mutant of Lock: the mutex is not taken.
LockNotTaken(t) ==
  /\ pc[t] = "lock"
  /\ Goto(t, "merge")
  /\ UNCHANGED <<mainVars, running, lock, master, m_thread, data, merged, reg>>

Lock(t) ==
  /\ pc[t] = "lock" /\ lock = 0
  /\ lock' = t
  /\ Goto(t, "merge")
  /\ UNCHANGED <<mainVars, running, master, m_thread, data, merged, reg>>

\* masterSortedList = mergeSortedLists(thread->data_list, masterSortedList)
Merge(t) ==
  /\ pc[t] = "merge"
  /\ merged' = [merged EXCEPT ![t] = MergeLists(data[t], master)]
  /\ Goto(t, "assign")
  /\ UNCHANGED <<mainVars, running, lock, master, m_thread, data, reg>>

Assign(t) ==
  /\ pc[t] = "assign"
  /\ master' = merged[t]
  /\ merged' = [merged EXCEPT ![t] = <<>>]
  /\ Goto(t, "unlock")
  /\ UNCHANGED <<mainVars, running, lock, m_thread, data, reg>>

Unlock(t) ==
  /\ pc[t] = "unlock"
  /\ lock' = 0
  /\ Goto(t, "decRead")
  /\ UNCHANGED <<mainVars, running, master, m_thread, data, merged, reg>>

\* --m_numOfRunningThreads
DecRead(t) ==
  /\ pc[t] = "decRead"
  /\ reg' = [reg EXCEPT ![t] = running]
  /\ Goto(t, "decWrite")
  /\ UNCHANGED <<mainVars, running, lock, master, m_thread, data, merged>>

\* Mutant of DecWrite: the count goes down by two.
DecWriteTwice(t) ==
  /\ pc[t] = "decWrite"
  /\ running' = reg[t] - 2
  /\ reg' = [reg EXCEPT ![t] = 0]
  /\ Goto(t, "ended")
  /\ UNCHANGED <<mainVars, lock, master, m_thread, data, merged>>

DecWrite(t) ==
  /\ pc[t] = "decWrite"
  /\ running' = reg[t] - 1
  /\ reg' = [reg EXCEPT ![t] = 0]
  /\ Goto(t, "ended")
  /\ UNCHANGED <<mainVars, lock, master, m_thread, data, merged>>

ThreadStep(t) ==
  /\ \/ Sort(t) \/ Join(t) \/ Lock(t) \/ Merge(t) \/ Assign(t) \/ Unlock(t)
     \/ DecRead(t) \/ DecWrite(t)
  /\ UNCHANGED <<trial, numbers>>

Next == Alive /\ (MainStep \/ \E t \in Threads : ThreadStep(t))

Spec == Init /\ [][Next]_vars

-----------------------------------------------------------------------------
(***************************************************************************)
(* Properties.                                                             *)
(***************************************************************************)
Creating == {"create", "incRead", "incWrite", "self"}

\* Every variable has its type: the counter strays no further from 0 than
\* the number of threads, whatever the races do to it.
TypeOK ==
  /\ trial \in Trials /\ numbers \in Lists
  /\ mpc \in Creating \cup {"poll", "finished", "exited", "crashed"}
  /\ k \in 1 .. N + 1
  /\ running \in -N .. N /\ mreg \in -N .. N /\ reg \in [Threads -> -N .. N]
  /\ lock \in 0 .. N
  /\ m_thread \in [Threads -> {"NULL", "thread", "main"}]
  /\ pc \in [Threads -> {"unborn", "sort", "spin", "join", "blocked", "lock",
                         "merge", "assign", "unlock", "decRead", "decWrite",
                         "ended"}]

Done == {t \in Threads : pc[t] \in {"unlock", "decRead", "decWrite", "ended"}}

\* masterSortedList is always sorted, and holds the pieces of the threads that
\* have merged theirs, each once: no merge undoes or repeats another.
MergedOnce ==
  /\ Ascending(master)
  /\ \A x \in Entries(numbers) :
       Occurrences(x, master) =
         MapThenSumSet(LAMBDA t : Occurrences(x, Piece(numbers, t, N)), Done)

Settled == \A t \in Threads : pc[t] \in {"unborn", "spin", "blocked", "ended"}

\* When every thread has come to rest, at most one of those that sorted its
\* piece has not delivered it: the one that joins main.  The next to join
\* main is refused, and goes on.
AtMostOneLost ==
  Settled => Cardinality({t \in Threads : pc[t] = "blocked"}) <= 1

\* main finishes early only if a thread counted itself out while main was
\* still counting threads in: otherwise no lost update makes the counter go
\* to 0 before every thread has merged its piece.
UndisturbedFinish ==
  [](mpc \in Creating => \A t \in Threads : pc[t] \notin {"decWrite", "ended"})
    => [](mpc \in {"finished", "exited"} =>
            \A t \in Threads : pc[t] \in {"unborn", "ended"})

\* "All threads finished!"
AllThreadsFinished ==
  mpc = "finished" => \A t \in Threads : pc[t] \in {"unborn", "ended"}
=============================================================================
