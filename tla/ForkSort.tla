------------------------------ MODULE ForkSort ------------------------------
(***************************************************************************)
(* project4b.cpp: a parent process sorts a list in rounds, and children it *)
(* forks pace it with two named semaphores.  After fork() the processes    *)
(* share nothing else: the mutex, the arrays and sorted_size are private   *)
(* copies, so what a child sorts is never seen by the parent, and a step   *)
(* on them is part of the semaphore call before it.                        *)
(*                                                                         *)
(* The names "p" and "c" live in the kernel.  sem_open finds the semaphore *)
(* a name leads to or makes a new one; sem_unlink removes the name and     *)
(* leaves the semaphore to those who have it open.  Every process unlinks  *)
(* both names when it is done.  Names, and the values behind them, survive *)
(* a run that is killed or exits early: so the model has several runs of   *)
(* the program, one after the other.                                       *)
(***************************************************************************)
EXTENDS Integers, Sequences, FiniteSets, FiniteSetsExt

CONSTANTS
  NumChild,         \* NUM_CHILD
  Batches,          \* the batches of a child, size / 10
  Chunk,            \* the length of a batch, 10
  Tokens,           \* the initial value of CHILD, 4
  MaxRuns,          \* bound: how often the program is started
  Fallible,         \* whether fork() and sem_open() may fail
  Lists,            \* what importList() may leave in unsorted
  SortPrefix(_, _)  \* merge_sort(A, n), as a function of the array

ListSize == NumChild * Batches * Chunk     \* LIST_SIZE, and the 10000 of main

IsSorted(A, n) == \A x, y \in 1 .. n : x <= y => A[x] <= A[y]

Permutes(A, B) == \E p \in [1 .. ListSize -> 1 .. ListSize] :
                     /\ \A x, y \in 1 .. ListSize : p[x] = p[y] => x = y
                     /\ \A x \in 1 .. ListSize : A[x] = B[p[x]]

ASSUME CountsAssumption ==
  /\ NumChild \in Nat \ {0} /\ Batches \in Nat \ {0} /\ Chunk \in Nat \ {0}
  /\ Tokens \in Nat \ {0} /\ MaxRuns \in Nat \ {0} /\ Fallible \in BOOLEAN
ASSUME ListsAssumption ==
  Lists # {} /\ Lists \subseteq [1 .. ListSize -> Int]

\* merge_sort(A, n) sorts the first n elements and loses none.
ASSUME SortAssumption ==
  \A A \in Lists, n \in 0 .. ListSize :
    /\ SortPrefix(A, n) \in Lists
    /\ IsSorted(SortPrefix(A, n), n)
    /\ Permutes(SortPrefix(A, n), A)

NONE     == 0
Children == 1 .. NumChild
Procs    == (1 .. MaxRuns) \X Children     \* the children of every run

VARIABLES
  sem,            \* every semaphore made so far: the name it had, its value
  name,           \* what the names "p" and "c" lead to
  run,            \* which run of the program this is
  mpc, n,         \* where main is; the counter of its current for loop
  parent, child,  \* main's semaphores
  numbers,        \* the list main imported
  unsorted,       \* main's array
  sorted_size,    \* main's sorted_size
  cpc,            \* where each child is
  cparent, cchild,\* the semaphores of each child
  csize,          \* the sorted_size of each child
  before          \* how many semaphores there were when this run started

kernel  == <<sem, name>>
control == <<mpc, n>>
mainMem == <<numbers, unsorted, sorted_size>>
kids    == <<cpc, cparent, cchild, csize>>
vars    == <<kernel, run, control, parent, child, mainMem, kids, before>>

Init ==
  /\ sem = <<>>
  /\ name = [s \in {"p", "c"} |-> NONE]
  /\ run = 1 /\ before = 0
  /\ mpc = "openP" /\ n = 1
  /\ parent = NONE /\ child = NONE
  /\ unsorted \in Lists /\ numbers = unsorted
  /\ sorted_size = 0
  /\ cpc = [c \in Procs |-> "none"]
  /\ cparent = [c \in Procs |-> NONE]
  /\ cchild = [c \in Procs |-> NONE]
  /\ csize = [c \in Procs |-> 0]

-----------------------------------------------------------------------------
(***************************************************************************)
(* The semaphores.                                                         *)
(***************************************************************************)
\* sem_open(s, O_CREAT, 0644, v) returns semaphore id.
Open(s, v, id) ==
  \/ /\ name[s] # NONE
     /\ id = name[s]
     /\ UNCHANGED kernel
  \/ /\ name[s] = NONE
     /\ id = Len(sem) + 1
     /\ sem' = Append(sem, [of |-> s, val |-> v])
     /\ name' = [name EXCEPT ![s] = id]

Ids == 1 .. Len(sem) + 1

\* Mutant of Unlink: only "c" is unlinked.
UnlinkC(s) ==
  /\ name' = IF s = "c" THEN [name EXCEPT ![s] = NONE] ELSE name
  /\ UNCHANGED sem

Unlink(s) == name' = [name EXCEPT ![s] = NONE] /\ UNCHANGED sem

Wait(id) == /\ sem[id].val > 0
            /\ sem' = [sem EXCEPT ![id].val = @ - 1]
            /\ UNCHANGED name

\* Mutant of Post: it posts twice.
PostTwice(id) == sem' = [sem EXCEPT ![id].val = @ + 2] /\ UNCHANGED name

Post(id) == sem' = [sem EXCEPT ![id].val = @ + 1] /\ UNCHANGED name

-----------------------------------------------------------------------------
(***************************************************************************)
(* A child: childWork(), and exit(0).                                      *)
(***************************************************************************)
ChildGoto(c, l) == cpc' = [cpc EXCEPT ![c] = l]

ChildOpenParent(c) ==
  /\ cpc[c] = "openP"
  /\ \/ \E id \in Ids : /\ Open("p", 0, id)
                        /\ cparent' = [cparent EXCEPT ![c] = id]
                        /\ ChildGoto(c, "openC")
     \/ /\ Fallible
        /\ ChildGoto(c, "failed")
        /\ UNCHANGED <<kernel, cparent>>
  /\ UNCHANGED <<cchild, csize>>

ChildOpenChild(c) ==
  /\ cpc[c] = "openC"
  /\ \/ \E id \in Ids : /\ Open("c", Tokens, id)
                        /\ cchild' = [cchild EXCEPT ![c] = id]
                        /\ ChildGoto(c, "wait")
     \/ /\ Fallible
        /\ ChildGoto(c, "failed")
        /\ UNCHANGED <<kernel, cchild>>
  /\ UNCHANGED <<cparent, csize>>

\* sem_wait(child); then, on private memory, a sorted batch is copied and
\* sorted_size grows by its length.
TakeBatch(c) ==
  /\ cpc[c] = "wait"
  /\ Wait(cchild[c])
  /\ csize' = [csize EXCEPT ![c] = @ + Chunk]
  /\ ChildGoto(c, "post")
  /\ UNCHANGED <<cparent, cchild>>

\* Mutant of Deliver: the last batch is not announced.
DeliverAllButLast(c) ==
  /\ cpc[c] = "post"
  /\ IF csize[c] < Batches * Chunk
     THEN Post(cparent[c]) /\ ChildGoto(c, "wait")
     ELSE UNCHANGED kernel /\ ChildGoto(c, "unlinkC")
  /\ UNCHANGED <<cparent, cchild, csize>>

\* sem_post(parent), and the test of the loop.
Deliver(c) ==
  /\ cpc[c] = "post"
  /\ Post(cparent[c])
  /\ ChildGoto(c, IF csize[c] < Batches * Chunk THEN "wait" ELSE "unlinkC")
  /\ UNCHANGED <<cparent, cchild, csize>>

ChildUnlinkChild(c) ==
  /\ cpc[c] = "unlinkC"
  /\ Unlink("c")
  /\ ChildGoto(c, "unlinkP")
  /\ UNCHANGED <<cparent, cchild, csize>>

ChildUnlinkParent(c) ==
  /\ cpc[c] = "unlinkP"
  /\ Unlink("p")
  /\ ChildGoto(c, "exited")
  /\ UNCHANGED <<cparent, cchild, csize>>

ChildStep(c) ==
  /\ \/ ChildOpenParent(c) \/ ChildOpenChild(c) \/ TakeBatch(c)
     \/ Deliver(c) \/ ChildUnlinkChild(c) \/ ChildUnlinkParent(c)
  /\ UNCHANGED <<run, control, parent, child, mainMem, before>>

-----------------------------------------------------------------------------
(***************************************************************************)
(* main.                                                                   *)
(***************************************************************************)
Goto(l, i) == mpc' = l /\ n' = i

\* Mutant of MainOpenParent: the semaphore starts at 1.
MainOpenParentOne ==
  /\ mpc = "openP"
  /\ \E id \in Ids : /\ Open("p", 1, id)
                     /\ parent' = id
                     /\ Goto("openC", n)
  /\ UNCHANGED <<child, mainMem, kids>>

MainOpenParent ==
  /\ mpc = "openP"
  /\ \/ \E id \in Ids : /\ Open("p", 0, id)
                        /\ parent' = id
                        /\ Goto("openC", n)
     \/ /\ Fallible
        /\ Goto("failed", n)
        /\ UNCHANGED <<kernel, parent>>
  /\ UNCHANGED <<child, mainMem, kids>>

MainOpenChild ==
  /\ mpc = "openC"
  /\ \/ \E id \in Ids : /\ Open("c", Tokens, id)
                        /\ child' = id
                        /\ Goto("import", n)
     \/ /\ Fallible
        /\ Goto("failed", n)
        /\ UNCHANGED <<kernel, child>>
  /\ UNCHANGED <<parent, mainMem, kids>>

\* importList(): the array is filled as far as numbers.txt goes (the rest is
\* what malloc returned), or the file is too long and main gives up, leaving
\* both names behind.
Import ==
  /\ mpc = "import"
  /\ \/ Goto("fork", 1)
     \/ Goto("failed", n)
  /\ UNCHANGED <<kernel, parent, child, mainMem, kids>>

\* One turn of the fork loop.  main goes on without a child it cannot fork.
Fork ==
  /\ mpc = "fork"
  /\ \/ cpc' = [cpc EXCEPT ![<<run, n>>] = "openP"]
     \/ Fallible /\ UNCHANGED cpc
  /\ IF n < NumChild THEN Goto("fork", n + 1) ELSE Goto("wait", 1)
  /\ UNCHANGED <<kernel, parent, child, mainMem, cparent, cchild, csize>>

\* Mutant of Merge: the list is sorted before sorted_size is increased.
MergeBeforeCount ==
  /\ mpc = "wait"
  /\ Wait(parent)
  /\ sorted_size' = sorted_size + Chunk
  /\ unsorted' = SortPrefix(unsorted, sorted_size)
  /\ Goto("post", n)
  /\ UNCHANGED <<parent, child, numbers, kids>>

\* parentWork(): sem_wait(parent), and one more batch of the list is sorted.
Merge ==
  /\ mpc = "wait"
  /\ Wait(parent)
  /\ sorted_size' = sorted_size + Chunk
  /\ unsorted' = SortPrefix(unsorted, sorted_size')
  /\ Goto("post", n)
  /\ UNCHANGED <<parent, child, numbers, kids>>

\* Mutant of PostChild: the loop stops one batch early.
PostChildEarly ==
  /\ mpc = "post"
  /\ Post(child)
  /\ Goto(IF sorted_size < ListSize - Chunk THEN "wait" ELSE "poll", n)
  /\ UNCHANGED <<parent, child, mainMem, kids>>

\* sem_post(child), and the test of the loop.
PostChild ==
  /\ mpc = "post"
  /\ Post(child)
  /\ Goto(IF sorted_size < ListSize THEN "wait" ELSE "poll", n)
  /\ UNCHANGED <<parent, child, mainMem, kids>>

(***************************************************************************)
(* One turn of the waitpid loop.  With WNOHANG the call returns at once;   *)
(* whatever it returns is taken for the end of the child, so one pass over *)
(* the children is all there is.  Of a child that was not forked it is an  *)
(* error, and main exits.                                                  *)
(***************************************************************************)
Poll ==
  /\ mpc = "poll"
  /\ IF cpc[<<run, n>>] = "none"
     THEN Goto("failed", n)
     ELSE IF n < NumChild THEN Goto("poll", n + 1) ELSE Goto("write", 1)
  /\ UNCHANGED <<kernel, parent, child, mainMem, kids>>

\* printList(), writeToFile(), and the names are removed one by one.
Write ==
  /\ mpc = "write"
  /\ Goto("unlinkC", n)
  /\ UNCHANGED <<kernel, parent, child, mainMem, kids>>

MainUnlinkChild ==
  /\ mpc = "unlinkC"
  /\ Unlink("c")
  /\ Goto("unlinkP", n)
  /\ UNCHANGED <<parent, child, mainMem, kids>>

MainUnlinkParent ==
  /\ mpc = "unlinkP"
  /\ Unlink("p")
  /\ Goto("exited", n)
  /\ UNCHANGED <<parent, child, mainMem, kids>>

MainStep ==
  /\ \/ MainOpenParent \/ MainOpenChild \/ Import \/ Fork \/ Merge
     \/ PostChild \/ Poll \/ Write \/ MainUnlinkChild \/ MainUnlinkParent
  /\ UNCHANGED <<run, before>>

-----------------------------------------------------------------------------
(***************************************************************************)
(* The user interrupts the program, which kills main and its children, and *)
(* starts it again when main has ended.  A child may outlive its main.     *)
(***************************************************************************)
Ended == {"exited", "failed", "killed"}

Kill ==
  /\ mpc \notin Ended
  /\ mpc' = "killed"
  /\ cpc' = [c \in Procs |-> IF c[1] = run /\ cpc[c] \notin {"none", "exited",
                                                              "failed"}
                             THEN "killed" ELSE cpc[c]]
  /\ UNCHANGED <<kernel, run, n, parent, child, mainMem, cparent, cchild,
                 csize, before>>

Restart ==
  /\ mpc \in Ended
  /\ run < MaxRuns
  /\ run' = run + 1
  /\ before' = Len(sem)
  /\ Goto("openP", 1)
  /\ parent' = NONE /\ child' = NONE
  /\ unsorted' \in Lists /\ numbers' = unsorted'
  /\ sorted_size' = 0
  /\ UNCHANGED <<kernel, kids>>

Next == MainStep \/ (\E c \in Procs : ChildStep(c)) \/ Kill \/ Restart

Spec == Init /\ [][Next]_vars

\* Every process that can run does; a sem_wait may lose to another.
Fairness == WF_vars(MainStep) /\ \A c \in Procs : WF_vars(ChildStep(c))

FairSpec == Spec /\ Fairness

-----------------------------------------------------------------------------
(***************************************************************************)
(* Properties.                                                             *)
(***************************************************************************)
MainStates  == {"openP", "openC", "import", "fork", "wait", "post", "poll",
                "write", "unlinkC", "unlinkP"} \cup Ended
ChildStates == {"none", "openP", "openC", "wait", "post", "unlinkC",
                "unlinkP", "exited", "failed", "killed"}

\* Every variable has its type: no semaphore goes below zero, and no array
\* is indexed past its end.
TypeOK ==
  /\ sem \in Seq([of : {"p", "c"}, val : Nat])
  /\ name \in [{"p", "c"} -> 0 .. Len(sem)]
  /\ run \in 1 .. MaxRuns /\ before \in 0 .. Len(sem)
  /\ mpc \in MainStates /\ n \in Children
  /\ parent \in 0 .. Len(sem) /\ child \in 0 .. Len(sem)
  /\ numbers \in Lists /\ unsorted \in Lists
  /\ sorted_size \in 0 .. ListSize
  /\ cpc \in [Procs -> ChildStates]
  /\ cparent \in [Procs -> 0 .. Len(sem)]
  /\ cchild \in [Procs -> 0 .. Len(sem)]
  /\ csize \in [Procs -> 0 .. Batches * Chunk]

\* What main prints and writes to sorted.txt is the list it imported, sorted,
\* whatever the children and the runs before did to the semaphores: no round
\* but the last, over the whole list, is needed for it, and it is reached.
WrittenIsSorted ==
  mpc \in {"poll", "write", "unlinkC", "unlinkP", "exited"} =>
    /\ sorted_size = ListSize
    /\ IsSorted(unsorted, ListSize)
    /\ Permutes(unsorted, numbers)

\* The prefix main has merged is sorted after every round.
PrefixSorted == /\ IsSorted(unsorted, sorted_size)
                /\ Permutes(unsorted, numbers)

\* This run of main made its own semaphores; no child of an earlier run has
\* opened them; and all its children that have opened theirs found them.
Fresh == parent > before /\ child > before
Alone == \A c \in Procs :
           c[1] < run => cparent[c] # parent /\ cchild[c] # child
Split == \E c \in Children :
           \/ cparent[<<run, c>>] \notin {NONE, parent}
           \/ cchild[<<run, c>>] \notin {NONE, child}

Taken     == MapThenSumSet(LAMBDA c : csize[<<run, c>>], Children)
Holding   == {c \in Children : cpc[<<run, c>>] = "post"}
Delivered == Taken - Chunk * Cardinality(Holding)

\* The processes of a run keep step, provided its semaphores were new and no
\* child that an earlier run left behind came to open them: main never merges
\* a batch no child has delivered, and unless a late child made semaphores of
\* its own, the children are never more than Tokens batches ahead of main.
\* (In a run that inherits semaphores, main merges batches nobody has sorted,
\* and may be done before all its children have opened theirs.)
KeepStep ==
  Fresh /\ Alone /\ mpc # "killed" =>
    /\ sorted_size <= Delivered
    /\ ~Split => Taken <= sorted_size + Chunk * Tokens

InFlight == {c \in Procs : cpc[c] = "post"}
CMade    == {i \in 1 .. Len(sem) : sem[i].of = "c"}

\* Tokens are lost, by a kill or on a semaphore nobody waits for any more,
\* but never made: those on all semaphores and in the hands of processes are
\* at most the ones every new "c" started with.
NoTokenFromNothing ==
  MapThenSumSet(LAMBDA i : sem[i].val, 1 .. Len(sem))
    + Cardinality(InFlight) + (IF mpc = "post" THEN 1 ELSE 0)
  <= Tokens * Cardinality(CMade)

Gone == mpc \in Ended /\ \A c \in Procs : cpc[c] \in {"none", "exited"}

\* Every process of the program removes the names it may have made: when all
\* are gone, no child was killed or could not open its semaphores, and the
\* last main came to its end, the next run starts from nothing.
LeavesNoNames ==
  Gone /\ mpc = "exited" => name = [s \in {"p", "c"} |-> NONE]

\* A run that waits for its children reaches its end if every fork succeeded,
\* its semaphores are new, every child opens them, before some process removes
\* their names, and no child that an earlier run left behind ever does: such a
\* child may take the last token of "c" and post to a "p" nobody waits for.
Finishes ==
  mpc = "wait" /\ Fresh /\ (\A c \in Children : cpc[<<run, c>>] # "none")
    ~> \/ mpc \in Ended \/ Split \/ ~Alone
       \/ \E c \in Children : cpc[<<run, c>>] = "failed"
=============================================================================
