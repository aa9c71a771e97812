--------------------------- MODULE ForkSortProofs ---------------------------
(***************************************************************************)
(* Theorems about ForkSort, for any number of children, batches and runs,  *)
(* any list, and any function that sorts a prefix and loses nothing.       *)
(*                                                                         *)
(* That what main writes is sorted does not depend on the semaphores at    *)
(* all: main leaves its loop only when sorted_size has reached the length  *)
(* of the list, which it does exactly because the length is a multiple of  *)
(* a batch; and the round that got it there sorted the whole list.         *)
(*                                                                         *)
(* The semaphores matter for the rest: which ids the processes have open   *)
(* (HandlesInv), who will remove a name (NamesOwed), how many tokens there *)
(* are (TokenInv) and how far ahead parent and children get (PaceInv).     *)
(***************************************************************************)
EXTENDS ForkSort, SumFacts, SequenceTheorems

\* main has merged a whole number of batches, and stops at the last.
Rounds == NumChild * Batches

SizeOK == \E r \in 0 .. Rounds :
            /\ sorted_size = r * Chunk
            /\ mpc \in {"openP", "openC", "import", "fork"} => r = 0
            /\ mpc = "wait" => r < Rounds
            /\ mpc \in {"poll", "write", "unlinkC", "unlinkP", "exited"} =>
                 r = Rounds

ListsOK == numbers \in Lists /\ unsorted \in Lists

IInv == SizeOK /\ ListsOK /\ PrefixSorted

-----------------------------------------------------------------------------
\* Multiplication by Chunk keeps order.
LEMMA TimesChunk ==
  ASSUME NEW a \in Nat, NEW b \in Nat
  PROVE  a < b => (a + 1) * Chunk <= b * Chunk /\ a * Chunk < b * Chunk
<1>1. Chunk \in Nat /\ Chunk >= 1
  BY CountsAssumption
<1> SUFFICES ASSUME a < b
             PROVE  (a + 1) * Chunk <= b * Chunk /\ a * Chunk < b * Chunk
  OBVIOUS
<1>2. PICK d \in Nat : b = a + 1 + d
  <2>1. b - a - 1 \in Nat /\ b = a + 1 + (b - a - 1)
    OBVIOUS
  <2> QED
    BY <2>1
<1>3. b * Chunk = (a + 1) * Chunk + d * Chunk
  BY <1>1, <1>2
<1>4. d * Chunk \in Nat /\ (a + 1) * Chunk = a * Chunk + Chunk
  BY <1>1
<1>5. a * Chunk \in Nat
  BY <1>1
<1> QED
  BY <1>1, <1>3, <1>4, <1>5

\* The list is a whole number of batches, at least one.
LEMMA RoundsNat ==
  /\ Rounds \in Nat /\ Rounds >= 1
  /\ ListSize = Rounds * Chunk /\ ListSize \in Nat
<1>1. /\ NumChild \in Nat /\ NumChild >= 1 /\ Batches \in Nat /\ Batches >= 1
      /\ Chunk \in Nat /\ Chunk >= 1
  BY CountsAssumption
<1> QED
  BY <1>1 DEF Rounds, ListSize

\* An array is a permutation of itself, and a permutation of a permutation.
LEMMA PermutesRefl ==
  ASSUME NEW A
  PROVE  Permutes(A, A)
<1> DEFINE p == [x \in 1 .. ListSize |-> x]
<1>1. p \in [1 .. ListSize -> 1 .. ListSize]
  OBVIOUS
<1> QED
  BY <1>1 DEF Permutes

\* A permutation of a permutation is one.
LEMMA PermutesTrans ==
  ASSUME NEW A, NEW B, NEW C, Permutes(A, B), Permutes(B, C)
  PROVE  Permutes(A, C)
<1>1. PICK p \in [1 .. ListSize -> 1 .. ListSize] :
        /\ \A x, y \in 1 .. ListSize : p[x] = p[y] => x = y
        /\ \A x \in 1 .. ListSize : A[x] = B[p[x]]
  BY DEF Permutes
<1>2. PICK q \in [1 .. ListSize -> 1 .. ListSize] :
        /\ \A x, y \in 1 .. ListSize : q[x] = q[y] => x = y
        /\ \A x \in 1 .. ListSize : B[x] = C[q[x]]
  BY DEF Permutes
<1> DEFINE r == [x \in 1 .. ListSize |-> q[p[x]]]
<1>3. r \in [1 .. ListSize -> 1 .. ListSize]
  BY <1>1, <1>2
<1>4. \A x, y \in 1 .. ListSize : r[x] = r[y] => x = y
  BY <1>1, <1>2
<1>5. \A x \in 1 .. ListSize : A[x] = C[r[x]]
  BY <1>1, <1>2
<1> QED
  BY <1>3, <1>4, <1>5 DEF Permutes

-----------------------------------------------------------------------------
\* It holds at the start.
LEMMA InitIInv == Init => IInv
<1> SUFFICES ASSUME Init PROVE IInv
  OBVIOUS
<1>1. SizeOK
  BY RoundsNat, CountsAssumption DEF Init, SizeOK, Ended
<1>2. ListsOK
  BY DEF Init, ListsOK
<1>3. PrefixSorted
  BY PermutesRefl DEF Init, PrefixSorted, IsSorted
<1> QED
  BY <1>1, <1>2, <1>3 DEF IInv

\* The steps that leave main's memory alone.
LEMMA MemoryKept ==
  ASSUME IInv, UNCHANGED mainMem, SizeOK'
  PROVE  IInv'
BY DEF IInv, ListsOK, PrefixSorted, mainMem

\* One round of parentWork().
LEMMA MergeIInv ==
  ASSUME IInv, Merge
  PROVE  IInv'
<1> USE DEF IInv
<1>1. PICK r \in 0 .. Rounds : sorted_size = r * Chunk /\ r < Rounds
  BY DEF SizeOK, Merge
<1>2. r \in Nat /\ r + 1 \in 0 .. Rounds /\ Chunk \in Nat
  BY <1>1, RoundsNat, CountsAssumption
<1>3. sorted_size' = (r + 1) * Chunk
  BY <1>1, <1>2 DEF Merge
<1>4. SizeOK'
  BY <1>2, <1>3 DEF SizeOK, Merge, Goto
<1>5. sorted_size' \in 0 .. ListSize
  <2>1. (r + 1) * Chunk <= Rounds * Chunk
    BY <1>1, <1>2, TimesChunk, RoundsNat
  <2>2. (r + 1) * Chunk \in Nat
    BY <1>2
  <2> QED
    BY <1>3, <2>1, <2>2, RoundsNat
<1>6. /\ unsorted' \in Lists
      /\ IsSorted(unsorted', sorted_size')
      /\ Permutes(unsorted', unsorted)
  BY <1>5, SortAssumption DEF Merge, ListsOK
<1>7. Permutes(unsorted', numbers)
  BY <1>6, PermutesTrans DEF PrefixSorted
<1> QED
  BY <1>4, <1>6, <1>7 DEF ListsOK, PrefixSorted, Merge, IsSorted, Permutes

\* Going around the loop of parentWork() or leaving it keeps it.
LEMMA PostChildIInv ==
  ASSUME IInv, PostChild
  PROVE  IInv'
<1>1. PICK r \in 0 .. Rounds : sorted_size = r * Chunk
  BY DEF IInv, SizeOK
<1>2. r \in Nat /\ Rounds \in Nat
  BY RoundsNat
<1>3. sorted_size < ListSize => r < Rounds
  BY <1>1, <1>2, RoundsNat
<1>4. ~(sorted_size < ListSize) => r = Rounds
  <2>1. r < Rounds => r * Chunk < Rounds * Chunk
    BY <1>2, TimesChunk
  <2> QED
    BY <1>1, <1>2, <2>1, RoundsNat
<1>5. SizeOK'
  BY <1>1, <1>3, <1>4 DEF SizeOK, PostChild, Goto, mainMem
<1> QED
  BY <1>5, MemoryKept DEF PostChild

\* Every step keeps it.
LEMMA NextIInv == IInv /\ [Next]_vars => IInv'
<1> SUFFICES ASSUME IInv, [Next]_vars PROVE IInv'
  OBVIOUS
<1>1. CASE MainStep
  <2>1. CASE Merge
    BY <2>1, MergeIInv
  <2>2. CASE PostChild
    BY <2>2, PostChildIInv
  <2>3. CASE MainOpenParent \/ MainOpenChild \/ Import \/ Fork
    <3>1. sorted_size = 0
      BY <2>3, CountsAssumption
      DEF IInv, SizeOK, MainOpenParent, MainOpenChild, Import, Fork
    <3>2. sorted_size' = 0 /\ mpc' \in {"openC", "import", "fork", "wait",
                                       "failed"}
      BY <2>3, <3>1
      DEF MainOpenParent, MainOpenChild, Import, Fork, Goto, mainMem
    <3>3. 0 \in 0 .. Rounds /\ 0 < Rounds /\ 0 = 0 * Chunk
      BY RoundsNat, CountsAssumption
    <3>4. SizeOK'
      BY <3>2, <3>3 DEF SizeOK
    <3> QED
      BY <2>3, <3>4, MemoryKept
      DEF MainOpenParent, MainOpenChild, Import, Fork
  <2>4. CASE Poll \/ Write \/ MainUnlinkChild \/ MainUnlinkParent
    <3>1. SizeOK'
      BY <2>4
      DEF IInv, SizeOK, Poll, Write, MainUnlinkChild, MainUnlinkParent, Goto,
          mainMem
    <3> QED
      BY <2>4, <3>1, MemoryKept
      DEF Poll, Write, MainUnlinkChild, MainUnlinkParent
  <2> QED
    BY <1>1, <2>1, <2>2, <2>3, <2>4 DEF MainStep
<1>2. ASSUME NEW c \in Procs, ChildStep(c)
      PROVE  IInv'
  BY <1>2, MemoryKept DEF ChildStep, IInv, SizeOK, mainMem, control
<1>3. CASE Kill
  <2>1. SizeOK'
    BY <1>3 DEF Kill, IInv, SizeOK, mainMem
  <2> QED
    BY <1>3, <2>1, MemoryKept DEF Kill
<1>4. CASE Restart
  <2>1. SizeOK'
    BY <1>4, RoundsNat, CountsAssumption DEF Restart, SizeOK, Goto
  <2>2. PrefixSorted'
    <3>1. sorted_size' = 0 /\ numbers' = unsorted'
      BY <1>4 DEF Restart
    <3>2. Permutes(unsorted', unsorted')
      BY PermutesRefl
    <3>3. Permutes(unsorted, numbers)'
      BY <3>1, <3>2 DEF Permutes
    <3>4. IsSorted(unsorted, sorted_size)'
      BY <3>1 DEF IsSorted
    <3> QED
      BY <3>3, <3>4 DEF PrefixSorted
  <2> QED
    BY <1>4, <2>1, <2>2 DEF Restart, IInv, ListsOK
<1>5. CASE UNCHANGED vars
  BY <1>5, MemoryKept DEF vars, mainMem, control, IInv, SizeOK
<1> QED
  BY <1>1, <1>2, <1>3, <1>4, <1>5 DEF Next

\* IInv is an invariant of the parent and its children.
THEOREM Invariance == Spec => []IInv
BY InitIInv, NextIInv, PTL DEF Spec

\* main's array is a permutation of the list, sorted up to sorted_size.
THEOREM PrefixAlwaysSorted == Spec => []PrefixSorted
<1>1. IInv => PrefixSorted
  BY DEF IInv
<1> QED
  BY <1>1, Invariance, PTL

\* When main has left its loop the list it prints and writes is sorted.
THEOREM WrittenSorted == Spec => []WrittenIsSorted
<1>1. IInv => WrittenIsSorted
  BY RoundsNat DEF IInv, SizeOK, PrefixSorted, WrittenIsSorted
<1> QED
  BY <1>1, Invariance, PTL
-----------------------------------------------------------------------------
(***************************************************************************)
(* The semaphores, and who has which open.  A process finds the semaphore  *)
(* its name led to when it opened it, one of the right kind; what was made *)
(* since this run started is open in somebody's hands.                     *)
(***************************************************************************)
Names == {"p", "c"}

KernelOK ==
  /\ sem \in Seq([of : Names, val : Nat])
  /\ name \in [Names -> 0 .. Len(sem)]
  /\ \A s \in Names : name[s] # NONE => sem[name[s]].of = s

MainOK ==
  /\ run \in 1 .. MaxRuns /\ before \in 0 .. Len(sem)
  /\ mpc \in MainStates /\ n \in Children
  /\ parent \in 0 .. Len(sem) /\ child \in 0 .. Len(sem)
  /\ parent # NONE => sem[parent].of = "p"
  /\ child # NONE => sem[child].of = "c"
  /\ mpc = "openP" => parent = NONE
  /\ mpc \in {"openP", "openC"} => child = NONE
  /\ mpc \notin Ended \cup {"openP"} => parent # NONE
  /\ mpc \notin Ended \cup {"openP", "openC"} => child # NONE

\* A child takes whole batches, and goes on only while some are left.
KidOK(c) ==
  /\ cpc[c] \in ChildStates
  /\ cparent[c] \in 0 .. Len(sem) /\ cchild[c] \in 0 .. Len(sem)
  /\ cparent[c] # NONE => sem[cparent[c]].of = "p"
  /\ cchild[c] # NONE => sem[cchild[c]].of = "c"
  /\ cpc[c] \in {"none", "openP"} => cparent[c] = NONE
  /\ cpc[c] \in {"none", "openP", "openC"} => cchild[c] = NONE /\ csize[c] = 0
  /\ cpc[c] \in {"openC", "wait", "post"} => cparent[c] # NONE
  /\ cpc[c] \in {"wait", "post"} => cchild[c] # NONE
  /\ \E b \in 0 .. Batches : /\ csize[c] = b * Chunk
                             /\ cpc[c] = "wait" => b < Batches

KidsOK ==
  /\ cpc = [c \in Procs |-> cpc[c]] /\ csize = [c \in Procs |-> csize[c]]
  /\ cparent = [c \in Procs |-> cparent[c]]
  /\ cchild = [c \in Procs |-> cchild[c]]
  /\ \A c \in Procs : KidOK(c)

NotForked ==
  \A c \in Procs :
    \/ c[1] > run
    \/ c[1] = run /\ mpc \in {"openP", "openC", "import"}
    \/ c[1] = run /\ mpc = "fork" /\ c[2] >= n
    => cpc[c] = "none"

Held == \A id \in before + 1 .. Len(sem) :
          \/ id \in {parent, child}
          \/ \E c \in Procs : id \in {cparent[c], cchild[c]}

HandlesInv == KernelOK /\ MainOK /\ KidsOK /\ NotForked /\ Held

\* Who will remove a name that is there, unless somebody was stopped.
Owed(s) ==
  \/ mpc \in {"failed", "killed"}
  \/ mpc \notin Ended /\ ~(s = "c" /\ mpc = "unlinkP")
  \/ \E c \in Procs : /\ cpc[c] \notin {"none", "exited"}
                      /\ ~(s = "c" /\ cpc[c] = "unlinkP")

NamesOwed == \A s \in Names : name[s] # NONE => Owed(s)

-----------------------------------------------------------------------------
\* What is left of a semaphore: all that was made is there, of its kind.
Grows == /\ Len(sem') \in Nat /\ Len(sem') >= Len(sem)
         /\ \A i \in 1 .. Len(sem) : sem'[i].of = sem[i].of

\* The kernel keeps sequences of semaphores.
LEMMA SemFacts ==
  ASSUME KernelOK
  PROVE  /\ Len(sem) \in Nat
         /\ \A i \in 1 .. Len(sem) : /\ sem[i] \in [of : Names, val : Nat]
                                     /\ sem[i].of \in Names /\ sem[i].val \in Nat
<1>1. sem \in Seq([of : Names, val : Nat])
  BY DEF KernelOK
<1>2. \A i \in 1 .. Len(sem) : sem[i] \in [of : Names, val : Nat]
  BY <1>1, ElementOfSeq
<1> QED
  BY <1>1, <1>2

\* sem_wait() and sem_post() change one value by one.
LEMMA ChangeSem ==
  ASSUME KernelOK, NEW id \in 1 .. Len(sem), NEW v \in Nat,
         sem' = [sem EXCEPT ![id].val = v], UNCHANGED name
  PROVE  /\ KernelOK' /\ Grows /\ Len(sem') = Len(sem)
         /\ \A i \in 1 .. Len(sem) :
              sem'[i].val = IF i = id THEN v ELSE sem[i].val
<1>1. sem \in [1 .. Len(sem) -> [of : Names, val : Nat]] /\ Len(sem) \in Nat
  BY LenProperties DEF KernelOK
<1>2. sem' = [sem EXCEPT ![id] = [sem[id] EXCEPT !.val = v]]
  OBVIOUS
<1>3. [sem[id] EXCEPT !.val = v] \in [of : Names, val : Nat]
      /\ [sem[id] EXCEPT !.val = v].of = sem[id].of
      /\ [sem[id] EXCEPT !.val = v].val = v
  BY <1>1
<1>4. sem' \in [1 .. Len(sem) -> [of : Names, val : Nat]]
  BY <1>1, <1>2, <1>3
<1>5. sem' \in Seq([of : Names, val : Nat]) /\ Len(sem') = Len(sem)
  BY <1>1, <1>2, <1>3 DEF KernelOK
<1>6. \A i \in 1 .. Len(sem) :
        /\ sem'[i].of = sem[i].of
        /\ sem'[i].val = IF i = id THEN v ELSE sem[i].val
  BY <1>1, <1>2, <1>3
<1>7. \A s \in Names : name[s] # NONE => sem'[name[s]].of = s
  BY <1>6 DEF KernelOK, NONE
<1> QED
  BY <1>1, <1>5, <1>6, <1>7 DEF KernelOK, Grows

LEMMA WaitSem ==
  ASSUME KernelOK, NEW id \in 1 .. Len(sem), Wait(id)
  PROVE  /\ KernelOK' /\ Grows /\ Len(sem') = Len(sem)
         /\ sem[id].val > 0
         /\ \A i \in 1 .. Len(sem) :
              sem'[i].val = IF i = id THEN sem[i].val - 1 ELSE sem[i].val
<1>1. sem[id].val \in Nat /\ sem[id].val > 0
  BY SemFacts DEF Wait
<1>2. PICK v : v = sem[id].val - 1
  OBVIOUS
<1>3. v \in Nat /\ sem' = [sem EXCEPT ![id].val = v] /\ UNCHANGED name
  BY <1>1, <1>2 DEF Wait
<1>4. /\ KernelOK' /\ Grows /\ Len(sem') = Len(sem)
      /\ \A i \in 1 .. Len(sem) : sem'[i].val = IF i = id THEN v ELSE sem[i].val
  BY <1>3, ChangeSem
<1> QED
  BY <1>1, <1>2, <1>4

LEMMA PostSem ==
  ASSUME KernelOK, NEW id \in 1 .. Len(sem), Post(id)
  PROVE  /\ KernelOK' /\ Grows /\ Len(sem') = Len(sem)
         /\ \A i \in 1 .. Len(sem) :
              sem'[i].val = IF i = id THEN sem[i].val + 1 ELSE sem[i].val
<1>1. sem[id].val \in Nat
  BY SemFacts
<1>2. PICK v : v = sem[id].val + 1
  OBVIOUS
<1>3. v \in Nat /\ sem' = [sem EXCEPT ![id].val = v] /\ UNCHANGED name
  BY <1>1, <1>2 DEF Post
<1>4. /\ KernelOK' /\ Grows /\ Len(sem') = Len(sem)
      /\ \A i \in 1 .. Len(sem) : sem'[i].val = IF i = id THEN v ELSE sem[i].val
  BY <1>3, ChangeSem
<1> QED
  BY <1>1, <1>2, <1>4

LEMMA UnlinkSem ==
  ASSUME KernelOK, NEW s \in Names, Unlink(s)
  PROVE  /\ KernelOK' /\ Grows /\ sem' = sem /\ name'[s] = NONE
         /\ \A t \in Names : t # s => name'[t] = name[t]
BY SemFacts DEF KernelOK, Unlink, Grows, NONE

\* sem_open() returns the semaphore the name leads to, or a new one.
LEMMA OpenSem ==
  ASSUME KernelOK, NEW s \in Names, NEW v \in Nat, NEW id \in Ids, Open(s, v, id)
  PROVE  /\ KernelOK' /\ Grows
         /\ id \in 1 .. Len(sem') /\ sem'[id].of = s
         /\ \A i \in 1 .. Len(sem) : sem'[i] = sem[i]
         /\ \/ name[s] = id /\ id \in 1 .. Len(sem) /\ UNCHANGED kernel
            \/ /\ id = Len(sem) + 1 /\ Len(sem') = id
               /\ sem'[id] = [of |-> s, val |-> v]
<1>1. CASE name[s] # NONE
  <2>1. id = name[s] /\ UNCHANGED kernel
    BY <1>1 DEF Open
  <2>2. id \in 1 .. Len(sem) /\ sem[id].of = s
    BY <1>1, <2>1, SemFacts DEF KernelOK, NONE
  <2>3. sem' = sem /\ name' = name
    BY <2>1 DEF kernel
  <2> QED
    BY <2>1, <2>2, <2>3, SemFacts DEF KernelOK, Grows
<1>2. CASE name[s] = NONE
  <2> DEFINE new == [of |-> s, val |-> v]
  <2>1. /\ id = Len(sem) + 1 /\ sem' = Append(sem, new)
        /\ name' = [name EXCEPT ![s] = id]
    BY <1>2 DEF Open
  <2>2. new \in [of : Names, val : Nat] /\ new.of = s
    OBVIOUS
  <2>3. sem \in Seq([of : Names, val : Nat]) /\ Len(sem) \in Nat
    BY SemFacts DEF KernelOK
  <2> HIDE DEF new
  <2>4. /\ sem' \in Seq([of : Names, val : Nat]) /\ Len(sem') = id
        /\ sem'[id] = new /\ \A i \in 1 .. Len(sem) : sem'[i] = sem[i]
    BY <2>1, <2>2, <2>3
  <2>5. name' \in [Names -> 0 .. Len(sem')]
    BY <2>1, <2>3, <2>4 DEF KernelOK
  <2>6. \A t \in Names : name'[t] # NONE => sem'[name'[t]].of = t
    BY <2>1, <2>2, <2>3, <2>4 DEF KernelOK, NONE
  <2>7. KernelOK'
    BY <2>4, <2>5, <2>6 DEF KernelOK
  <2>8. Grows
    BY <2>1, <2>3, <2>4 DEF Grows
  <2> QED
    BY <2>1, <2>2, <2>3, <2>4, <2>7, <2>8 DEF new
<1> QED
  BY <1>1, <1>2

-----------------------------------------------------------------------------
\* What a step that does not touch a process leaves as it is.
LEMMA KidKept ==
  ASSUME KernelOK, Grows, NEW c \in Procs, KidOK(c),
         cpc'[c] = cpc[c], csize'[c] = csize[c],
         cparent'[c] = cparent[c], cchild'[c] = cchild[c]
  PROVE  KidOK(c)'
<1>1. /\ cparent[c] # NONE => cparent[c] \in 1 .. Len(sem)
      /\ cchild[c] # NONE => cchild[c] \in 1 .. Len(sem)
  BY SemFacts DEF KidOK, NONE
<1> QED
  BY <1>1, SemFacts DEF KidOK, Grows, NONE

LEMMA MainKept ==
  ASSUME KernelOK, Grows, MainOK, UNCHANGED <<run, control, parent, child, before>>
  PROVE  MainOK'
<1>1. /\ parent # NONE => parent \in 1 .. Len(sem)
      /\ child # NONE => child \in 1 .. Len(sem)
  BY SemFacts DEF MainOK, NONE
<1> QED
  BY <1>1, SemFacts DEF MainOK, Grows, control, NONE

\* A step of one child.
LEMMA ChildShapes ==
  ASSUME KidsOK, NEW c \in Procs, ChildStep(c)
  PROVE  /\ cpc' = [d \in Procs |-> cpc'[d]] /\ csize' = [d \in Procs |-> csize'[d]]
         /\ cparent' = [d \in Procs |-> cparent'[d]]
         /\ cchild' = [d \in Procs |-> cchild'[d]]
         /\ \A d \in Procs \ {c} :
              /\ cpc'[d] = cpc[d] /\ csize'[d] = csize[d]
              /\ cparent'[d] = cparent[d] /\ cchild'[d] = cchild[d]
         /\ UNCHANGED <<run, control, parent, child, mainMem, before>>
<1>1. CASE ChildOpenParent(c)
  BY <1>1 DEF ChildStep, ChildOpenParent, ChildGoto, KidsOK
<1>2. CASE ChildOpenChild(c)
  BY <1>2 DEF ChildStep, ChildOpenChild, ChildGoto, KidsOK
<1>3. CASE TakeBatch(c)
  BY <1>3 DEF ChildStep, TakeBatch, ChildGoto, KidsOK
<1>4. CASE Deliver(c)
  BY <1>4 DEF ChildStep, Deliver, ChildGoto, KidsOK
<1>5. CASE ChildUnlinkChild(c)
  BY <1>5 DEF ChildStep, ChildUnlinkChild, ChildGoto, KidsOK
<1>6. CASE ChildUnlinkParent(c)
  BY <1>6 DEF ChildStep, ChildUnlinkParent, ChildGoto, KidsOK
<1> QED
  BY <1>1, <1>2, <1>3, <1>4, <1>5, <1>6 DEF ChildStep

\* What it does to its semaphores and to itself.
LEMMA ChildKernel ==
  ASSUME KernelOK, KidsOK, NEW c \in Procs, ChildStep(c)
  PROVE  /\ KernelOK' /\ Grows /\ KidOK(c)'
         /\ cpc[c] # "none" /\ cpc'[c] # "none"
         /\ cparent[c] \in {NONE, cparent'[c]} /\ cchild[c] \in {NONE, cchild'[c]}
         /\ \A id \in 1 .. Len(sem') : id > Len(sem) =>
              id \in {cparent'[c], cchild'[c]}
<1> USE DEF NONE
<1>1. KidOK(c) /\ /\ cpc = [d \in Procs |-> cpc[d]]
                  /\ csize = [d \in Procs |-> csize[d]]
                  /\ cparent = [d \in Procs |-> cparent[d]]
                  /\ cchild = [d \in Procs |-> cchild[d]]
  BY DEF KidsOK
<1>2. Len(sem) \in Nat /\ Chunk \in Nat \ {0} /\ Batches \in Nat \ {0}
  BY SemFacts, CountsAssumption
<1>3. PICK b \in 0 .. Batches : csize[c] = b * Chunk
                               /\ (cpc[c] = "wait" => b < Batches)
  BY <1>1 DEF KidOK
<1>4. cpc[c] # "none"
  BY DEF ChildStep, ChildOpenParent, ChildOpenChild, TakeBatch, Deliver,
         ChildUnlinkChild, ChildUnlinkParent
<1>5. ASSUME UNCHANGED kernel PROVE KernelOK' /\ Grows /\ Len(sem') = Len(sem)
  BY <1>2, <1>5 DEF KernelOK, Grows, kernel
<1>6. CASE ChildOpenParent(c)
  <2>0. csize'[c] = csize[c] /\ cchild'[c] = cchild[c] /\ cpc[c] = "openP"
    BY <1>6 DEF ChildOpenParent
  <2>1. CASE \E id \in Ids : /\ Open("p", 0, id)
                             /\ cparent' = [cparent EXCEPT ![c] = id]
                             /\ ChildGoto(c, "openC")
    <3>1. PICK id \in Ids : /\ Open("p", 0, id)
                            /\ cparent' = [cparent EXCEPT ![c] = id]
                            /\ ChildGoto(c, "openC")
      BY <2>1
    <3>2. /\ KernelOK' /\ Grows /\ id \in 1 .. Len(sem') /\ sem'[id].of = "p"
          /\ Len(sem') = Len(sem) \/ Len(sem') = id
      BY <3>1, OpenSem DEF Names, kernel
    <3>3. cparent'[c] = id /\ cpc'[c] = "openC"
      BY <1>1, <3>1 DEF ChildGoto
    <3>4. Len(sem') \in Nat /\ (id = Len(sem') \/ Len(sem') = Len(sem))
      BY <3>2 DEF Grows
    <3>5. KidOK(c)'
      BY <1>1, <2>0, <3>2, <3>3, <3>4 DEF KidOK, ChildStates
    <3>6. cparent[c] = NONE
      BY <1>1, <2>0 DEF KidOK
    <3>7. \A j \in 1 .. Len(sem') : j > Len(sem) => j = id
      <4>1. CASE UNCHANGED kernel
        BY <4>1, <1>2 DEF kernel
      <4>2. CASE Len(sem') = id /\ id = Len(sem) + 1
        BY <4>2, <1>2
      <4> QED
        BY <3>1, <4>1, <4>2, OpenSem DEF Names
    <3> QED
      BY <1>4, <2>0, <3>2, <3>3, <3>5, <3>6, <3>7
  <2>2. CASE UNCHANGED <<kernel, cparent>> /\ ChildGoto(c, "failed")
    <3>1. cpc'[c] = "failed" /\ cparent'[c] = cparent[c]
      BY <1>1, <2>2 DEF ChildGoto
    <3>2. KernelOK' /\ Grows /\ Len(sem') = Len(sem)
      BY <1>5, <2>2
    <3>3. KidOK(c)'
      BY <1>1, <2>0, <3>1, <3>2 DEF KidOK, ChildStates
    <3> QED
      BY <1>2, <1>4, <2>0, <3>1, <3>2, <3>3
  <2> QED
    BY <1>6, <2>1, <2>2 DEF ChildOpenParent
<1>7. CASE ChildOpenChild(c)
  <2>0. csize'[c] = csize[c] /\ cparent'[c] = cparent[c] /\ cpc[c] = "openC"
    BY <1>7 DEF ChildOpenChild
  <2>1. CASE \E id \in Ids : /\ Open("c", Tokens, id)
                             /\ cchild' = [cchild EXCEPT ![c] = id]
                             /\ ChildGoto(c, "wait")
    <3>1. PICK id \in Ids : /\ Open("c", Tokens, id)
                            /\ cchild' = [cchild EXCEPT ![c] = id]
                            /\ ChildGoto(c, "wait")
      BY <2>1
    <3>2. /\ KernelOK' /\ Grows /\ id \in 1 .. Len(sem') /\ sem'[id].of = "c"
          /\ \/ Len(sem') = Len(sem)
             \/ Len(sem') = id /\ id = Len(sem) + 1
      BY <3>1, OpenSem, CountsAssumption DEF Names, kernel
    <3>3. cchild'[c] = id /\ cpc'[c] = "wait"
      BY <1>1, <3>1 DEF ChildGoto
    <3>4. Len(sem') \in Nat
      BY <3>2 DEF Grows
    <3>5. /\ csize'[c] = 0 * Chunk /\ 0 \in 0 .. Batches /\ 0 < Batches
      BY <1>1, <1>2, <2>0 DEF KidOK
    <3>6. cparent'[c] # NONE => sem'[cparent'[c]].of = "p"
      BY <1>1, <1>2, <2>0, <3>2 DEF KidOK, Grows
    <3>7. cparent'[c] \in 0 .. Len(sem')
      BY <1>1, <1>2, <2>0, <3>2 DEF KidOK, Grows
    <3>8. KidOK(c)'
      BY <1>1, <2>0, <3>2, <3>3, <3>4, <3>5, <3>6, <3>7 DEF KidOK, ChildStates
    <3>9. cchild[c] = NONE
      BY <1>1, <2>0 DEF KidOK
    <3>10. \A j \in 1 .. Len(sem') : j > Len(sem) => j = id
      BY <1>2, <3>2, <3>4
    <3> QED
      BY <1>4, <2>0, <3>2, <3>3, <3>8, <3>9, <3>10
  <2>2. CASE UNCHANGED <<kernel, cchild>> /\ ChildGoto(c, "failed")
    <3>1. cpc'[c] = "failed" /\ cchild'[c] = cchild[c]
      BY <1>1, <2>2 DEF ChildGoto
    <3>2. KernelOK' /\ Grows /\ Len(sem') = Len(sem) /\ sem' = sem
      BY <1>5, <2>2 DEF kernel
    <3>3. KidOK(c)'
      BY <1>1, <2>0, <3>1, <3>2 DEF KidOK, ChildStates
    <3> QED
      BY <1>2, <1>4, <2>0, <3>1, <3>2, <3>3
  <2> QED
    BY <1>7, <2>1, <2>2 DEF ChildOpenChild
<1>8. CASE TakeBatch(c)
  <2>1. /\ cpc[c] = "wait" /\ cpc'[c] = "post" /\ csize'[c] = csize[c] + Chunk
        /\ cparent'[c] = cparent[c] /\ cchild'[c] = cchild[c]
    BY <1>1, <1>8 DEF TakeBatch, ChildGoto
  <2>2. cchild[c] \in 1 .. Len(sem) /\ Wait(cchild[c])
    BY <1>1, <1>2, <1>8, <2>1 DEF KidOK, TakeBatch
  <2>3. PICK id \in 1 .. Len(sem) : id = cchild[c] /\ Wait(id)
    BY <2>2
  <2>4. KernelOK' /\ Grows /\ Len(sem') = Len(sem)
    BY <2>3, WaitSem
  <2>5. b + 1 \in 0 .. Batches /\ csize'[c] = (b + 1) * Chunk
    BY <1>2, <1>3, <2>1
  <2>6. KidOK(c)'
    BY <1>1, <1>2, <2>1, <2>4, <2>5, SMTT(30) DEF KidOK, ChildStates, Grows
  <2> QED
    BY <1>2, <1>4, <2>1, <2>4, <2>6
<1>9. CASE Deliver(c)
  <2>1. /\ cpc[c] = "post" /\ csize'[c] = csize[c]
        /\ cpc'[c] = IF csize[c] < Batches * Chunk THEN "wait" ELSE "unlinkC"
        /\ cparent'[c] = cparent[c] /\ cchild'[c] = cchild[c]
    BY <1>1, <1>9 DEF Deliver, ChildGoto
  <2>2. cparent[c] \in 1 .. Len(sem) /\ Post(cparent[c])
    BY <1>1, <1>2, <1>9, <2>1 DEF KidOK, Deliver
  <2>3. PICK id \in 1 .. Len(sem) : id = cparent[c] /\ Post(id)
    BY <2>2
  <2>4. KernelOK' /\ Grows /\ Len(sem') = Len(sem)
    BY <2>3, PostSem
  <2>5. cpc'[c] = "wait" => b < Batches
    BY <1>2, <1>3, <2>1
  <2>6. KidOK(c)'
    BY <1>1, <1>2, <1>3, <2>1, <2>4, <2>5 DEF KidOK, ChildStates, Grows
  <2> QED
    BY <1>2, <1>4, <2>1, <2>4, <2>6
<1>10. CASE ChildUnlinkChild(c) \/ ChildUnlinkParent(c)
  <2>1. /\ cpc[c] \in {"unlinkC", "unlinkP"} /\ cpc'[c] \in {"unlinkP", "exited"}
        /\ csize'[c] = csize[c]
        /\ cparent'[c] = cparent[c] /\ cchild'[c] = cchild[c]
    BY <1>1, <1>10 DEF ChildUnlinkChild, ChildUnlinkParent, ChildGoto
  <2>2. KernelOK' /\ Grows /\ sem' = sem
    BY <1>10, UnlinkSem DEF ChildUnlinkChild, ChildUnlinkParent, Names
  <2>3. KidOK(c)'
    BY <1>1, <1>3, <2>1, <2>2 DEF KidOK, ChildStates
  <2> QED
    BY <1>2, <1>4, <2>1, <2>2, <2>3
<1> QED
  BY <1>6, <1>7, <1>8, <1>9, <1>10 DEF ChildStep

\* A step of a child keeps everything in order.
LEMMA ChildHandles ==
  ASSUME HandlesInv, NEW c \in Procs, ChildStep(c)
  PROVE  HandlesInv' /\ Grows
<1>1. /\ KernelOK' /\ Grows /\ KidOK(c)'
      /\ cpc[c] # "none" /\ cpc'[c] # "none"
      /\ cparent[c] \in {NONE, cparent'[c]} /\ cchild[c] \in {NONE, cchild'[c]}
      /\ \A id \in 1 .. Len(sem') : id > Len(sem) =>
           id \in {cparent'[c], cchild'[c]}
  BY ChildKernel DEF HandlesInv
<1>2. /\ \A d \in Procs \ {c} :
           /\ cpc'[d] = cpc[d] /\ csize'[d] = csize[d]
           /\ cparent'[d] = cparent[d] /\ cchild'[d] = cchild[d]
      /\ UNCHANGED <<run, control, parent, child, mainMem, before>>
  BY ChildShapes DEF HandlesInv
<1>3. MainOK'
  BY <1>1, <1>2, MainKept DEF HandlesInv
<1>4. KidsOK'
  <2>1. ASSUME NEW d \in Procs PROVE KidOK(d)'
    BY <1>1, <1>2, KidKept DEF HandlesInv, KidsOK
  <2> QED
    BY <2>1, ChildShapes DEF KidsOK, HandlesInv
<1>5. NotForked'
  BY <1>1, <1>2 DEF NotForked, HandlesInv, control
<1>6. Held'
  <2>1. SUFFICES ASSUME NEW id \in before + 1 .. Len(sem')
                 PROVE  \/ id \in {parent, child}
                        \/ \E d \in Procs : id \in {cparent'[d], cchild'[d]}
    BY <1>2 DEF Held
  <2>2. before \in Nat /\ Len(sem) \in Nat /\ Len(sem') \in Nat
    BY <1>1, SemFacts DEF HandlesInv, MainOK, Grows
  <2>3. CASE id > Len(sem)
    BY <1>1, <2>2, <2>3
  <2>4. CASE id <= Len(sem)
    <3>1. id \in before + 1 .. Len(sem) /\ id # NONE
      BY <2>2, <2>4 DEF NONE
    <3>2. \/ id \in {parent, child}
          \/ \E d \in Procs : id \in {cparent[d], cchild[d]}
      BY <3>1 DEF HandlesInv, Held
    <3> QED
      BY <1>1, <1>2, <3>1, <3>2
  <2> QED
    BY <2>2, <2>3, <2>4
<1> QED
  BY <1>1, <1>3, <1>4, <1>5, <1>6 DEF HandlesInv

\* The children when only main and the kernel move.
LEMMA KidsKept ==
  ASSUME HandlesInv, Grows, UNCHANGED kids
  PROVE  KidsOK'
<1>1. UNCHANGED <<cpc, cparent, cchild, csize>>
  BY DEF kids
<1>2. ASSUME NEW d \in Procs PROVE KidOK(d)'
  BY <1>1, KidKept DEF HandlesInv, KidsOK
<1> QED
  BY <1>1, <1>2 DEF HandlesInv, KidsOK

\* Who holds a semaphore holds it on.
LEMMA HeldOn ==
  ASSUME HandlesInv, Len(sem') \in Nat, before' = before,
         UNCHANGED <<cparent, cchild>>,
         parent \in {NONE, parent'}, child \in {NONE, child'},
         \A id \in 1 .. Len(sem') : id > Len(sem) => id \in {parent', child'}
  PROVE  Held'
<1>1. SUFFICES ASSUME NEW id \in before + 1 .. Len(sem')
               PROVE  \/ id \in {parent', child'}
                      \/ \E d \in Procs : id \in {cparent[d], cchild[d]}
  BY DEF Held
<1>2. before \in Nat /\ Len(sem) \in Nat
  BY SemFacts DEF HandlesInv, MainOK
<1>3. id \in 1 .. Len(sem') /\ id # NONE
  BY <1>2 DEF NONE
<1>4. CASE id <= Len(sem)
  <2>1. id \in before + 1 .. Len(sem)
    BY <1>2, <1>4
  <2> QED
    BY <1>3, <2>1 DEF HandlesInv, Held
<1> QED
  BY <1>2, <1>3, <1>4

\* The steps of main.
LEMMA MainHandles ==
  ASSUME HandlesInv, MainStep
  PROVE  HandlesInv' /\ Grows
<1> USE DEF NONE
<1>0. /\ KernelOK /\ MainOK /\ KidsOK /\ NotForked /\ Held
      /\ Len(sem) \in Nat /\ UNCHANGED <<run, before>>
      /\ before \in Nat /\ run \in 1 .. MaxRuns /\ n \in 1 .. NumChild
      /\ NumChild \in Nat \ {0} /\ 1 \in Children /\ MaxRuns \in Nat
  BY SemFacts, CountsAssumption DEF HandlesInv, MainStep, MainOK, Children
<1>1. CASE MainOpenParent
  <2>0. mpc = "openP" /\ parent = NONE /\ child = NONE /\ UNCHANGED <<child, kids>>
    BY <1>0, <1>1 DEF MainOpenParent, MainOK
  <2>1. CASE \E id \in Ids : /\ Open("p", 0, id)
                             /\ parent' = id
                             /\ Goto("openC", n)
    <3>1. PICK id \in Ids : Open("p", 0, id) /\ parent' = id /\ Goto("openC", n)
      BY <2>1
    <3>2. /\ KernelOK' /\ Grows /\ id \in 1 .. Len(sem') /\ sem'[id].of = "p"
          /\ \/ Len(sem') = Len(sem)
             \/ Len(sem') = id /\ id = Len(sem) + 1
      BY <1>0, <3>1, OpenSem DEF Names, kernel
    <3>3. Len(sem') \in Nat /\ Len(sem') >= Len(sem)
      BY <3>2 DEF Grows
    <3>4. MainOK'
      BY <1>0, <2>0, <3>1, <3>2, <3>3 DEF MainOK, Goto, MainStates, Ended
    <3>5. NotForked'
      BY <1>0, <2>0, <3>1 DEF NotForked, Goto, kids
    <3>6. Held'
      BY <1>0, <2>0, <3>1, <3>2, <3>3, HeldOn DEF kids
    <3> QED
      BY <2>0, <3>2, <3>4, <3>5, <3>6, KidsKept DEF HandlesInv
  <2>2. CASE UNCHANGED <<kernel, parent>> /\ Goto("failed", n)
    <3>1. KernelOK' /\ Grows /\ sem' = sem
      BY <1>0, <2>2 DEF KernelOK, Grows, kernel
    <3>2. MainOK'
      BY <1>0, <2>0, <2>2, <3>1 DEF MainOK, Goto, MainStates, Ended
    <3>3. NotForked'
      BY <1>0, <2>0, <2>2 DEF NotForked, Goto, kids
    <3>4. Held'
      BY <1>0, <2>0, <2>2, <3>1, HeldOn DEF kids
    <3> QED
      BY <2>0, <3>1, <3>2, <3>3, <3>4, KidsKept DEF HandlesInv
  <2> QED
    BY <1>1, <2>1, <2>2 DEF MainOpenParent
<1>2. CASE MainOpenChild
  <2>0. /\ mpc = "openC" /\ child = NONE /\ UNCHANGED <<parent, kids>>
        /\ parent \in 1 .. Len(sem) /\ sem[parent].of = "p"
    BY <1>0, <1>2 DEF MainOpenChild, MainOK, Ended
  <2>1. CASE \E id \in Ids : /\ Open("c", Tokens, id)
                             /\ child' = id
                             /\ Goto("import", n)
    <3>1. PICK id \in Ids : /\ Open("c", Tokens, id) /\ child' = id
                            /\ Goto("import", n)
      BY <2>1
    <3>2. /\ KernelOK' /\ Grows /\ id \in 1 .. Len(sem') /\ sem'[id].of = "c"
          /\ \/ Len(sem') = Len(sem)
             \/ Len(sem') = id /\ id = Len(sem) + 1
      BY <1>0, <3>1, OpenSem, CountsAssumption DEF Names, kernel
    <3>3. Len(sem') \in Nat /\ Len(sem') >= Len(sem)
      BY <3>2 DEF Grows
    <3>4. sem'[parent].of = "p" /\ parent \in 0 .. Len(sem')
      BY <1>0, <2>0, <3>2, <3>3 DEF Grows
    <3>5. MainOK'
      BY <1>0, <2>0, <3>1, <3>2, <3>3, <3>4 DEF MainOK, Goto, MainStates, Ended
    <3>6. NotForked'
      BY <1>0, <2>0, <3>1 DEF NotForked, Goto, kids
    <3>7. Held'
      BY <1>0, <2>0, <3>1, <3>2, <3>3, HeldOn DEF kids
    <3> QED
      BY <2>0, <3>2, <3>5, <3>6, <3>7, KidsKept DEF HandlesInv
  <2>2. CASE UNCHANGED <<kernel, child>> /\ Goto("failed", n)
    <3>1. KernelOK' /\ Grows /\ sem' = sem
      BY <1>0, <2>2 DEF KernelOK, Grows, kernel
    <3>2. MainOK'
      BY <1>0, <2>0, <2>2, <3>1 DEF MainOK, Goto, MainStates, Ended
    <3>3. NotForked'
      BY <1>0, <2>0, <2>2 DEF NotForked, Goto, kids
    <3>4. Held'
      BY <1>0, <2>0, <2>2, <3>1, HeldOn DEF kids
    <3> QED
      BY <2>0, <3>1, <3>2, <3>3, <3>4, KidsKept DEF HandlesInv
  <2> QED
    BY <1>2, <2>1, <2>2 DEF MainOpenChild
<1>3. CASE Fork
  <2>1. /\ mpc = "fork" /\ UNCHANGED <<parent, child, cparent, cchild, csize>>
        /\ sem' = sem /\ name' = name
    BY <1>3 DEF Fork, kernel
  <2> DEFINE me == <<run, n>>
  <2>2. me \in Procs /\ cpc[me] = "none" /\ me[1] = run /\ me[2] = n
    BY <1>0, <2>1 DEF Procs, Children, NotForked
  <2>3. /\ cpc' = [c \in Procs |-> cpc'[c]]
        /\ \A c \in Procs : cpc'[c] = cpc[c] \/ (c = me /\ cpc'[c] = "openP")
    BY <1>0, <1>3, <2>2 DEF Fork, KidsOK
  <2>4. KernelOK' /\ Grows
    BY <1>0, <2>1 DEF KernelOK, Grows
  <2>5. MainOK'
    BY <1>0, <1>3, <2>1 DEF MainOK, Fork, Goto, MainStates, Ended, Children
  <2>6. KidsOK'
    <3>1. ASSUME NEW c \in Procs PROVE KidOK(c)'
      <4>1. CASE cpc'[c] = cpc[c]
        BY <1>0, <2>1, <2>4, <4>1, KidKept DEF KidsOK
      <4>2. CASE c = me /\ cpc'[c] = "openP"
        <5>1. cpc[c] = "none"
          BY <2>2, <4>2
        <5> QED
          BY <1>0, <2>1, <4>2, <5>1 DEF KidsOK, KidOK, ChildStates
      <4> QED
        BY <2>3, <4>1, <4>2
    <3> QED
      BY <1>0, <2>1, <2>3, <3>1 DEF KidsOK
  <2>7. NotForked'
    <3>1. ASSUME NEW c \in Procs, c[1] = run, c[2] = n PROVE c = me
      BY <3>1 DEF Procs
    <3>2. \A c \in Procs : c[2] \in 1 .. NumChild
      BY DEF Procs, Children
    <3>3. CASE mpc' = "fork" /\ n' = n + 1
      <4>1. \A c \in Procs : c[1] > run => c # me
        BY <1>0, <2>2
      <4>2. \A c \in Procs : c[2] >= n + 1 => c # me /\ c[2] >= n
        BY <1>0, <2>2, <3>2
      <4> QED
        BY <1>0, <2>1, <2>3, <3>3, <4>1, <4>2 DEF NotForked
    <3>4. CASE mpc' = "wait"
      <4>1. \A c \in Procs : c[1] > run => c # me
        BY <1>0, <2>2
      <4> QED
        BY <1>0, <2>1, <2>3, <3>4, <4>1 DEF NotForked
    <3> QED
      BY <1>3, <3>3, <3>4 DEF Fork, Goto
  <2>8. Held'
    BY <1>0, <2>1, HeldOn
  <2> QED
    BY <2>4, <2>5, <2>6, <2>7, <2>8 DEF HandlesInv
<1>4. CASE Merge \/ PostChild
  <2>0. /\ mpc \in {"wait", "post"} /\ mpc' \in {"post", "wait", "poll"}
        /\ n' \in Children /\ UNCHANGED <<parent, child, kids>>
    BY <1>0, <1>4 DEF Merge, PostChild, Goto, MainOK
  <2>1. KernelOK' /\ Grows /\ Len(sem') = Len(sem)
    <3>1. parent \in 1 .. Len(sem) /\ child \in 1 .. Len(sem)
      BY <1>0, <2>0 DEF MainOK, Ended
    <3>2. PICK a \in 1 .. Len(sem), b \in 1 .. Len(sem) : a = parent /\ b = child
      BY <3>1
    <3>3. Wait(a) \/ Post(b)
      BY <1>4, <3>2 DEF Merge, PostChild
    <3> QED
      BY <1>0, <3>3, WaitSem, PostSem
  <2>2. /\ parent # NONE => sem'[parent].of = "p"
        /\ child # NONE => sem'[child].of = "c"
    BY <1>0, <2>1 DEF MainOK, Grows
  <2>3. MainOK'
    BY <1>0, <2>0, <2>1, <2>2 DEF MainOK, MainStates, Ended
  <2>4. NotForked'
    BY <1>0, <2>0 DEF NotForked, kids
  <2>5. Held'
    BY <1>0, <2>0, <2>1, HeldOn DEF kids
  <2> QED
    BY <2>0, <2>1, <2>3, <2>4, <2>5, KidsKept DEF HandlesInv
<1>5. CASE Import \/ Poll \/ Write
  <2>0. /\ mpc \in {"import", "poll", "write"}
        /\ \/ mpc = "import" /\ mpc' = "fork" /\ n' = 1
           \/ mpc' \in {"poll", "write", "unlinkC", "failed"}
        /\ n' \in Children /\ UNCHANGED <<parent, child, kids>>
        /\ sem' = sem /\ name' = name
    BY <1>0, <1>5 DEF Import, Poll, Write, Goto, kernel, Children
  <2>1. KernelOK' /\ Grows
    BY <1>0, <2>0 DEF KernelOK, Grows
  <2>2. MainOK'
    BY <1>0, <2>0 DEF MainOK, MainStates, Ended
  <2>3. NotForked'
    BY <1>0, <2>0 DEF NotForked, kids
  <2>4. Held'
    BY <1>0, <2>0, HeldOn DEF kids
  <2> QED
    BY <2>0, <2>1, <2>2, <2>3, <2>4, KidsKept DEF HandlesInv
<1>6. CASE MainUnlinkChild \/ MainUnlinkParent
  <2>0. /\ mpc \in {"unlinkC", "unlinkP"} /\ mpc' \in {"unlinkP", "exited"}
        /\ n' = n /\ UNCHANGED <<parent, child, kids>>
    BY <1>6 DEF MainUnlinkChild, MainUnlinkParent, Goto
  <2>1. KernelOK' /\ Grows /\ sem' = sem
    BY <1>0, <1>6, UnlinkSem DEF MainUnlinkChild, MainUnlinkParent, Names
  <2>2. MainOK'
    BY <1>0, <2>0, <2>1 DEF MainOK, MainStates, Ended
  <2>3. NotForked'
    BY <1>0, <2>0 DEF NotForked, kids
  <2>4. Held'
    BY <1>0, <2>0, <2>1, HeldOn DEF kids
  <2> QED
    BY <2>0, <2>1, <2>2, <2>3, <2>4, KidsKept DEF HandlesInv
<1> QED
  BY <1>1, <1>2, <1>3, <1>4, <1>5, <1>6 DEF MainStep

\* The user's steps.
LEMMA UserHandles ==
  ASSUME HandlesInv, Kill \/ Restart
  PROVE  HandlesInv' /\ Grows
<1> USE DEF NONE
<1>0. /\ KernelOK /\ MainOK /\ KidsOK /\ NotForked /\ Held
      /\ Len(sem) \in Nat /\ sem' = sem /\ name' = name
      /\ before \in Nat /\ run \in 1 .. MaxRuns /\ n \in 1 .. NumChild
      /\ NumChild \in Nat \ {0} /\ 1 \in Children /\ MaxRuns \in Nat
  BY SemFacts, CountsAssumption
  DEF HandlesInv, MainOK, Children, Kill, Restart, kernel
<1>1. KernelOK' /\ Grows
  BY <1>0 DEF KernelOK, Grows
<1>2. CASE Kill
  <2>0. /\ mpc' = "killed"
        /\ UNCHANGED <<run, n, parent, child, before, cparent, cchild, csize>>
        /\ cpc' = [c \in Procs |-> cpc'[c]]
        /\ \A c \in Procs : \/ cpc'[c] = cpc[c]
                            \/ cpc'[c] = "killed" /\ cpc[c] # "none"
    BY <1>2 DEF Kill
  <2>1. MainOK'
    BY <1>0, <2>0 DEF MainOK, MainStates, Ended
  <2>2. KidsOK'
    <3>1. ASSUME NEW c \in Procs PROVE KidOK(c)'
      <4>1. CASE cpc'[c] = cpc[c]
        BY <1>0, <1>1, <2>0, <4>1, KidKept DEF KidsOK
      <4>2. CASE cpc'[c] = "killed"
        BY <1>0, <2>0, <4>2 DEF KidsOK, KidOK, ChildStates
      <4> QED
        BY <2>0, <4>1, <4>2
    <3> QED
      BY <1>0, <2>0, <3>1 DEF KidsOK
  <2>3. NotForked'
    BY <1>0, <2>0 DEF NotForked
  <2>4. Held'
    BY <1>0, <2>0, HeldOn
  <2> QED
    BY <1>1, <2>1, <2>2, <2>3, <2>4 DEF HandlesInv
<1>3. CASE Restart
  <2>0. /\ mpc' = "openP" /\ n' = 1 /\ parent' = NONE /\ child' = NONE
        /\ run' = run + 1 /\ run < MaxRuns /\ before' = Len(sem)
        /\ UNCHANGED kids
    BY <1>3 DEF Restart, Goto
  <2>1. MainOK'
    BY <1>0, <2>0 DEF MainOK, MainStates, Ended
  <2>2. NotForked'
    <3>1. \A c \in Procs : c[1] \in Nat
      BY <1>0 DEF Procs
    <3>2. \A c \in Procs : c[1] >= run + 1 => c[1] > run
      BY <1>0, <3>1
    <3> QED
      BY <1>0, <2>0, <3>1, <3>2 DEF NotForked, kids
  <2>3. Held'
    BY <1>0, <2>0 DEF Held
  <2> QED
    BY <1>1, <2>0, <2>1, <2>2, <2>3, KidsKept DEF HandlesInv
<1> QED
  BY <1>2, <1>3

\* It holds at the start, and every step keeps it.
LEMMA HandlesStart == Init => HandlesInv
<1> SUFFICES ASSUME Init PROVE HandlesInv
  OBVIOUS
<1> USE DEF Init, NONE
<1>0. /\ NumChild \in Nat \ {0} /\ MaxRuns \in Nat \ {0} /\ Batches \in Nat \ {0}
      /\ Chunk \in Nat /\ Len(sem) = 0
      /\ 1 \in Children /\ 1 \in 1 .. MaxRuns /\ 0 \in 0 .. Batches
      /\ 0 = 0 * Chunk
  BY CountsAssumption DEF Children
<1>1. KernelOK
  <2>1. sem \in Seq([of : Names, val : Nat])
    BY EmptySeq
  <2> QED
    BY <1>0, <2>1 DEF KernelOK, Names
<1>2. MainOK
  BY <1>0 DEF MainOK, MainStates, Ended
<1>3. KidsOK
  <2>1. ASSUME NEW c \in Procs PROVE KidOK(c)
    <3>1. \E b \in 0 .. Batches : csize[c] = b * Chunk
                                 /\ (cpc[c] = "wait" => b < Batches)
      BY <1>0
    <3>2. cpc[c] = "none" /\ csize[c] = 0 /\ cparent[c] = 0 /\ cchild[c] = 0
      OBVIOUS
    <3> HIDE DEF Init
    <3> QED
      BY <1>0, <3>1, <3>2 DEF KidOK, ChildStates
  <2> QED
    BY <2>1 DEF KidsOK
<1>4. NotForked
  BY DEF NotForked
<1>5. Held
  BY <1>0 DEF Held
<1> QED
  BY <1>1, <1>2, <1>3, <1>4, <1>5 DEF HandlesInv

LEMMA HandlesSteps ==
  ASSUME HandlesInv, [Next]_vars
  PROVE  HandlesInv' /\ Grows
<1>1. CASE UNCHANGED vars
  <2>1. /\ sem' = sem /\ name' = name /\ run' = run /\ before' = before
        /\ mpc' = mpc /\ n' = n /\ parent' = parent /\ child' = child
        /\ cpc' = cpc /\ cparent' = cparent /\ cchild' = cchild /\ csize' = csize
    BY <1>1 DEF vars, kernel, control, kids
  <2>2. KernelOK' /\ Grows
    BY <2>1, SemFacts DEF HandlesInv, KernelOK, Grows
  <2>3. MainOK' /\ KidsOK' /\ NotForked' /\ Held'
    BY <2>1 DEF HandlesInv, MainOK, KidsOK, KidOK, NotForked, Held
  <2> QED
    BY <2>2, <2>3 DEF HandlesInv
<1> QED
  BY <1>1, MainHandles, ChildHandles, UserHandles DEF Next

\* Every process holds semaphores of the right kind, of all there are.
THEOREM HandlesInvariance == Spec => []HandlesInv
<1>1. HandlesInv /\ [Next]_vars => HandlesInv'
  BY HandlesSteps
<1> QED
  BY <1>1, HandlesStart, PTL DEF Spec

\* Every variable has its type: no semaphore goes below zero, and main and its
\* children stop exactly at the end of their lists.
THEOREM TypeCorrect == Spec => []TypeOK
<1>1. IInv /\ HandlesInv => TypeOK
  <2> SUFFICES ASSUME IInv, HandlesInv PROVE TypeOK
    OBVIOUS
  <2>1. sorted_size \in 0 .. ListSize
    <3>1. PICK r \in 0 .. Rounds : sorted_size = r * Chunk
      BY DEF IInv, SizeOK
    <3>2. r \in Nat /\ Rounds \in Nat /\ (r = Rounds \/ r < Rounds) /\ Chunk \in Nat
      BY <3>1, RoundsNat, CountsAssumption
    <3>3. r < Rounds => r * Chunk < Rounds * Chunk
      BY <3>2, TimesChunk
    <3>4. r * Chunk \in Nat
      BY <3>2
    <3> QED
      BY <3>1, <3>2, <3>3, <3>4, RoundsNat
  <2>2. ASSUME NEW c \in Procs PROVE csize[c] \in 0 .. Batches * Chunk
    <3>1. PICK b \in 0 .. Batches : csize[c] = b * Chunk
      BY DEF HandlesInv, KidsOK, KidOK
    <3>2. /\ b \in Nat /\ Batches \in Nat /\ (b = Batches \/ b < Batches)
          /\ Chunk \in Nat
      BY <3>1, CountsAssumption
    <3>3. b < Batches => b * Chunk < Batches * Chunk
      BY <3>2, TimesChunk
    <3>4. b * Chunk \in Nat /\ Batches * Chunk \in Nat
      BY <3>2
    <3> QED
      BY <3>1, <3>2, <3>3, <3>4
  <2>3. /\ cpc \in [Procs -> ChildStates]
        /\ cparent \in [Procs -> 0 .. Len(sem)] /\ cchild \in [Procs -> 0 .. Len(sem)]
        /\ csize \in [Procs -> 0 .. Batches * Chunk]
    BY <2>2 DEF HandlesInv, KidsOK, KidOK
  <2>4. KernelOK /\ MainOK /\ ListsOK
    BY DEF HandlesInv, IInv
  <2> QED
    BY <2>1, <2>3, <2>4 DEF TypeOK, KernelOK, MainOK, ListsOK, Names
<1> QED
  BY <1>1, Invariance, HandlesInvariance, PTL

-----------------------------------------------------------------------------
(***************************************************************************)
(* The names.  Whoever may have made a name is there to remove it, unless  *)
(* main or a child was stopped before it could.                            *)
(***************************************************************************)
\* A step of a child leaves a name only if somebody still owes its removal.
LEMMA ChildOwes ==
  ASSUME HandlesInv, NamesOwed, NEW c \in Procs, ChildStep(c)
  PROVE  NamesOwed'
<1>0. KernelOK /\ KidsOK /\ cpc = [d \in Procs |-> cpc[d]]
  BY DEF HandlesInv, KidsOK
<1>1. /\ \A d \in Procs \ {c} : cpc'[d] = cpc[d]
      /\ mpc' = mpc
  BY <1>0, ChildShapes DEF control
<1>2. SUFFICES ASSUME NEW s \in Names, name'[s] # NONE PROVE Owed(s)'
  BY DEF NamesOwed
<1>3. ASSUME cpc'[c] \notin {"none", "exited"}, ~(s = "c" /\ cpc'[c] = "unlinkP")
      PROVE  Owed(s)'
  BY <1>3 DEF Owed
<1>4. CASE ChildOpenParent(c) \/ ChildOpenChild(c) \/ TakeBatch(c) \/ Deliver(c)
  <2>1. cpc'[c] \in {"openC", "failed", "wait", "post", "unlinkC"}
    BY <1>0, <1>4
    DEF ChildOpenParent, ChildOpenChild, TakeBatch, Deliver, ChildGoto
  <2> QED
    BY <1>3, <2>1
<1>5. CASE ChildUnlinkChild(c)
  <2>1. cpc'[c] = "unlinkP" /\ name'["c"] = NONE
    BY <1>0, <1>5, UnlinkSem DEF ChildUnlinkChild, ChildGoto, Names
  <2> QED
    BY <1>2, <1>3, <2>1
<1>6. CASE ChildUnlinkParent(c)
  <2>1. /\ cpc[c] = "unlinkP" /\ name'["p"] = NONE /\ name'["c"] = name["c"]
    BY <1>0, <1>6, UnlinkSem DEF ChildUnlinkParent, Names
  <2>2. s = "c" /\ Owed(s)
    BY <1>2, <2>1 DEF Names, NamesOwed
  <2> QED
    BY <1>1, <2>1, <2>2 DEF Owed
<1> QED
  BY <1>4, <1>5, <1>6 DEF ChildStep

\* Nor does a step of main or of the user.
LEMMA MainOwes ==
  ASSUME HandlesInv, NamesOwed, MainStep \/ Kill \/ Restart
  PROVE  NamesOwed'
<1>1. SUFFICES ASSUME NEW s \in Names, name'[s] # NONE PROVE Owed(s)'
  BY DEF NamesOwed
<1>2. CASE mpc' \notin {"exited", "unlinkP"}
  BY <1>2 DEF Owed, Ended
<1>3. CASE MainUnlinkChild
  <2>1. mpc' = "unlinkP" /\ name'["c"] = NONE
    BY <1>3, UnlinkSem DEF MainUnlinkChild, Goto, HandlesInv, Names
  <2> QED
    BY <1>1, <2>1 DEF Owed, Ended
<1>4. CASE MainUnlinkParent
  <2>1. /\ mpc = "unlinkP" /\ name'["p"] = NONE /\ name'["c"] = name["c"]
        /\ UNCHANGED cpc
    BY <1>4, UnlinkSem DEF MainUnlinkParent, HandlesInv, Names, kids
  <2>2. s = "c" /\ Owed(s)
    BY <1>1, <2>1 DEF Names, NamesOwed
  <2> QED
    BY <2>1, <2>2 DEF Owed
<1>5. CASE mpc' \in {"exited", "unlinkP"}
  <2>1. MainUnlinkChild \/ MainUnlinkParent
    BY <1>5 DEF MainStep, Kill, Restart, MainOpenParent, MainOpenChild, Import,
                Fork, Merge, PostChild, Poll, Write, Goto
  <2> QED
    BY <1>3, <1>4, <2>1
<1> QED
  BY <1>2, <1>5

\* When all are gone, and nobody was stopped, nothing is left in the kernel.
THEOREM NamesAreRemoved == Spec => []LeavesNoNames
<1>1. Init => NamesOwed
  BY DEF Init, NamesOwed, Names
<1>2. HandlesInv /\ NamesOwed /\ [Next]_vars => NamesOwed'
  <2> SUFFICES ASSUME HandlesInv, NamesOwed, [Next]_vars PROVE NamesOwed'
    OBVIOUS
  <2>1. CASE UNCHANGED vars
    BY <2>1 DEF vars, kernel, control, kids, NamesOwed, Owed
  <2> QED
    BY <2>1, ChildOwes, MainOwes DEF Next
<1>3. HandlesInv /\ NamesOwed => LeavesNoNames
  <2> SUFFICES ASSUME HandlesInv, NamesOwed, Gone, mpc = "exited"
               PROVE  name = [s \in Names |-> NONE]
    BY DEF LeavesNoNames, Names
  <2>1. \A s \in Names : name[s] = NONE
    BY DEF NamesOwed, Owed, Gone, Ended
  <2>2. name \in [Names -> 0 .. Len(sem)]
    BY DEF HandlesInv, KernelOK
  <2> QED
    BY <2>1, <2>2
<1> QED
  BY <1>1, <1>2, <1>3, HandlesInvariance, PTL DEF Spec

-----------------------------------------------------------------------------
(***************************************************************************)
(* The tokens.  A step moves one between a semaphore and a process, loses  *)
(* it, or makes those of a new "c".                                        *)
(***************************************************************************)
Values == [i \in 1 .. Len(sem) |-> sem[i].val]
Posted == Sum(Values, 1 .. Len(sem))

\* Tokens main has in hand.
InMain == IF mpc = "post" THEN 1 ELSE 0

\* The sum NoTokenFromNothing speaks of.
LEMMA ValuesSum ==
  ASSUME NEW S, IsFiniteSet(S), NEW f, \A i \in S : f[i] = sem[i].val
  PROVE  MapThenSumSet(LAMBDA i : sem[i].val, S) = Sum(f, S)
<1>1. PICK h : Adds(h, f, S) /\ Sum(f, S) = h[S]
  BY SumAdds
<1>2. \A g : Adds(g, f, S) <=>
        g = [s \in SUBSET S |-> IF s = {} THEN 0 ELSE
               sem[CHOOSE i \in s : TRUE].val + g[s \ {CHOOSE i \in s : TRUE}]]
  <2>1. \A s \in SUBSET S : s # {} => f[OneOf(s)] = sem[CHOOSE i \in s : TRUE].val
    BY DEF OneOf
  <2> QED
    BY <2>1 DEF Adds, OneOf
<1>3. \E g : /\ g = [s \in SUBSET S |-> IF s = {} THEN 0 ELSE
               sem[CHOOSE i \in s : TRUE].val + g[s \ {CHOOSE i \in s : TRUE}]]
             /\ MapThenSumSet(LAMBDA i : sem[i].val, S) = g[S]
  <2> DEFINE Fix(g) == g = [s \in SUBSET S |-> IF s = {} THEN 0 ELSE
                              sem[CHOOSE i \in s : TRUE].val
                                + g[s \ {CHOOSE i \in s : TRUE}]]
             it == CHOOSE g : Fix(g)
  <2>1. MapThenSumSet(LAMBDA i : sem[i].val, S) = it[S]
    BY DEF MapThenSumSet, MapThenFoldSet
  <2>2. Fix(h)
    BY <1>1, <1>2
  <2>3. Fix(it)
    <3> HIDE DEF Fix
    <3> QED
      BY <2>2
  <2> QED
    BY <2>1, <2>3
<1>4. PICK g : Adds(g, f, S) /\ MapThenSumSet(LAMBDA i : sem[i].val, S) = g[S]
  BY <1>2, <1>3
<1>5. h[S] = g[S]
  BY <1>1, <1>4, AddsAgree
<1> QED
  BY <1>1, <1>4, <1>5

LEMMA PostedIs ==
  ASSUME KernelOK
  PROVE  /\ Posted = MapThenSumSet(LAMBDA i : sem[i].val, 1 .. Len(sem))
         /\ Posted \in Int
         /\ \A i \in 1 .. Len(sem) : Values[i] = sem[i].val /\ Values[i] \in Int
         /\ IsFiniteSet(1 .. Len(sem))
<1>1. Len(sem) \in Int /\ 1 \in Int
  BY SemFacts
<1>2. IsFiniteSet(1 .. Len(sem))
  BY <1>1, FS_Interval
<1>3. \A i \in 1 .. Len(sem) : Values[i] = sem[i].val /\ Values[i] \in Int
  BY SemFacts DEF Values
<1> QED
  BY <1>2, <1>3, SumInt, ValuesSum DEF Posted

\* There are finitely many processes and semaphores.
LEMMA Finite ==
  ASSUME KernelOK
  PROVE  /\ IsFiniteSet(Procs) /\ IsFiniteSet(InFlight) /\ IsFiniteSet(CMade)
         /\ Cardinality(InFlight) \in Nat /\ Cardinality(CMade) \in Nat
         /\ IsFiniteSet(1 .. Len(sem))
<1>1. IsFiniteSet(1 .. MaxRuns) /\ IsFiniteSet(Children)
  BY FS_Interval, CountsAssumption DEF Children
<1>2. IsFiniteSet(Procs)
  BY <1>1, FS_Product DEF Procs
<1>3. IsFiniteSet(1 .. Len(sem))
  BY PostedIs
<1> QED
  BY <1>2, <1>3, FS_Subset, FS_CardinalityType DEF InFlight, CMade

\* What the semaphores hold in all changes with one of them.
LEMMA PostedChanges ==
  ASSUME KernelOK, KernelOK', Grows, Len(sem') = Len(sem),
         NEW id \in 1 .. Len(sem), NEW d \in Int,
         \A i \in 1 .. Len(sem) :
           sem'[i].val = IF i = id THEN sem[i].val + d ELSE sem[i].val
  PROVE  Posted' = Posted + d /\ CMade' = CMade
<1>1. \A i \in 1 .. Len(sem) : Values[i] \in Int /\ Values'[i] \in Int
  BY SemFacts DEF Values
<1>2. \A i \in (1 .. Len(sem)) \ {id} : Values'[i] = Values[i]
  BY DEF Values
<1>3. Values'[id] = Values[id] + d
  BY DEF Values
<1>4. IsFiniteSet(1 .. Len(sem))
  BY Finite
<1>5. Sum(Values', 1 .. Len(sem)) =
        Sum(Values, 1 .. Len(sem)) + Values'[id] - Values[id]
  <2>1. PICK f, g, S, e : /\ f = Values /\ g = Values'
                          /\ S = 1 .. Len(sem) /\ e = id
    OBVIOUS
  <2>2. Sum(g, S) = Sum(f, S) + g[e] - f[e]
    <3>1. \A i \in S : f[i] \in Int /\ g[i] \in Int
      BY <1>1, <2>1
    <3>2. \A i \in S \ {e} : g[i] = f[i]
      BY <1>2, <2>1
    <3>3. e \in S /\ IsFiniteSet(S)
      BY <1>4, <2>1
    <3> QED
      BY <3>1, <3>2, <3>3, SumChange
  <2> QED
    BY <2>1, <2>2
<1>6. Posted' = Sum(Values', 1 .. Len(sem))
  BY DEF Posted
<1>7. Posted \in Int /\ Values[id] \in Int
  BY <1>1, PostedIs
<1>8. Posted' = Posted + d
  BY <1>3, <1>5, <1>6, <1>7 DEF Posted
<1>9. CMade' = CMade
  BY DEF CMade, Grows
<1> QED
  BY <1>8, <1>9

\* A new semaphore.
LEMMA PostedGrows ==
  ASSUME KernelOK, KernelOK', Grows, NEW s \in Names, NEW v \in Nat,
         Len(sem') = Len(sem) + 1,
         sem'[Len(sem) + 1] = [of |-> s, val |-> v],
         \A i \in 1 .. Len(sem) : sem'[i] = sem[i]
  PROVE  /\ Posted' = Posted + v
         /\ s = "p" => Cardinality(CMade') = Cardinality(CMade)
         /\ s = "c" => Cardinality(CMade') = Cardinality(CMade) + 1
<1> DEFINE m == Len(sem) + 1
<1>1. Len(sem) \in Nat /\ 1 .. m = (1 .. Len(sem)) \cup {m} /\ m \notin 1 .. Len(sem)
      /\ (1 .. m) \ {m} = 1 .. Len(sem) /\ m \in 1 .. m
  BY SemFacts
<1>2. IsFiniteSet(1 .. m) /\ IsFiniteSet(1 .. Len(sem))
  BY <1>1, FS_Interval
<1>3. \A i \in 1 .. m : Values'[i] \in Int
  BY SemFacts DEF Values
<1>4. Values'[m] = v
  BY <1>1 DEF Values
<1>5. Sum(Values', 1 .. m) = Values'[m] + Sum(Values', (1 .. m) \ {m})
  BY <1>1, <1>2, <1>3, SumRemove
<1>6. Sum(Values', 1 .. Len(sem)) = Sum(Values, 1 .. Len(sem))
  <2>1. \A i \in 1 .. Len(sem) : Values'[i] = Values[i]
    BY <1>1 DEF Values
  <2> QED
    BY <1>2, <2>1, SumSame
<1>7. Posted' = Sum(Values', 1 .. m)
  BY DEF Posted
<1>8. Posted' = Posted + v
  <2>1. Posted \in Int /\ Posted = Sum(Values, 1 .. Len(sem))
    BY PostedIs DEF Posted
  <2> QED
    <3>1. Posted' = Values'[m] + Sum(Values', 1 .. Len(sem))
      BY <1>1, <1>5, <1>7
    <3> QED
      BY <1>4, <1>6, <2>1, <3>1
<1>9. CMade' = IF s = "c" THEN CMade \cup {m} ELSE CMade
  BY <1>1 DEF CMade, Names
<1>10. m \notin CMade
  BY <1>1 DEF CMade
<1> QED
  BY <1>8, <1>9, <1>10, Finite, FS_AddElement

\* What the semaphores hold beyond the tokens they were made with.
Surplus == Posted - Tokens * Cardinality(CMade)

\* There is no surplus, whoever has the tokens.
TokenInv == Surplus + Cardinality(InFlight) + InMain <= 0

LEMMA SurplusMoves ==
  ASSUME KernelOK
  PROVE  /\ Surplus \in Int
         /\ UNCHANGED sem => Surplus' = Surplus
         /\ \A id \in 1 .. Len(sem) : Wait(id) => Surplus' = Surplus - 1
         /\ \A id \in 1 .. Len(sem) : Post(id) => Surplus' = Surplus + 1
         /\ \A id \in Ids : Open("p", 0, id) \/ Open("c", Tokens, id)
                              => Surplus' = Surplus
<1>0. /\ Posted \in Int /\ Cardinality(CMade) \in Nat /\ Tokens \in Nat
      /\ Tokens * Cardinality(CMade) \in Int
  BY PostedIs, Finite, CountsAssumption
<1>1. Surplus \in Int
  BY <1>0 DEF Surplus
<1>2. ASSUME UNCHANGED sem PROVE Surplus' = Surplus
  BY <1>2 DEF Surplus, Posted, Values, CMade
<1>3. ASSUME NEW id \in 1 .. Len(sem), Wait(id) PROVE Surplus' = Surplus - 1
  <2>1. /\ KernelOK' /\ Grows /\ Len(sem') = Len(sem)
        /\ \A i \in 1 .. Len(sem) :
             sem'[i].val = IF i = id THEN sem[i].val - 1 ELSE sem[i].val
    BY <1>3, WaitSem
  <2>2. PICK d \in Int : d = -1
    OBVIOUS
  <2>3. \A i \in 1 .. Len(sem) :
          sem'[i].val = IF i = id THEN sem[i].val + d ELSE sem[i].val
    BY <2>1, <2>2, SemFacts
  <2>4. Posted' = Posted + d /\ CMade' = CMade
    BY <2>1, <2>3, PostedChanges
  <2> QED
    BY <1>0, <2>2, <2>4 DEF Surplus
<1>4. ASSUME NEW id \in 1 .. Len(sem), Post(id) PROVE Surplus' = Surplus + 1
  <2>1. /\ KernelOK' /\ Grows /\ Len(sem') = Len(sem)
        /\ \A i \in 1 .. Len(sem) :
             sem'[i].val = IF i = id THEN sem[i].val + 1 ELSE sem[i].val
    BY <1>4, PostSem
  <2>2. Posted' = Posted + 1 /\ CMade' = CMade
    BY <2>1, PostedChanges
  <2> QED
    BY <1>0, <2>2 DEF Surplus
<1>5. ASSUME NEW id \in Ids, NEW s \in Names, NEW v \in Nat, Open(s, v, id),
             s = "p" => v = 0, s = "c" => v = Tokens
      PROVE  Surplus' = Surplus
  <2>1. /\ KernelOK' /\ Grows /\ \A i \in 1 .. Len(sem) : sem'[i] = sem[i]
        /\ \/ UNCHANGED kernel
           \/ /\ Len(sem') = Len(sem) + 1
              /\ sem'[Len(sem) + 1] = [of |-> s, val |-> v]
    BY <1>5, OpenSem
  <2>2. CASE UNCHANGED kernel
    BY <1>2, <2>2 DEF kernel
  <2>3. CASE /\ Len(sem') = Len(sem) + 1
             /\ sem'[Len(sem) + 1] = [of |-> s, val |-> v]
    <3>1. /\ Posted' = Posted + v
          /\ s = "p" => Cardinality(CMade') = Cardinality(CMade)
          /\ s = "c" => Cardinality(CMade') = Cardinality(CMade) + 1
      BY <2>1, <2>3, PostedGrows
    <3>2. Tokens * (Cardinality(CMade) + 1) = Tokens * Cardinality(CMade) + Tokens
      BY <1>0
    <3>3. CASE s = "p"
      BY <1>0, <1>5, <3>1, <3>3 DEF Surplus
    <3>4. CASE s = "c"
      BY <1>0, <1>5, <3>1, <3>2, <3>4 DEF Surplus
    <3> QED
      BY <3>3, <3>4 DEF Names
  <2> QED
    BY <2>1, <2>2, <2>3
<1>6. "p" \in Names /\ "c" \in Names /\ 0 \in Nat /\ "p" # "c"
  BY DEF Names
<1> QED
  BY <1>0, <1>1, <1>2, <1>3, <1>4, <1>5, <1>6

\* Who has a token in hand after a step of a child.
LEMMA FlightOfChild ==
  ASSUME HandlesInv, NEW c \in Procs, ChildStep(c)
  PROVE  /\ TakeBatch(c) => Cardinality(InFlight') = Cardinality(InFlight) + 1
         /\ Deliver(c) => Cardinality(InFlight') = Cardinality(InFlight) - 1
         /\ ~TakeBatch(c) /\ ~Deliver(c) => InFlight' = InFlight
<1>1. KernelOK /\ KidsOK /\ cpc = [d \in Procs |-> cpc[d]]
  BY DEF HandlesInv, KidsOK
<1>2. \A d \in Procs \ {c} : cpc'[d] = cpc[d]
  BY <1>1, ChildShapes
<1>3. ASSUME TakeBatch(c) PROVE Cardinality(InFlight') = Cardinality(InFlight) + 1
  <2>1. cpc[c] = "wait" /\ cpc'[c] = "post"
    BY <1>1, <1>3 DEF TakeBatch, ChildGoto
  <2>2. InFlight' = InFlight \cup {c} /\ c \notin InFlight
    BY <1>2, <2>1 DEF InFlight
  <2> QED
    BY <1>1, <2>2, Finite, FS_AddElement
<1>4. ASSUME Deliver(c) PROVE Cardinality(InFlight') = Cardinality(InFlight) - 1
  <2>1. cpc[c] = "post" /\ cpc'[c] # "post"
    BY <1>1, <1>4 DEF Deliver, ChildGoto
  <2>2. InFlight' = InFlight \ {c} /\ c \in InFlight
    BY <1>2, <2>1 DEF InFlight
  <2> QED
    BY <1>1, <2>2, Finite, FS_RemoveElement
<1>5. ASSUME ~TakeBatch(c), ~Deliver(c) PROVE InFlight' = InFlight
  <2>1. cpc[c] # "post" /\ cpc'[c] # "post"
    BY <1>1, <1>5 DEF ChildStep, ChildOpenParent, ChildOpenChild,
       ChildUnlinkChild, ChildUnlinkParent, ChildGoto
  <2> QED
    BY <1>2, <2>1 DEF InFlight
<1> QED
  BY <1>3, <1>4, <1>5

\* A child moves a token, or none.
LEMMA ChildTokens ==
  ASSUME HandlesInv, NEW c \in Procs, ChildStep(c)
  PROVE  Surplus' + Cardinality(InFlight') = Surplus + Cardinality(InFlight)
<1>1. KernelOK /\ KidOK(c) /\ Surplus \in Int /\ Cardinality(InFlight) \in Nat
  BY SurplusMoves, Finite DEF HandlesInv, KidsOK
<1>2. CASE TakeBatch(c)
  <2>1. PICK id \in 1 .. Len(sem) : id = cchild[c] /\ Wait(id)
    BY <1>1, <1>2, SemFacts DEF TakeBatch, KidOK, NONE
  <2> QED
    BY <1>1, <1>2, <2>1, SurplusMoves, FlightOfChild
<1>3. CASE Deliver(c)
  <2>1. PICK id \in 1 .. Len(sem) : id = cparent[c] /\ Post(id)
    BY <1>1, <1>3, SemFacts DEF Deliver, KidOK, NONE
  <2> QED
    BY <1>1, <1>3, <2>1, SurplusMoves, FlightOfChild
<1>4. CASE ~TakeBatch(c) /\ ~Deliver(c)
  <2>1. Surplus' = Surplus
    BY <1>1, <1>4, SurplusMoves
    DEF ChildStep, ChildOpenParent, ChildOpenChild, ChildUnlinkChild,
        ChildUnlinkParent, Unlink, kernel
  <2> QED
    BY <1>1, <1>4, <2>1, FlightOfChild
<1> QED
  BY <1>2, <1>3, <1>4

\* So does main.
LEMMA MainTokens ==
  ASSUME HandlesInv, MainStep
  PROVE  Surplus' + Cardinality(InFlight') + InMain'
           = Surplus + Cardinality(InFlight) + InMain
<1>1. KernelOK /\ MainOK /\ KidsOK /\ Surplus \in Int /\ Cardinality(InFlight) \in Nat
  BY SurplusMoves, Finite DEF HandlesInv
<1>2. InFlight' = InFlight
  <2>1. CASE Fork
    <3>1. <<run, n>> \in Procs /\ cpc[<<run, n>>] = "none"
      BY <1>1, <2>1, CountsAssumption
      DEF Fork, MainOK, Procs, Children, HandlesInv, NotForked
    <3>2. \A c \in Procs : cpc'[c] = "post" <=> cpc[c] = "post"
      BY <1>1, <2>1, <3>1 DEF Fork, KidsOK
    <3> QED
      BY <3>2 DEF InFlight
  <2>2. CASE UNCHANGED kids
    BY <2>2 DEF InFlight, kids
  <2> QED
    BY <2>1, <2>2 DEF MainStep, MainOpenParent, MainOpenChild, Import, Merge,
       PostChild, Poll, Write, MainUnlinkChild, MainUnlinkParent
<1>3. CASE Merge \/ PostChild
  <2>1. mpc \in {"wait", "post"}
    BY <1>3 DEF Merge, PostChild
  <2>2. parent \in 1 .. Len(sem) /\ child \in 1 .. Len(sem)
    BY <1>1, <2>1, SemFacts DEF MainOK, Ended, NONE
  <2>3. PICK a \in 1 .. Len(sem), b \in 1 .. Len(sem) : a = parent /\ b = child
    BY <2>2
  <2>4. CASE Merge
    <3>1. Wait(a) /\ InMain = 0 /\ InMain' = 1
      BY <2>3, <2>4 DEF Merge, InMain, Goto
    <3> QED
      BY <1>1, <1>2, <3>1, SurplusMoves
  <2>5. CASE PostChild
    <3>1. Post(b) /\ InMain = 1 /\ InMain' = 0
      BY <2>3, <2>5 DEF PostChild, InMain, Goto
    <3> QED
      BY <1>1, <1>2, <3>1, SurplusMoves
  <2> QED
    BY <1>3, <2>4, <2>5
<1>4. CASE ~Merge /\ ~PostChild
  <2>1. Surplus' = Surplus
    BY <1>1, <1>4, SurplusMoves
    DEF MainStep, MainOpenParent, MainOpenChild, Import, Fork, Poll, Write,
        MainUnlinkChild, MainUnlinkParent, Unlink, kernel
  <2>2. InMain = 0 /\ InMain' = 0
    BY <1>4
    DEF MainStep, MainOpenParent, MainOpenChild, Import, Fork, Poll, Write,
        MainUnlinkChild, MainUnlinkParent, Goto, InMain
  <2> QED
    BY <1>1, <1>2, <2>1, <2>2
<1> QED
  BY <1>3, <1>4

\* The user can only lose some.
LEMMA UserTokens ==
  ASSUME HandlesInv, Kill \/ Restart
  PROVE  /\ Surplus' = Surplus /\ InMain' = 0
         /\ Cardinality(InFlight') <= Cardinality(InFlight)
         /\ Cardinality(InFlight') \in Nat
<1>1. KernelOK
  BY DEF HandlesInv
<1>2. Surplus' = Surplus
  BY <1>1, SurplusMoves DEF Kill, Restart, kernel
<1>3. InMain' = 0
  BY DEF Kill, Restart, InMain, Goto
<1>4. InFlight' \subseteq InFlight
  BY DEF Kill, Restart, InFlight, kids
<1> QED
  BY <1>1, <1>2, <1>3, <1>4, Finite, FS_Subset, FS_CardinalityType

\* No sequence of runs, kills and failures makes a token.
THEOREM TokensAreNotMade == Spec => []NoTokenFromNothing
<1>1. Init => TokenInv
  <2> SUFFICES ASSUME Init PROVE TokenInv
    OBVIOUS
  <2>1. InFlight = {} /\ CMade = {} /\ InMain = 0
    BY DEF Init, InFlight, CMade, InMain
  <2>2. Posted = 0
    <3>1. 1 .. Len(sem) = {}
      BY DEF Init
    <3> QED
      BY <3>1, SumEmpty DEF Posted
  <2>3. Cardinality(InFlight) = 0 /\ Tokens * Cardinality(CMade) = 0
    BY <2>1, FS_EmptySet, CountsAssumption
  <2> QED
    BY <2>1, <2>2, <2>3 DEF TokenInv, Surplus
<1>2. HandlesInv /\ TokenInv /\ [Next]_vars => TokenInv'
  <2> SUFFICES ASSUME HandlesInv, TokenInv, [Next]_vars PROVE TokenInv'
    OBVIOUS
  <2>1. KernelOK /\ Surplus \in Int /\ Cardinality(InFlight) \in Nat
        /\ InMain \in {0, 1}
    BY SurplusMoves, Finite DEF InMain, HandlesInv
  <2>2. ASSUME NEW c \in Procs, ChildStep(c) PROVE TokenInv'
    <3>1. InMain' = InMain
      BY <2>2 DEF ChildStep, control, InMain
    <3> QED
      BY <2>2, <3>1, ChildTokens DEF TokenInv
  <2>3. CASE MainStep
    BY <2>3, MainTokens DEF TokenInv
  <2>4. CASE Kill \/ Restart
    BY <2>1, <2>4, UserTokens DEF TokenInv
  <2>5. CASE UNCHANGED vars
    <3>1. Surplus' = Surplus /\ InFlight' = InFlight /\ InMain' = InMain
      BY <2>1, <2>5, SurplusMoves DEF vars, kernel, control, kids, InFlight, InMain
    <3> QED
      BY <3>1 DEF TokenInv
  <2> QED
    BY <2>2, <2>3, <2>4, <2>5 DEF Next
<1>3. HandlesInv /\ TokenInv => NoTokenFromNothing
  <2> SUFFICES ASSUME KernelOK, TokenInv PROVE NoTokenFromNothing
    BY DEF HandlesInv
  <2>1. /\ Posted \in Int /\ Cardinality(CMade) \in Nat /\ Tokens \in Nat
        /\ Tokens * Cardinality(CMade) \in Int /\ Cardinality(InFlight) \in Nat
        /\ InMain \in {0, 1}
    BY PostedIs, Finite, CountsAssumption DEF InMain
  <2>2. Posted + Cardinality(InFlight) + InMain <= Tokens * Cardinality(CMade)
    BY <2>1 DEF TokenInv, Surplus
  <2>3. Posted = MapThenSumSet(LAMBDA i : sem[i].val, 1 .. Len(sem))
    BY PostedIs
  <2> QED
    BY <2>2, <2>3 DEF NoTokenFromNothing, InMain
<1> QED
  BY <1>1, <1>2, <1>3, HandlesInvariance, PTL DEF Spec

-----------------------------------------------------------------------------
(***************************************************************************)
(* The pace of a run.  Of main's own semaphores, "p" holds what has been   *)
(* delivered and not merged, and "c" what may still be taken, as long as   *)
(* no child of an earlier run puts its hands on them.                      *)
(***************************************************************************)
MySizes   == [k \in Children |-> csize[<<run, k>>]]
MyTaken   == Sum(MySizes, Children)
Handed    == MyTaken - Chunk * Cardinality(Holding)

OwnParent == parent > before
               /\ \A c \in Procs : c[1] < run => cparent[c] # parent
OwnChild  == child > before
               /\ \A c \in Procs : c[1] < run => cchild[c] # child
Together  == \A c \in Children : cchild[<<run, c>>] \in {NONE, child}

MergedWasDelivered ==
  OwnParent /\ mpc # "killed" =>
    sorted_size + Chunk * sem[parent].val <= Handed

TakenWasAllowed ==
  OwnChild /\ Together /\ mpc # "killed" =>
    MyTaken + Chunk * sem[child].val + Chunk * InMain
      <= sorted_size + Chunk * Tokens

PaceInv == MergedWasDelivered /\ TakenWasAllowed

\* What the children of this run have taken, and what they hold.
LEMMA TakenIs ==
  ASSUME HandlesInv
  PROVE  /\ MyTaken \in Int /\ Handed \in Int /\ Cardinality(Holding) \in Nat
         /\ IsFiniteSet(Children) /\ IsFiniteSet(Holding) /\ Chunk \in Nat
         /\ \A k \in Children : /\ <<run, k>> \in Procs
                                /\ MySizes[k] = csize[<<run, k>>]
                                /\ MySizes[k] \in Int
<1>1. IsFiniteSet(Children) /\ Chunk \in Nat
  BY FS_Interval, CountsAssumption DEF Children
<1>2. \A k \in Children : <<run, k>> \in Procs
  BY DEF HandlesInv, MainOK, Procs
<1>3. \A c \in Procs : csize[c] \in Int
  <2> SUFFICES ASSUME NEW c \in Procs PROVE csize[c] \in Int
    OBVIOUS
  <2>1. PICK b \in 0 .. Batches : csize[c] = b * Chunk
    BY DEF HandlesInv, KidsOK, KidOK
  <2> QED
    BY <1>1, <2>1, CountsAssumption
<1>4. \A k \in Children : MySizes[k] = csize[<<run, k>>] /\ MySizes[k] \in Int
  BY <1>2, <1>3 DEF MySizes
<1>5. MyTaken \in Int
  BY <1>1, <1>4, SumInt DEF MyTaken
<1>6. IsFiniteSet(Holding) /\ Cardinality(Holding) \in Nat
  BY <1>1, FS_Subset, FS_CardinalityType DEF Holding
<1> QED
  BY <1>1, <1>2, <1>4, <1>5, <1>6 DEF Handed

\* The sum KeepStep speaks of.
LEMMA TakenSum ==
  ASSUME HandlesInv
  PROVE  Taken = MyTaken
<1>1. IsFiniteSet(Children) /\ \A k \in Children : MySizes[k] = csize[<<run, k>>]
  BY TakenIs
<1>2. PICK S, f : S = Children /\ f = MySizes
  OBVIOUS
<1>3. PICK h : Adds(h, f, S) /\ Sum(f, S) = h[S]
  BY <1>1, <1>2, SumAdds
<1> DEFINE Fix(g) == g = [s \in SUBSET S |-> IF s = {} THEN 0 ELSE
                            csize[<<run, CHOOSE c \in s : TRUE>>]
                              + g[s \ {CHOOSE c \in s : TRUE}]]
           it == CHOOSE g : Fix(g)
<1>4. \A g : Adds(g, f, S) <=> Fix(g)
  <2>1. \A s \in SUBSET S : s # {} =>
          f[OneOf(s)] = csize[<<run, CHOOSE c \in s : TRUE>>]
    BY <1>1, <1>2 DEF OneOf
  <2> QED
    BY <2>1, ZenonT(40) DEF Adds, OneOf
<1>5. MapThenSumSet(LAMBDA c : csize[<<run, c>>], S) = it[S]
  BY DEF MapThenSumSet, MapThenFoldSet
<1>6. Adds(it, f, S)
  <2> HIDE DEF Fix
  <2> QED
    BY <1>3, <1>4
<1>7. it[S] = h[S]
  <2> HIDE DEF it
  <2> QED
    BY <1>1, <1>2, <1>3, <1>6, AddsAgree
<1>8. Taken = it[S]
  BY <1>2, <1>5 DEF Taken
<1> QED
  BY <1>2, <1>3, <1>7, <1>8 DEF MyTaken

\* Before the fork loop nothing is taken.
LEMMA NothingTaken ==
  ASSUME HandlesInv, mpc \in {"openP", "openC", "import"}
  PROVE  MyTaken = 0 /\ Handed = 0
<1>1. \A k \in Children : /\ <<run, k>> \in Procs
                          /\ cpc[<<run, k>>] = "none" /\ csize[<<run, k>>] = 0
  BY TakenIs DEF HandlesInv, NotForked, KidsOK, KidOK
<1>2. Holding = {}
  BY <1>1 DEF Holding
<1>3. \A k \in Children : MySizes[k] = 0
  BY <1>1 DEF MySizes
<1>4. MyTaken = 0 * Cardinality(Children)
  BY <1>3, TakenIs, SumConstant DEF MyTaken
<1>5. Cardinality(Children) \in Nat
  BY TakenIs, FS_CardinalityType
<1> QED
  BY <1>2, <1>4, <1>5, FS_EmptySet, TakenIs DEF Handed

\* What a child of this run takes and hands over.
LEMMA ChildTakes ==
  ASSUME HandlesInv, NEW c \in Procs, ChildStep(c)
  PROVE  /\ c[1] = run /\ TakeBatch(c) =>
              MyTaken' = MyTaken + Chunk /\ Handed' = Handed
         /\ c[1] = run /\ Deliver(c) =>
              MyTaken' = MyTaken /\ Handed' = Handed + Chunk
         /\ c[1] # run \/ (~TakeBatch(c) /\ ~Deliver(c)) =>
              MyTaken' = MyTaken /\ Handed' = Handed
         /\ c[1] <= run
<1>1. /\ cpc = [d \in Procs |-> cpc[d]] /\ csize = [d \in Procs |-> csize[d]]
      /\ run \in Nat /\ cpc[c] # "none" /\ run' = run
      /\ \A d \in Procs \ {c} : cpc'[d] = cpc[d] /\ csize'[d] = csize[d]
  BY ChildShapes, ChildKernel DEF HandlesInv, KidsOK, MainOK
<1>2. c[1] \in Nat /\ c[1] <= run
  BY <1>1, CountsAssumption DEF HandlesInv, NotForked, Procs
<1>3. ASSUME c[1] # run
      PROVE  MySizes' = MySizes /\ Holding' = Holding
  <2>1. \A k \in Children : <<run, k>> \in Procs \ {c}
    BY <1>3, TakenIs
  <2> QED
    BY <1>1, <2>1 DEF MySizes, Holding
<1>4. ASSUME c[1] = run
      PROVE  /\ TakeBatch(c) => MyTaken' = MyTaken + Chunk /\ Handed' = Handed
             /\ Deliver(c) => MyTaken' = MyTaken /\ Handed' = Handed + Chunk
             /\ ~TakeBatch(c) /\ ~Deliver(c) =>
                  MySizes' = MySizes /\ Holding' = Holding
  <2>1. PICK k \in Children : c = <<run, k>>
    BY <1>4 DEF Procs
  <2>2. \A l \in Children \ {k} : <<run, l>> \in Procs \ {c}
    BY <2>1, TakenIs
  <2>3. ASSUME csize'[c] = csize[c] PROVE MySizes' = MySizes
    BY <1>1, <2>1, <2>2, <2>3 DEF MySizes
  <2>4. \A l \in Children \ {k} : l \in Holding' <=> l \in Holding
    BY <1>1, <2>2 DEF Holding
  <2>5. CASE TakeBatch(c)
    <3>1. cpc[c] = "wait" /\ cpc'[c] = "post" /\ csize'[c] = csize[c] + Chunk
      BY <1>1, <2>5 DEF TakeBatch, ChildGoto
    <3>2. Holding' = Holding \cup {k} /\ k \notin Holding
      BY <1>1, <2>1, <2>4, <3>1 DEF Holding
    <3>3. Cardinality(Holding') = Cardinality(Holding) + 1
      BY <3>2, TakenIs, FS_AddElement
    <3>4. PICK f, g : f = MySizes /\ g = MySizes'
      OBVIOUS
    <3>5. /\ \A l \in Children : f[l] \in Int /\ g[l] \in Int
          /\ \A l \in Children \ {k} : g[l] = f[l]
          /\ g[k] = f[k] + Chunk
      <4>1. \A l \in Children : g[l] = IF l = k THEN f[l] + Chunk ELSE f[l]
        BY <1>1, <2>1, <2>2, <3>1, <3>4 DEF MySizes
      <4>2. Chunk \in Int /\ \A l \in Children : f[l] \in Int
        <5>1. Chunk \in Nat /\ \A l \in Children : MySizes[l] \in Int
          BY TakenIs
        <5> QED
          BY <3>4, <5>1
      <4>3. \A l \in Children : g[l] \in Int
        BY <4>1, <4>2
      <4> QED
        BY <4>1, <4>2, <4>3
    <3>6. Sum(g, Children) = Sum(f, Children) + g[k] - f[k]
      BY <3>5, TakenIs, SumChange
    <3>7. MyTaken = Sum(f, Children) /\ MyTaken' = Sum(g, Children)
      BY <3>4 DEF MyTaken
    <3>8. MyTaken' = MyTaken + Chunk
      BY <3>5, <3>6, <3>7, TakenIs
    <3>9. Chunk * (Cardinality(Holding) + 1) = Chunk * Cardinality(Holding) + Chunk
      BY TakenIs
    <3>10. Handed' = Handed
      BY <3>3, <3>8, <3>9, TakenIs DEF Handed
    <3> QED
      BY <2>5, <3>1, <3>8, <3>10 DEF Deliver
  <2>6. CASE Deliver(c)
    <3>1. cpc[c] = "post" /\ cpc'[c] # "post" /\ csize'[c] = csize[c]
      BY <1>1, <2>6 DEF Deliver, ChildGoto
    <3>2. Holding' = Holding \ {k} /\ k \in Holding
      BY <1>1, <2>1, <2>4, <3>1 DEF Holding
    <3>3. Cardinality(Holding') = Cardinality(Holding) - 1
      BY <3>2, TakenIs, FS_RemoveElement
    <3>4. MyTaken' = MyTaken
      BY <2>3, <3>1 DEF MyTaken
    <3>5. Chunk * (Cardinality(Holding) - 1) = Chunk * Cardinality(Holding) - Chunk
      BY TakenIs
    <3>6. Handed' = Handed + Chunk
      BY <3>3, <3>4, <3>5, TakenIs DEF Handed
    <3> QED
      BY <2>6, <3>1, <3>4, <3>6 DEF TakeBatch
  <2>7. CASE ~TakeBatch(c) /\ ~Deliver(c)
    <3>1. cpc[c] # "post" /\ cpc'[c] # "post" /\ csize'[c] = csize[c]
      BY <1>1, <2>7 DEF ChildStep, ChildOpenParent, ChildOpenChild,
         ChildUnlinkChild, ChildUnlinkParent, ChildGoto
    <3>2. Holding' = Holding
      BY <1>1, <2>1, <2>4, <3>1 DEF Holding
    <3> QED
      BY <2>3, <2>7, <3>1, <3>2
  <2> QED
    BY <2>5, <2>6, <2>7
<1> QED
  BY <1>2, <1>3, <1>4 DEF MyTaken, Handed

\* Only these two steps of a child change what a semaphore holds.
LEMMA ChildKeepsSems ==
  ASSUME KernelOK, NEW c \in Procs, ChildStep(c), ~TakeBatch(c), ~Deliver(c)
  PROVE  \A i \in 1 .. Len(sem) : sem'[i] = sem[i]
<1>1. CASE ChildOpenParent(c)
  <2>1. UNCHANGED kernel \/ \E id \in Ids : Open("p", 0, id)
    BY <1>1 DEF ChildOpenParent
  <2> QED
    BY <2>1, OpenSem DEF kernel, Names
<1>2. CASE ChildOpenChild(c)
  <2>1. UNCHANGED kernel \/ \E id \in Ids : Open("c", Tokens, id)
    BY <1>2 DEF ChildOpenChild
  <2> QED
    BY <2>1, OpenSem, CountsAssumption DEF kernel, Names
<1>3. CASE ChildUnlinkChild(c) \/ ChildUnlinkParent(c)
  BY <1>3 DEF ChildUnlinkChild, ChildUnlinkParent, Unlink
<1> QED
  BY <1>1, <1>2, <1>3 DEF ChildStep

\* A child keeps the pace.
LEMMA ChildPaces ==
  ASSUME HandlesInv, SizeOK, PaceInv, NEW c \in Procs, ChildStep(c)
  PROVE  PaceInv'
<1> USE DEF NONE
<1>1. /\ KernelOK /\ KidsOK /\ KidOK(c) /\ MainOK /\ Len(sem) \in Nat
      /\ before \in Nat /\ Chunk \in Nat /\ Tokens \in Nat
      /\ MyTaken \in Int /\ Handed \in Int
      /\ cparent[c] \in {NONE, cparent'[c]} /\ cchild[c] \in {NONE, cchild'[c]}
      /\ \A d \in Procs \ {c} : cparent'[d] = cparent[d] /\ cchild'[d] = cchild[d]
      /\ UNCHANGED <<run, mpc, n, parent, child, sorted_size, before>>
      /\ c[1] <= run
  BY SemFacts, TakenIs, CountsAssumption, ChildKernel, ChildShapes, ChildTakes
  DEF HandlesInv, KidsOK, MainOK, control, mainMem
<1>2. InMain' = InMain /\ InMain \in Int
  BY <1>1 DEF InMain
<1>3. run \in Nat /\ c[1] \in Nat
  BY <1>1, CountsAssumption DEF MainOK, Procs
<1>4. sorted_size \in Int
  <2>1. PICK r \in 0 .. Rounds : sorted_size = r * Chunk
    BY DEF SizeOK
  <2> QED
    BY <1>1, <2>1, RoundsNat
<1>5. MergedWasDelivered'
  <2> SUFFICES ASSUME OwnParent', mpc # "killed"
               PROVE  sorted_size + Chunk * sem'[parent].val <= Handed'
    BY <1>1 DEF MergedWasDelivered
  <2>1. /\ parent \in 1 .. Len(sem) /\ sem[parent].of = "p"
        /\ parent > before
        /\ c[1] < run => cparent'[c] # parent
        /\ c[1] < run => cparent[c] # parent
    BY <1>1 DEF OwnParent, MainOK
  <2>2. OwnParent
    BY <1>1, <2>1 DEF OwnParent
  <2>3. PICK v \in Nat : v = sem[parent].val
    BY <1>1, <2>1, SemFacts
  <2>4. sorted_size + Chunk * v <= Handed
    BY <2>2, <2>3 DEF PaceInv, MergedWasDelivered
  <2>5. CASE TakeBatch(c)
    <3>1. PICK id \in 1 .. Len(sem) : id = cchild[c] /\ Wait(id)
      BY <1>1, <2>5 DEF TakeBatch, KidOK
    <3>2. id # parent
      BY <1>1, <2>1, <3>1 DEF KidOK
    <3>3. sem'[parent].val = v
      BY <1>1, <2>1, <2>3, <3>1, <3>2, WaitSem
    <3>4. Handed' = Handed
      BY <2>5, ChildTakes
    <3> QED
      BY <2>4, <3>3, <3>4
  <2>6. CASE Deliver(c)
    <3>1. PICK id \in 1 .. Len(sem) : id = cparent[c] /\ Post(id)
      BY <1>1, <2>6 DEF Deliver, KidOK
    <3>2. sem'[parent].val = IF id = parent THEN v + 1 ELSE v
      BY <1>1, <2>1, <2>3, <3>1, PostSem
    <3>3. CASE c[1] = run
      <4>1. Handed' = Handed + Chunk
        BY <2>6, <3>3, ChildTakes
      <4>2. Chunk * (v + 1) = Chunk * v + Chunk /\ Chunk * v \in Int
        BY <1>1, <2>3
      <4> QED
        BY <1>1, <1>4, <2>4, <3>2, <4>1, <4>2
    <3>4. CASE c[1] # run
      <4>1. Handed' = Handed /\ c[1] < run
        BY <1>1, <1>3, <2>6, <3>4, ChildTakes
      <4>2. sem'[parent].val = v
        BY <2>1, <3>1, <3>2, <4>1
      <4> QED
        BY <2>4, <4>1, <4>2
    <3> QED
      BY <3>3, <3>4
  <2>7. CASE ~TakeBatch(c) /\ ~Deliver(c)
    <3>1. Handed' = Handed
      BY <2>7, ChildTakes
    <3>2. sem'[parent] = sem[parent]
      BY <1>1, <2>1, <2>7, ChildKeepsSems
    <3> QED
      BY <2>3, <2>4, <3>1, <3>2
  <2> QED
    BY <2>5, <2>6, <2>7
<1>6. TakenWasAllowed'
  <2> SUFFICES ASSUME OwnChild', Together', mpc # "killed"
               PROVE  MyTaken' + Chunk * sem'[child].val + Chunk * InMain
                        <= sorted_size + Chunk * Tokens
    BY <1>1, <1>2 DEF TakenWasAllowed
  <2>1. /\ child \in 1 .. Len(sem) /\ sem[child].of = "c"
        /\ child > before
        /\ c[1] < run => cchild[c] # child
    BY <1>1 DEF OwnChild, MainOK
  <2>2. OwnChild
    BY <1>1, <2>1 DEF OwnChild
  <2>3. Together
    <3>1. \A k \in Children : <<run, k>> \in Procs
      BY TakenIs
    <3> QED
      BY <1>1, <3>1 DEF Together
  <2>4. PICK v \in Nat : v = sem[child].val
    BY <1>1, <2>1, SemFacts
  <2>5. MyTaken + Chunk * v + Chunk * InMain <= sorted_size + Chunk * Tokens
    BY <2>2, <2>3, <2>4 DEF PaceInv, TakenWasAllowed
  <2>6. Chunk * v \in Int /\ Chunk * InMain \in Int /\ Chunk * Tokens \in Int
    BY <1>1, <1>2, <2>4
  <2>7. CASE TakeBatch(c)
    <3>1. PICK id \in 1 .. Len(sem) : id = cchild[c] /\ Wait(id)
      BY <1>1, <2>7 DEF TakeBatch, KidOK
    <3>2. v > 0 /\ id = child => sem'[child].val = v - 1
      BY <1>1, <2>1, <2>4, <3>1, WaitSem
    <3>3. CASE c[1] = run
      <4>1. id = child
        <5>1. PICK k \in Children : c = <<run, k>>
          BY <3>3 DEF Procs
        <5> QED
          BY <2>3, <3>1, <5>1 DEF Together
      <4>2. MyTaken' = MyTaken + Chunk
        BY <2>7, <3>3, ChildTakes
      <4>3. sem[id].val > 0
        BY <1>1, <3>1, WaitSem
      <4>4. Chunk * (v - 1) = Chunk * v - Chunk
        BY <1>1, <2>4
      <4> QED
        <5>1. sem'[child].val = v - 1
          BY <2>4, <3>2, <4>1, <4>3
        <5>2. MyTaken' + (Chunk * v - Chunk) + Chunk * InMain
                = MyTaken + Chunk * v + Chunk * InMain
          BY <1>1, <2>6, <4>2
        <5> QED
          BY <2>5, <4>4, <5>1, <5>2
    <3>4. CASE c[1] # run
      <4>1. MyTaken' = MyTaken /\ c[1] < run
        BY <1>1, <1>3, <2>7, <3>4, ChildTakes
      <4>2. sem'[child].val = v
        BY <1>1, <2>1, <2>4, <3>1, <4>1, WaitSem
      <4> QED
        BY <2>5, <4>1, <4>2
    <3> QED
      BY <3>3, <3>4
  <2>8. CASE Deliver(c)
    <3>1. PICK id \in 1 .. Len(sem) : id = cparent[c] /\ Post(id)
      BY <1>1, <2>8 DEF Deliver, KidOK
    <3>2. id # child
      BY <1>1, <2>1, <3>1 DEF KidOK
    <3>3. sem'[child].val = v
      BY <1>1, <2>1, <2>4, <3>1, <3>2, PostSem
    <3>4. MyTaken' = MyTaken
      BY <2>8, ChildTakes
    <3> QED
      BY <2>5, <3>3, <3>4
  <2>9. CASE ~TakeBatch(c) /\ ~Deliver(c)
    <3>1. MyTaken' = MyTaken
      BY <2>9, ChildTakes
    <3>2. sem'[child] = sem[child]
      BY <1>1, <2>1, <2>9, ChildKeepsSems
    <3> QED
      BY <2>4, <2>5, <3>1, <3>2
  <2> QED
    BY <2>7, <2>8, <2>9
<1> QED
  BY <1>5, <1>6 DEF PaceInv

\* A child that has opened anything before main forks is of an earlier run.
LEMMA Stranger ==
  ASSUME HandlesInv, mpc \in {"openP", "openC", "import"}, NEW c \in Procs,
         cparent[c] # NONE \/ cchild[c] # NONE
  PROVE  c[1] < run
<1>1. cpc[c] # "none"
  BY DEF HandlesInv, KidsOK, KidOK
<1>2. c[1] \in Nat /\ run \in Nat
  BY CountsAssumption DEF HandlesInv, MainOK, Procs
<1> QED
  BY <1>1, <1>2 DEF HandlesInv, NotForked

\* The sums of a run, when its children stay where they are.
LEMMA KidsStill ==
  ASSUME run' = run, csize' = csize,
         \A k \in Children : cpc'[<<run, k>>] = "post" <=> cpc[<<run, k>>] = "post"
  PROVE  MyTaken' = MyTaken /\ Handed' = Handed
<1>1. MySizes' = MySizes /\ Holding' = Holding
  BY DEF MySizes, Holding
<1> QED
  BY <1>1 DEF MyTaken, Handed

\* The steps of main that use no semaphore keep the pace.
LEMMA QuietPaces ==
  ASSUME HandlesInv, PaceInv, UNCHANGED <<run, before, sorted_size, csize>>,
         UNCHANGED <<parent, child, cparent, cchild>>, sem' = sem,
         \A k \in Children : cpc'[<<run, k>>] = "post" <=> cpc[<<run, k>>] = "post",
         mpc # "killed", mpc # "post", mpc' # "post"
  PROVE  PaceInv'
<1>1. MyTaken' = MyTaken /\ Handed' = Handed
  BY KidsStill
<1>2. OwnParent' = OwnParent /\ OwnChild' = OwnChild /\ Together' = Together
      /\ InMain' = InMain
  BY DEF OwnParent, OwnChild, Together, InMain
<1> QED
  BY <1>1, <1>2 DEF PaceInv, MergedWasDelivered, TakenWasAllowed

\* Main keeps the pace.
LEMMA MainPaces ==
  ASSUME HandlesInv, SizeOK, PaceInv, MainStep
  PROVE  PaceInv'
<1> USE DEF NONE
<1>1. /\ KernelOK /\ MainOK /\ Len(sem) \in Nat /\ before \in Nat
      /\ Chunk \in Nat /\ Tokens \in Nat
      /\ MyTaken \in Int /\ Handed \in Int /\ run' = run /\ before' = before
      /\ Chunk * Tokens \in Int
  BY SemFacts, TakenIs, CountsAssumption DEF HandlesInv, MainOK, MainStep
<1>2. sorted_size \in Int
  <2>1. PICK r \in 0 .. Rounds : sorted_size = r * Chunk
    BY DEF SizeOK
  <2> QED
    BY <1>1, <2>1, RoundsNat
<1>3. mpc \in {"openP", "openC", "import"} => sorted_size = 0
  BY <1>1 DEF SizeOK
<1>4. CASE MainOpenParent
  <2>1. /\ mpc = "openP" /\ parent = NONE /\ child = NONE /\ child' = child
        /\ UNCHANGED kids /\ sorted_size' = sorted_size
    BY <1>1, <1>4 DEF MainOpenParent, MainOK, mainMem
  <2>2. TakenWasAllowed'
    BY <1>1, <2>1 DEF TakenWasAllowed, OwnChild
  <2>3. MyTaken' = 0 /\ Handed' = 0
    BY <1>1, <2>1, KidsStill, NothingTaken DEF kids
  <2>4. MergedWasDelivered'
    <3> SUFFICES ASSUME OwnParent'
                 PROVE  sorted_size' + Chunk * sem'[parent'].val <= Handed'
      BY DEF MergedWasDelivered
    <3>1. PICK id \in Ids : Open("p", 0, id) /\ parent' = id
      BY <1>1, <1>4, <2>1 DEF MainOpenParent, OwnParent
    <3>2. CASE id \in 1 .. Len(sem) /\ name["p"] = id
      <4>1. id > before /\ id \in before + 1 .. Len(sem) /\ sem[id].of = "p"
        BY <1>1, <3>1, <3>2 DEF OwnParent, KernelOK, Names
      <4>2. PICK c \in Procs : id \in {cparent[c], cchild[c]}
        BY <1>1, <2>1, <4>1 DEF HandlesInv, Held
      <4>3. KidOK(c) /\ id # NONE
        BY <1>1, <4>1 DEF HandlesInv, KidsOK
      <4>4. id = cparent[c]
        BY <4>1, <4>2, <4>3 DEF KidOK
      <4>5. c[1] < run
        BY <2>1, <4>3, <4>4, Stranger
      <4> QED
        BY <1>1, <2>1, <3>1, <4>4, <4>5 DEF OwnParent, kids
    <3>3. CASE sem'[id] = [of |-> "p", val |-> 0]
      <4>1. sem'[parent'].val = 0
        BY <3>1, <3>3
      <4> QED
        BY <1>1, <1>3, <2>1, <2>3, <4>1
    <3> QED
      BY <1>1, <3>1, <3>2, <3>3, OpenSem DEF Names
  <2> QED
    BY <2>2, <2>4 DEF PaceInv
<1>5. CASE MainOpenChild
  <2>1. /\ mpc = "openC" /\ child = NONE /\ parent' = parent
        /\ UNCHANGED kids /\ sorted_size' = sorted_size /\ sorted_size = 0
        /\ mpc' \in {"import", "failed"}
    BY <1>1, <1>3, <1>5 DEF MainOpenChild, MainOK, mainMem, Goto
  <2>2. /\ MyTaken' = 0 /\ Handed' = 0 /\ MyTaken = 0 /\ Handed = 0
        /\ InMain' = 0
    BY <1>1, <2>1, KidsStill, NothingTaken DEF kids, InMain
  <2>3. \A i \in 1 .. Len(sem) : sem'[i] = sem[i]
    BY <1>1, <1>5, OpenSem DEF MainOpenChild, Names, kernel
  <2>4. MergedWasDelivered'
    <3> SUFFICES ASSUME OwnParent'
                 PROVE  sorted_size' + Chunk * sem'[parent'].val <= Handed'
      BY DEF MergedWasDelivered
    <3>1. OwnParent /\ parent \in 1 .. Len(sem)
      BY <1>1, <2>1 DEF OwnParent, kids, MainOK
    <3>2. sorted_size + Chunk * sem[parent].val <= Handed
      BY <2>1, <3>1 DEF PaceInv, MergedWasDelivered
    <3> QED
      BY <2>1, <2>2, <2>3, <3>1, <3>2
  <2>5. TakenWasAllowed'
    <3> SUFFICES ASSUME OwnChild'
                 PROVE  MyTaken' + Chunk * sem'[child'].val + Chunk * InMain'
                          <= sorted_size' + Chunk * Tokens
      BY DEF TakenWasAllowed
    <3>1. PICK id \in Ids : Open("c", Tokens, id) /\ child' = id
      BY <1>1, <1>5, <2>1 DEF MainOpenChild, OwnChild
    <3>2. CASE id \in 1 .. Len(sem) /\ name["c"] = id
      <4>1. id > before /\ id \in before + 1 .. Len(sem) /\ sem[id].of = "c"
        BY <1>1, <3>1, <3>2 DEF OwnChild, KernelOK, Names
      <4>2. id # parent /\ id # child
        BY <1>1, <2>1, <4>1 DEF MainOK
      <4>3. PICK c \in Procs : id \in {cparent[c], cchild[c]}
        BY <4>1, <4>2 DEF HandlesInv, Held
      <4>4. id = cchild[c] /\ c[1] < run
        <5>1. HandlesInv /\ KidOK(c)
          BY <1>1 DEF HandlesInv, KidsOK
        <5>2. id # NONE /\ sem[id].of # "p"
          BY <4>1 DEF Ids, NONE
        <5>3. cparent[c] # NONE => sem[cparent[c]].of = "p"
          BY <5>1 DEF KidOK
        <5>4. id = cchild[c] /\ cchild[c] # NONE
          BY <4>3, <5>2, <5>3
        <5> QED
          BY <2>1, <5>1, <5>4, Stranger
      <4> QED
        BY <1>1, <2>1, <3>1, <4>4 DEF OwnChild, kids
    <3>3. CASE sem'[id] = [of |-> "c", val |-> Tokens]
      <4>1. sem'[child'].val = Tokens
        BY <3>1, <3>3
      <4> QED
        BY <1>1, <2>1, <2>2, <4>1
    <3> QED
      BY <1>1, <3>1, <3>2, <3>3, OpenSem DEF Names
  <2> QED
    BY <2>4, <2>5 DEF PaceInv
<1>6. CASE Merge
  <2>1. /\ mpc = "wait" /\ mpc' = "post" /\ UNCHANGED <<parent, child, kids>>
        /\ sorted_size' = sorted_size + Chunk
        /\ InMain = 0 /\ InMain' = 1
        /\ OwnParent' = OwnParent /\ OwnChild' = OwnChild /\ Together' = Together
    BY <1>1, <1>6
    DEF Merge, Goto, InMain, OwnParent, OwnChild, Together, kids
  <2>2. MyTaken' = MyTaken /\ Handed' = Handed
    BY <1>1, <2>1, KidsStill DEF kids
  <2>3. PICK id \in 1 .. Len(sem) : id = parent /\ Wait(id) /\ sem[id].of = "p"
    BY <1>1, <1>6, <2>1 DEF Merge, MainOK, Ended
  <2>4. PICK v \in Nat : v = sem[id].val
    BY <1>1, SemFacts
  <2>5. v > 0 /\ sem'[id].val = v - 1
    BY <1>1, <2>3, <2>4, WaitSem
  <2>6. Chunk * (v - 1) = Chunk * v - Chunk /\ Chunk * v \in Int
    BY <1>1, <2>4
  <2>7. MergedWasDelivered'
    <3> SUFFICES ASSUME OwnParent
                 PROVE  sorted_size + Chunk + Chunk * (v - 1) <= Handed
      BY <2>1, <2>2, <2>3, <2>5 DEF MergedWasDelivered
    <3>1. sorted_size + Chunk * v <= Handed
      BY <2>1, <2>3, <2>4 DEF PaceInv, MergedWasDelivered
    <3> QED
      BY <1>1, <1>2, <2>6, <3>1
  <2>8. TakenWasAllowed'
    <3> SUFFICES ASSUME OwnChild, Together
                 PROVE  MyTaken + Chunk * sem'[child].val + Chunk * 1
                          <= sorted_size + Chunk + Chunk * Tokens
      BY <2>1, <2>2 DEF TakenWasAllowed
    <3>1. child \in 1 .. Len(sem) /\ child # id
      BY <1>1, <2>3 DEF OwnChild, MainOK
    <3>2. PICK w \in Nat : w = sem[child].val
      BY <1>1, <3>1, SemFacts
    <3>3. sem'[child].val = w
      BY <1>1, <2>3, <3>1, <3>2, WaitSem
    <3>4. MyTaken + Chunk * w + Chunk * 0 <= sorted_size + Chunk * Tokens
      BY <2>1, <3>2 DEF PaceInv, TakenWasAllowed
    <3>5. Chunk * w \in Int
      BY <1>1, <3>2
    <3> QED
      BY <1>1, <1>2, <3>3, <3>4, <3>5
  <2> QED
    BY <2>7, <2>8 DEF PaceInv
<1>7. CASE PostChild
  <2>1. /\ mpc = "post" /\ mpc' \in {"wait", "poll"}
        /\ UNCHANGED <<parent, child, kids>> /\ sorted_size' = sorted_size
        /\ InMain = 1 /\ InMain' = 0
        /\ OwnParent' = OwnParent /\ OwnChild' = OwnChild /\ Together' = Together
    BY <1>1, <1>7
    DEF PostChild, Goto, InMain, OwnParent, OwnChild, Together, kids, mainMem
  <2>2. MyTaken' = MyTaken /\ Handed' = Handed
    BY <1>1, <2>1, KidsStill DEF kids
  <2>3. PICK id \in 1 .. Len(sem) : id = child /\ Post(id) /\ sem[id].of = "c"
    BY <1>1, <1>7, <2>1 DEF PostChild, MainOK, Ended
  <2>4. PICK v \in Nat : v = sem[id].val
    BY <1>1, SemFacts
  <2>5. sem'[id].val = v + 1
    BY <1>1, <2>3, <2>4, PostSem
  <2>6. Chunk * (v + 1) = Chunk * v + Chunk /\ Chunk * v \in Int
    BY <1>1, <2>4
  <2>7. MergedWasDelivered'
    <3> SUFFICES ASSUME OwnParent
                 PROVE  sorted_size + Chunk * sem'[parent].val <= Handed
      BY <2>1, <2>2 DEF MergedWasDelivered
    <3>1. parent \in 1 .. Len(sem) /\ parent # id
      BY <1>1, <2>3 DEF OwnParent, MainOK
    <3>2. sem'[parent].val = sem[parent].val
      BY <1>1, <2>3, <3>1, PostSem
    <3> QED
      BY <2>1, <3>2 DEF PaceInv, MergedWasDelivered
  <2>8. TakenWasAllowed'
    <3> SUFFICES ASSUME OwnChild, Together
                 PROVE  MyTaken + Chunk * (v + 1) + Chunk * 0
                          <= sorted_size + Chunk * Tokens
      BY <2>1, <2>2, <2>3, <2>5 DEF TakenWasAllowed
    <3>1. MyTaken + Chunk * v + Chunk * 1 <= sorted_size + Chunk * Tokens
      BY <2>1, <2>3, <2>4 DEF PaceInv, TakenWasAllowed
    <3> QED
      BY <1>1, <1>2, <2>6, <3>1
  <2> QED
    BY <2>7, <2>8 DEF PaceInv
<1>8. CASE Fork
  <2>1. /\ mpc = "fork" /\ mpc' \in {"fork", "wait"} /\ sem' = sem
        /\ UNCHANGED <<parent, child, cparent, cchild, csize, sorted_size>>
    BY <1>8 DEF Fork, Goto, kernel, mainMem
  <2>2. /\ n \in Children /\ <<run, n>> \in Procs /\ cpc[<<run, n>>] = "none"
        /\ cpc = [c \in Procs |-> cpc[c]]
    <3>1. n \in Children /\ n >= n
      BY <1>1, CountsAssumption DEF MainOK, Children
    <3>2. <<run, n>> \in Procs
      BY <3>1, TakenIs
    <3> QED
      BY <1>1, <2>1, <3>1, <3>2 DEF HandlesInv, NotForked, KidsOK
  <2>3. \A k \in Children : cpc'[<<run, k>>] = "post" <=> cpc[<<run, k>>] = "post"
    <3>1. CASE UNCHANGED cpc
      BY <3>1
    <3>2. CASE cpc' = [cpc EXCEPT ![<<run, n>>] = "openP"]
      <4>1. \A k \in Children : <<run, k>> \in Procs
        BY TakenIs
      <4> QED
        BY <2>2, <3>2, <4>1
    <3> QED
      BY <1>8, <3>1, <3>2 DEF Fork
  <2> QED
    BY <1>1, <2>1, <2>3, QuietPaces
<1>9. CASE Import \/ Poll \/ Write
  BY <1>1, <1>9, QuietPaces DEF Import, Poll, Write, Goto, kernel, mainMem, kids
<1>10. CASE MainUnlinkChild \/ MainUnlinkParent
  BY <1>1, <1>10, QuietPaces
  DEF MainUnlinkChild, MainUnlinkParent, Unlink, Goto, mainMem, kids
<1> QED
  BY <1>4, <1>5, <1>6, <1>7, <1>8, <1>9, <1>10 DEF MainStep

\* The processes of a run with semaphores of its own keep step: main merges
\* only what a child has delivered, and a child is no more than the initial
\* tokens ahead, unless one of them made semaphores of its own.
THEOREM StepIsKept == Spec => []KeepStep
<1> USE DEF NONE
<1>1. Init => PaceInv
  BY DEF Init, PaceInv, MergedWasDelivered, TakenWasAllowed, OwnParent, OwnChild
<1>2. IInv /\ HandlesInv /\ PaceInv /\ [Next]_vars => PaceInv'
  <2> SUFFICES ASSUME SizeOK, HandlesInv, PaceInv, [Next]_vars PROVE PaceInv'
    BY DEF IInv
  <2>1. CASE MainStep
    BY <2>1, MainPaces
  <2>2. ASSUME NEW c \in Procs, ChildStep(c) PROVE PaceInv'
    BY <2>2, ChildPaces
  <2>3. CASE Kill
    BY <2>3 DEF Kill, PaceInv, MergedWasDelivered, TakenWasAllowed
  <2>4. CASE Restart
    <3>1. parent' = 0 /\ child' = 0 /\ before' \in Nat
      BY <2>4, SemFacts DEF Restart, HandlesInv
    <3> QED
      BY <3>1
      DEF PaceInv, MergedWasDelivered, TakenWasAllowed, OwnParent, OwnChild
  <2>5. CASE UNCHANGED vars
    <3>1. MyTaken' = MyTaken /\ Handed' = Handed
      BY <2>5, KidsStill DEF vars, kids
    <3> QED
      BY <2>5, <3>1
      DEF vars, kernel, control, kids, mainMem, PaceInv, MergedWasDelivered,
          TakenWasAllowed, OwnParent, OwnChild, Together, InMain
  <2> QED
    BY <2>1, <2>2, <2>3, <2>4, <2>5 DEF Next
<1>3. IInv /\ HandlesInv /\ PaceInv => KeepStep
  <2> SUFFICES ASSUME SizeOK, HandlesInv, PaceInv, Fresh, Alone, mpc # "killed"
               PROVE  /\ sorted_size <= Delivered
                      /\ ~Split => Taken <= sorted_size + Chunk * Tokens
    BY DEF IInv, KeepStep
  <2>1. /\ KernelOK /\ Len(sem) \in Nat /\ before \in Nat
        /\ Chunk \in Nat /\ Tokens \in Nat /\ MyTaken \in Int /\ Handed \in Int
        /\ parent \in 1 .. Len(sem) /\ child \in 1 .. Len(sem)
    BY SemFacts, TakenIs, CountsAssumption DEF HandlesInv, MainOK, Fresh
  <2>2. sorted_size \in Int
    <3>1. PICK r \in 0 .. Rounds : sorted_size = r * Chunk
      BY DEF SizeOK
    <3> QED
      BY <2>1, <3>1, RoundsNat
  <2>3. OwnParent /\ OwnChild
    BY DEF Fresh, Alone, OwnParent, OwnChild
  <2>4. PICK v \in Nat, w \in Nat : v = sem[parent].val /\ w = sem[child].val
    BY <2>1, SemFacts
  <2>5. /\ Chunk * v \in Nat /\ Chunk * w \in Nat /\ Chunk * InMain \in Nat
        /\ Chunk * Tokens \in Int
    BY <2>1, <2>4, SMTT(30) DEF InMain
  <2>6. Taken = MyTaken /\ Delivered = Handed
    BY TakenSum DEF Delivered, Handed
  <2>7. sorted_size <= Handed
    <3>1. sorted_size + Chunk * v <= Handed
      BY <2>3, <2>4 DEF PaceInv, MergedWasDelivered
    <3> QED
      BY <2>1, <2>2, <2>5, <3>1
  <2>8. ASSUME ~Split PROVE MyTaken <= sorted_size + Chunk * Tokens
    <3>1. Together
      BY <2>8 DEF Split, Together
    <3>2. MyTaken + Chunk * w + Chunk * InMain <= sorted_size + Chunk * Tokens
      BY <2>3, <2>4, <3>1 DEF PaceInv, TakenWasAllowed
    <3> QED
      BY <2>1, <2>2, <2>5, <3>2
  <2> QED
    BY <2>6, <2>7, <2>8
<1> QED
  BY <1>1, <1>2, <1>3, Invariance, HandlesInvariance, PTL DEF Spec
=============================================================================
