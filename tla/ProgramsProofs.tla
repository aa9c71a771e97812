--------------------------- MODULE ProgramsProofs ---------------------------
(***************************************************************************)
(* Theorems about the small programs and data structures that have no part *)
(* in common: Children, Darts, Paging and LinkedList, each for every value *)
(* of its constants.  At the end, what follows for MCPrograms, where they  *)
(* are put beside each other and beside the routines of SortProofs.        *)
(***************************************************************************)
EXTENDS MCPrograms, SortProofs

-----------------------------------------------------------------------------
(***************************************************************************)
(* Children: main makes one round of polls, and fails in it only over a    *)
(* child that could not be forked.  As every answer of waitpid() counts as *)
(* an end, current_children is NumChild - c throughout the first round,    *)
(* and 0 at the end of it.  So there is no second round, and a child that  *)
(* main has reaped is one whose turn is over.                              *)
(***************************************************************************)
ChildrenSpec == ChildrenInit /\ [][ChildrenNext]_childVars

OneRound ==
  /\ place = "fork" =>
       current_children = NumChild /\ \A k \in Kids : child[k] # "reaped"
  /\ place = "poll" =>
       /\ current_children = NumChild - c
       /\ \A k \in Kids : k >= c => child[k] # "reaped"

ChildrenInv == ChildrenTypeOK /\ OneRound /\ FailsOnlyForFork

\* main starts with all children to fork and none reaped.
LEMMA ChildrenStart == ChildrenInit => ChildrenInv
  BY NumChildAssumption
  DEF ChildrenInit, ChildrenInv, ChildrenTypeOK, OneRound, FailsOnlyForFork,
      Kids, ChildStates

\* performFork() makes a child that runs, or none.
LEMMA ForkStep == ChildrenInv /\ PerformFork => ChildrenInv'
  BY NumChildAssumption
  DEF PerformFork, ChildrenInv, ChildrenTypeOK, OneRound, FailsOnlyForFork,
      Kids, ChildStates

\* A poll reaps at most the child whose turn it is.
LEMMA PollStep == ChildrenInv /\ Poll => ChildrenInv'
<1> SUFFICES ASSUME ChildrenInv, Poll PROVE ChildrenInv'
  OBVIOUS
<1> USE NumChildAssumption DEF Poll, Kids, ChildStates
<1>1. CountsAsEnd(c)
  BY DEF CountsAsEnd
<1>2. current_children' = NumChild - c'
  BY <1>1 DEF ChildrenInv, ChildrenTypeOK, OneRound
<1>3. ChildrenTypeOK'
  BY <1>2 DEF ChildrenInv, ChildrenTypeOK
<1>4. OneRound'
  BY <1>2 DEF ChildrenInv, ChildrenTypeOK, OneRound
<1> QED
  BY <1>3, <1>4 DEF ChildrenInv, FailsOnlyForFork

\* main fails over a child that was never forked.
LEMMA FailStep == ChildrenInv /\ PollFails => ChildrenInv'
<1> SUFFICES ASSUME ChildrenInv, PollFails PROVE ChildrenInv'
  OBVIOUS
<1>1. c \in Kids /\ child[c] = "notForked"
  BY NumChildAssumption
  DEF ChildrenInv, ChildrenTypeOK, OneRound, PollFails, Kids
<1> QED
  BY <1>1 DEF ChildrenInv, ChildrenTypeOK, OneRound, PollFails,
              FailsOnlyForFork

\* After the round there is no other.
LEMMA RoundStep == ChildrenInv /\ NextRound => ChildrenInv' /\ place' = "returned"
<1> SUFFICES ASSUME ChildrenInv, NextRound
             PROVE ChildrenInv' /\ place' = "returned"
  OBVIOUS
<1>1. ~PollsAgain
  BY NumChildAssumption
  DEF ChildrenInv, ChildrenTypeOK, OneRound, NextRound, PollsAgain
<1> QED
  BY <1>1 DEF ChildrenInv, ChildrenTypeOK, OneRound, NextRound,
              FailsOnlyForFork

\* The other steps: main's work, and the end of a child, which is not a reaped
\* one.
LEMMA OtherStep ==
  ChildrenInv /\ (BusyWork \/ \E k \in Kids : ChildExits(k)) => ChildrenInv'
<1> SUFFICES ASSUME ChildrenInv,
                    BusyWork \/ \E k \in Kids : ChildExits(k)
             PROVE ChildrenInv'
  OBVIOUS
<1>1. CASE BusyWork
  BY <1>1, NumChildAssumption
  DEF BusyWork, ChildrenInv, ChildrenTypeOK, OneRound, FailsOnlyForFork, Kids
<1>2. CASE \E k \in Kids : ChildExits(k)
  BY <1>2 DEF ChildExits, ChildrenInv, ChildrenTypeOK, OneRound,
              FailsOnlyForFork, ChildStates
<1> QED
  BY <1>1, <1>2

\* ChildrenInv is inductive.
THEOREM ChildrenInvariance == ChildrenSpec => []ChildrenInv
<1>1. ChildrenInv /\ [ChildrenNext]_childVars => ChildrenInv'
  <2> SUFFICES ASSUME ChildrenInv, [ChildrenNext]_childVars
               PROVE ChildrenInv'
    OBVIOUS
  <2>1. CASE UNCHANGED childVars
    BY <2>1 DEF childVars, ChildrenInv, ChildrenTypeOK, OneRound,
                FailsOnlyForFork
  <2>2. CASE ChildrenNext
    BY <2>2, ForkStep, PollStep, FailStep, RoundStep, OtherStep
    DEF ChildrenNext, ChildrenMain
  <2> QED
    BY <2>1, <2>2
<1> QED
  BY <1>1, ChildrenStart, PTL DEF ChildrenSpec

\* Types: the count of children that are left never goes below zero.
THEOREM ChildrenTypeCorrect == ChildrenSpec => []ChildrenTypeOK
  BY ChildrenInvariance, PTL DEF ChildrenInv

\* main fails only when a fork has failed, in whatever order the children end.
THEOREM ChildrenFailOnlyForFork == ChildrenSpec => []FailsOnlyForFork
  BY ChildrenInvariance, PTL DEF ChildrenInv

\* main polls each child once: the counter of the polls never goes back.
THEOREM ChildrenPolledOnce ==
  ChildrenSpec => [][place = "poll" => c' >= c]_childVars
<1>1. ChildrenInv /\ [ChildrenNext]_childVars =>
        [place = "poll" => c' >= c]_childVars
  <2> SUFFICES ASSUME ChildrenInv, ChildrenNext, place = "poll"
               PROVE c' >= c
    BY DEF childVars
  <2>1. ASSUME NextRound PROVE c' = c
    BY <2>1, RoundStep DEF NextRound
  <2> QED
    BY <2>1 DEF ChildrenInv, ChildrenTypeOK, ChildrenNext, ChildrenMain,
                PerformFork, BusyWork, Poll, PollFails, ChildExits
<1> QED
  BY <1>1, ChildrenInvariance, PTL DEF ChildrenSpec

-----------------------------------------------------------------------------
(***************************************************************************)
(* Darts.  main adds up the results in the order of the threads, so that   *)
(* its sum is always the sum of the hits of those it has joined, and a     *)
(* thread that has left its result throws no more.                         *)
(***************************************************************************)
DartsSpec == DartsInit /\ [][DartsNext]_dartVars

\* A thread, from the dart it throws first to the result it leaves.
ThreadsInv ==
  \A t \in Throwers :
    /\ hits[t] \in 0 .. thrown[t] /\ thrown[t] \in 0 .. Share
    /\ thread[t] \in {"ended", "joined"} =>
         thrown[t] = Share /\ result[t] = hits[t]
    /\ thread[t] \in {"none", "throws"} => result[t] = -1

\* main, from the thread it creates first to the one it joins last.
JoinsInv ==
  /\ \E m \in 0 .. numThreads :
       /\ hit = Sum(hits, 1 .. m)
       /\ \A t \in 1 .. m : thread[t] = "joined"
  /\ at = "create" => /\ hit = 0
                      /\ \A t \in Throwers : t >= j => thread[t] = "none"
                      /\ \A t \in Throwers : thread[t] # "joined"
  /\ at \in {"join", "returned"} =>
       /\ \A t \in Throwers : thread[t] = "joined" <=> t < j
       /\ hit = Sum(hits, 1 .. j - 1)
  /\ at = "returned" => j = numThreads + 1
  /\ freed => at \in {"abort", "exited", "returned"}

\* DartsTypeOK, but for the bound of hit.
DartsTypes ==
  /\ <<numDarts, numThreads>> \in Throws
  /\ numDarts \in Nat /\ numThreads \in Nat \ {0}
  /\ at \in {"create", "join", "abort", "exited", "returned"}
  /\ j \in 1 .. numThreads + 1
  /\ freed \in BOOLEAN
  /\ thread \in [Throwers -> {"none", "throws", "ended", "joined"}]
  /\ thrown \in [Throwers -> Nat]
  /\ hits \in [Throwers -> Nat]
  /\ result \in [Throwers -> Nat \cup {-1}]

DartsInv == DartsTypes /\ ThreadsInv /\ JoinsInv

\* The darts can be shared out evenly.
LEMMA Shares ==
  ASSUME DartsTypes
  PROVE  Share \in Nat /\ numDarts = Share * numThreads
<1>1. numDarts % numThreads = 0
  <2>1. \A w \in Throws : w[1] % w[2] = 0
    BY ThrowsAssumption DEF Divides
  <2> QED
    BY <2>1 DEF DartsTypes
<1> QED
  BY <1>1 DEF DartsTypes, Share

\* What is added up for the first threads.
LEMMA FirstThreads ==
  ASSUME DartsTypes, NEW m \in 0 .. numThreads
  PROVE  /\ IsFiniteSet(1 .. m) /\ Cardinality(1 .. m) = m
         /\ 1 .. m \in SUBSET Throwers
         /\ Sum(hits, 1 .. m) \in Int /\ Sum(thrown, 1 .. m) \in Int
<1>1. m \in Nat /\ IsFiniteSet(1 .. m) /\ Cardinality(1 .. m) = m
  <2>1. m \in Nat
    BY DEF DartsTypes
  <2>2. Cardinality(1 .. m) = IF 1 > m THEN 0 ELSE m - 1 + 1
    BY <2>1, FS_Interval
  <2> QED
    BY <2>1, <2>2, FS_Interval
<1>2. 1 .. m \in SUBSET Throwers
  BY DEF DartsTypes, Throwers
<1>3. \A t \in 1 .. m : hits[t] \in Int /\ thrown[t] \in Int
  BY <1>2 DEF DartsTypes
<1>4. Sum(hits, 1 .. m) \in Int /\ Sum(thrown, 1 .. m) \in Int
  BY <1>1, <1>3, SumInt
<1> QED
  BY <1>1, <1>2, <1>4

LEMMA DartsStart == DartsInit => DartsInv
<1> SUFFICES ASSUME DartsInit PROVE DartsInv
  OBVIOUS
<1>1. DartsTypes
  <2>1. PICK w \in Throws : numDarts = w[1] /\ numThreads = w[2]
    BY DEF DartsInit
  <2>2. w \in Nat \X (Nat \ {0})
    BY ThrowsAssumption
  <2>3. w = <<numDarts, numThreads>> /\ numDarts \in Nat
        /\ numThreads \in Nat \ {0}
    BY <2>1, <2>2
  <2>4. <<numDarts, numThreads>> \in Throws
    BY <2>3
  <2>5. j \in 1 .. numThreads + 1
    BY <2>3 DEF DartsInit
  <2> QED
    BY <2>3, <2>4, <2>5 DEF DartsInit, DartsTypes
<1>2. Share \in Nat
  BY <1>1, Shares
<1>3. ThreadsInv
  BY <1>1, <1>2 DEF DartsInit, ThreadsInv, DartsTypes
<1>4. JoinsInv
  <2>1. \E m \in 0 .. numThreads :
          hit = Sum(hits, 1 .. m) /\ \A t \in 1 .. m : thread[t] = "joined"
    <3>1. Sum(hits, 1 .. 0) = 0 /\ 1 .. 0 = {}
      <4>1. 1 .. 0 = {}
        OBVIOUS
      <4> QED
        BY <4>1, SumEmpty
    <3>2. hit = 0 /\ 0 \in 0 .. numThreads
      BY <1>1 DEF DartsInit, DartsTypes
    <3> QED
      BY <3>1, <3>2
  <2> QED
    BY <2>1 DEF DartsInit, JoinsInv
<1> QED
  BY <1>1, <1>3, <1>4 DEF DartsInv

\* Steps of main that add nothing.
LEMMA MainOfDarts ==
  ASSUME DartsInv,
         CreateThread \/ CreateFails \/ Abort \/ AllCreated \/ JoinFails \/ Return
  PROVE  DartsInv'
<1> USE DEF DartsInv, DartsTypes, ThreadsInv, JoinsInv
<1>1. Throwers' = Throwers /\ Share' = Share
  BY DEF CreateThread, CreateFails, Abort, AllCreated, JoinFails, Return,
         Throwers, Share
<1>2. CASE CreateThread
  <2>1. hit' = 0 /\ Sum(hits', 1 .. 0) = 0 /\ 0 \in 0 .. numThreads'
    <3>1. 1 .. 0 = {}
      OBVIOUS
    <3> QED
      BY <1>2, <3>1, SumEmpty DEF CreateThread
  <2>2. \E m \in 0 .. numThreads' :
          hit' = Sum(hits', 1 .. m) /\ \A t \in 1 .. m : thread'[t] = "joined"
    BY <2>1
  <2> QED
    BY <1>1, <1>2, <2>2 DEF CreateThread, Throwers
<1>3. CASE CreateFails \/ Abort \/ JoinFails
  BY <1>1, <1>3, ZenonT(40) DEF CreateFails, Abort, JoinFails
<1>4. CASE AllCreated
  <2>1. Sum(hits', 1 .. j' - 1) = 0
    <3>1. 1 .. j' - 1 = {}
      BY <1>4 DEF AllCreated
    <3> QED
      BY <3>1, SumEmpty
  <2>2. JoinsInv'
    BY <1>1, <1>4, <2>1 DEF AllCreated, Throwers
  <2> QED
    BY <1>1, <1>4, <2>2 DEF AllCreated
<1>5. CASE Return
  BY <1>1, <1>5 DEF Return, JoinsOver
<1> QED
  BY <1>2, <1>3, <1>4, <1>5

LEMMA JoinOfDarts ==
  ASSUME DartsInv, JoinThread
  PROVE  DartsInv'
<1> USE DEF DartsInv, DartsTypes
<1>1. Throwers' = Throwers /\ Share' = Share /\ UNCHANGED <<hits, thrown, result>>
  BY DEF JoinThread, Throwers, Share
<1>2. j \in Throwers /\ at = "join" /\ j' = j + 1 /\ result[j] = hits[j]
      /\ thread[j] = "ended" /\ thread' = [thread EXCEPT ![j] = "joined"]
      /\ hit' = hit + result[j] /\ at' = at /\ freed' = freed
  BY DEF JoinThread, Joinable, Throwers, ThreadsInv
<1>3. DartsTypes' /\ ThreadsInv'
  BY <1>1, <1>2 DEF JoinThread, ThreadsInv, Throwers
<1>4. Sum(hits', 1 .. j' - 1) = hit'
  <2>1. Sum(hits, 1 .. j) = hits[j] + Sum(hits, (1 .. j) \ {j})
    <3>1. j \in 0 .. numThreads /\ j \in 1 .. j
      BY <1>2 DEF Throwers
    <3>2. \A t \in 1 .. j : hits[t] \in Int
      BY <3>1, FirstThreads
    <3> QED
      BY <3>1, <3>2, FirstThreads, SumRemove
  <2>2. (1 .. j) \ {j} = 1 .. j - 1 /\ 1 .. j' - 1 = 1 .. j
    BY <1>2
  <2>3. hit \in Int /\ hit = Sum(hits, 1 .. j - 1)
    <3>1. j - 1 \in 0 .. numThreads
      BY <1>2 DEF Throwers
    <3> QED
      BY <1>2, <3>1, FirstThreads DEF JoinsInv
  <2>4. Sum(hits', 1 .. j' - 1) = hits[j] + Sum(hits, 1 .. j - 1)
    BY <1>1, <2>1, <2>2
  <2>5. hits[j] \in Int
    BY <1>2
  <2> QED
    BY <1>2, <2>3, <2>4, <2>5
<1>5. JoinsInv'
  <2>1. \A t \in Throwers : thread'[t] = "joined" <=> t < j'
    <3>1. \A t \in Throwers : thread[t] = "joined" <=> t < j
      BY <1>2 DEF JoinsInv
    <3> QED
      BY <1>2, <3>1 DEF Throwers
  <2>2. \E m \in 0 .. numThreads' :
          hit' = Sum(hits', 1 .. m) /\ \A t \in 1 .. m : thread'[t] = "joined"
    <3>1. j \in 0 .. numThreads' /\ 1 .. j' - 1 = 1 .. j /\ 1 .. j \in SUBSET Throwers
      BY <1>2 DEF JoinThread, Throwers
    <3>2. \A t \in 1 .. j : thread'[t] = "joined"
      BY <1>2, <2>1, <3>1
    <3> QED
      BY <1>4, <3>1, <3>2
  <2> QED
    BY <1>1, <1>2, <1>4, <2>1, <2>2 DEF JoinsInv
<1> QED
  BY <1>3, <1>5

LEMMA ThrowsOfDarts ==
  ASSUME DartsInv, NEW t \in Throwers, Throw(t) \/ LeaveResult(t)
  PROVE  DartsInv'
<1> USE DEF DartsInv, DartsTypes
<1>1. /\ Throwers' = Throwers /\ Share' = Share
      /\ UNCHANGED <<numDarts, numThreads, at, j, hit, freed>>
  BY DEF Throw, LeaveResult, Throwers, Share
<1>2. Share \in Nat
  BY Shares
<1>3. DartsTypes'
  BY <1>1 DEF Throw, LeaveResult
<1>4. ThreadsInv'
  BY <1>1, <1>2 DEF Throw, LeaveResult, ThreadsInv
<1>5. thread[t] = "throws" /\ \A u \in Throwers \ {t} :
        hits'[u] = hits[u] /\ thread'[u] = thread[u]
  BY DEF Throw, LeaveResult
<1>6. thread'[t] \in {"throws", "ended"}
  BY DEF Throw, LeaveResult
<1>7. ASSUME NEW m \in 0 .. numThreads, \A u \in 1 .. m : thread[u] = "joined"
      PROVE  /\ Sum(hits', 1 .. m) = Sum(hits, 1 .. m)
             /\ \A u \in 1 .. m : thread'[u] = "joined"
  <2>1. IsFiniteSet(1 .. m) /\ 1 .. m \in SUBSET Throwers
    BY FirstThreads
  <2>2. \A u \in 1 .. m : u # t
    BY <1>5, <1>7
  <2>3. \A u \in 1 .. m : hits'[u] = hits[u] /\ thread'[u] = thread[u]
    BY <1>5, <2>1, <2>2
  <2> QED
    BY <1>7, <2>1, <2>3, SumSame
<1>8. JoinsInv'
  <2>1. \E m \in 0 .. numThreads' :
          hit' = Sum(hits', 1 .. m) /\ \A u \in 1 .. m : thread'[u] = "joined"
    BY <1>1, <1>7 DEF JoinsInv
  <2>2. at \in {"join", "returned"} => hit' = Sum(hits', 1 .. j' - 1)
    <3>1. j - 1 \in 0 .. numThreads
      OBVIOUS
    <3>2. at \in {"join", "returned"} =>
            \A u \in 1 .. j - 1 : thread[u] = "joined"
      BY <3>1 DEF JoinsInv, Throwers
    <3> QED
      BY <1>1, <1>7, <3>1, <3>2 DEF JoinsInv
  <2> QED
    BY <1>1, <1>5, <1>6, <2>1, <2>2 DEF JoinsInv
<1> QED
  BY <1>3, <1>4, <1>8

\* The invariant of the two programs.
THEOREM DartsInvariance == DartsSpec => []DartsInv
<1>1. DartsInv /\ [DartsNext]_dartVars => DartsInv'
  <2> SUFFICES ASSUME DartsInv, [DartsNext]_dartVars PROVE DartsInv'
    OBVIOUS
  <2>1. CASE DartsNext
    BY <2>1, MainOfDarts, JoinOfDarts, ThrowsOfDarts DEF DartsNext, DartsMain
  <2>2. CASE UNCHANGED dartVars
    BY <2>2 DEF dartVars, DartsInv, DartsTypes, ThreadsInv, JoinsInv, Throwers,
       Share
  <2> QED
    BY <2>1, <2>2
<1> QED
  BY <1>1, DartsStart, PTL DEF DartsSpec

\* No more darts than there are can have been thrown, or have hit.
LEMMA HitsBounded ==
  ASSUME DartsInv, NEW m \in 0 .. numThreads
  PROVE  /\ Sum(hits, 1 .. m) \in 0 .. numDarts
         /\ \A t \in Throwers : thrown[t] \in 0 .. numDarts
<1> USE DEF DartsInv
<1>1. Share \in Nat /\ numDarts = Share * numThreads
  BY Shares
<1> DEFINE none == [t \in Throwers |-> 0]
           all  == [t \in Throwers |-> Share]
<1>2. IsFiniteSet(1 .. m) /\ Cardinality(1 .. m) = m
      /\ 1 .. m \in SUBSET Throwers
  BY FirstThreads
<1>3. \A t \in 1 .. m : hits[t] \in Int /\ 0 <= hits[t] /\ hits[t] <= Share
  BY <1>1, <1>2 DEF DartsTypes, ThreadsInv
<1>4. Sum(none, 1 .. m) = 0 * m /\ Sum(all, 1 .. m) = Share * m
  BY <1>1, <1>2, SumConstant, SMTT(30)
<1>5. Sum(none, 1 .. m) <= Sum(hits, 1 .. m)
  BY <1>2, <1>3, SumAtMost
<1>6. Sum(hits, 1 .. m) <= Sum(all, 1 .. m)
  BY <1>1, <1>2, <1>3, SumAtMost
<1>7. m \in Nat /\ numThreads \in Nat \ {0} /\ m <= numThreads
  BY DEF DartsTypes
<1>8. Share * m <= Share * numThreads /\ Share <= Share * numThreads
  BY <1>1, <1>7
<1>9. Sum(hits, 1 .. m) \in Int
  BY FirstThreads
<1>10. 0 * m = 0
  BY <1>7
<1> HIDE DEF none, all
<1>11. Sum(hits, 1 .. m) \in 0 .. numDarts
  <2>1. 0 <= Sum(hits, 1 .. m)
    BY <1>4, <1>5, <1>10
  <2>2. Sum(hits, 1 .. m) <= numDarts
    BY <1>1, <1>4, <1>6, <1>7, <1>8, <1>9
  <2> QED
    BY <1>1, <1>7, <1>9, <2>1, <2>2
<1>12. \A t \in Throwers : thrown[t] \in 0 .. numDarts
  BY <1>1, <1>8 DEF DartsTypes, ThreadsInv
<1> QED
  BY <1>11, <1>12

\* Every variable has its type.
THEOREM DartsTypeCorrect == DartsSpec => []DartsTypeOK
<1>1. DartsInv => DartsTypeOK
  <2> SUFFICES ASSUME DartsInv PROVE DartsTypeOK
    OBVIOUS
  <2>1. hit \in 0 .. numDarts
    <3>1. CASE at \in {"join", "returned"}
      <4>1. j - 1 \in 0 .. numThreads
        BY DEF DartsInv, DartsTypes
      <4> QED
        BY <3>1, <4>1, HitsBounded DEF DartsInv, JoinsInv
    <3>2. CASE at \notin {"join", "returned"}
      BY HitsBounded DEF DartsInv, JoinsInv
    <3> QED
      BY <3>1, <3>2
  <2>2. 0 \in 0 .. numThreads
    BY DEF DartsInv, DartsTypes
  <2>3. \A t \in Throwers : thrown[t] \in 0 .. numDarts
    BY <2>2, HitsBounded
  <2>4. \A t \in Throwers : hits[t] \in 0 .. numDarts
    BY <2>3 DEF DartsInv, DartsTypes, ThreadsInv
  <2>5. \A t \in Throwers : result[t] \in -1 .. numDarts
    BY <2>4 DEF DartsInv, DartsTypes, ThreadsInv
  <2> QED
    BY <2>1, <2>3, <2>4, <2>5 DEF DartsInv, DartsTypes, DartsTypeOK
<1> QED
  BY <1>1, DartsInvariance, PTL

\* When createThreads() returns, all darts have been thrown and hit is the
\* number of those inside.
THEOREM EveryDartIsCounted == DartsSpec => []EveryDartCounted
<1>1. DartsInv => EveryDartCounted
  <2> SUFFICES ASSUME DartsInv, at = "returned"
               PROVE  /\ numDarts = Sum(thrown, Throwers)
                      /\ hit = Sum(hits, Throwers)
    BY DEF EveryDartCounted, Sum
  <2>1. Throwers = 1 .. numThreads /\ j - 1 = numThreads
    BY DEF DartsInv, DartsTypes, JoinsInv, Throwers
  <2>2. hit = Sum(hits, Throwers)
    BY <2>1 DEF DartsInv, JoinsInv
  <2>3. \A t \in Throwers : thrown[t] = Share
    BY <2>1 DEF DartsInv, DartsTypes, JoinsInv, ThreadsInv
  <2>4. IsFiniteSet(Throwers) /\ Cardinality(Throwers) = numThreads
    BY <2>1, FirstThreads DEF DartsInv, DartsTypes
  <2>5. Share \in Nat /\ numDarts = Share * numThreads
    BY Shares DEF DartsInv
  <2> QED
    BY <2>2, <2>3, <2>4, <2>5, SumConstant
<1> QED
  BY <1>1, DartsInvariance, PTL

\* When createThreads() returns and has freed the array, all threads have been
\* joined.  (main also frees it when it is about to exit.)
THEOREM NoWriteAfterFree == DartsSpec => []WritesBeforeFree
<1>1. DartsInv => WritesBeforeFree
  BY DEF DartsInv, DartsTypes, JoinsInv, WritesBeforeFree, Throwers
<1> QED
  BY <1>1, DartsInvariance, PTL

-----------------------------------------------------------------------------
(***************************************************************************)
(* Paging.  There is one slot more than processes, so that as long as none *)
(* is alive in two slots one is free.  The first page a process stores     *)
(* goes to every cell that is free: after that none is, whatever the loop  *)
(* over its other pages does.                                              *)
(***************************************************************************)
PagingSpec == PagingInit /\ [][PagingNext]_pagingVars

Pages    == Nat \cup {NoPage}
MemCells == 0 .. MaxPages - 1

PagingTypes ==
  /\ validPages \in [Letters -> PageCounts]
  /\ timeAlive \in [Letters -> Nat \ {0}]
  /\ aliveProcess \in [Slots -> Letters \cup {EMPTY}]
  /\ pTable \in Pages
  /\ backMem \in [MemCells -> Pages \cup {GARBAGE}]
  /\ touches \in 0 .. MaxTouches /\ crashed \in BOOLEAN

\* No process is alive in two slots.
InOneSlot ==
  \A s, t \in Slots :
    aliveProcess[s] = aliveProcess[t] => s = t \/ aliveProcess[s] = EMPTY

PagingInv == PagingTypes /\ InOneSlot

\* One of the slots is free, since there are fewer processes.
LEMMA FreeSlot ==
  ASSUME PagingTypes, InOneSlot
  PROVE  \E s \in Slots : aliveProcess[s] = EMPTY
<1> SUFFICES ASSUME \A s \in Slots : aliveProcess[s] # EMPTY PROVE FALSE
  OBVIOUS
<1>1. aliveProcess \in [Slots -> Letters]
  BY DEF PagingTypes
<1>2. Cardinality(Letters) \in Nat /\ IsFiniteSet(Letters)
  BY PagingAssumption, FS_CardinalityType
<1>3. IsFiniteSet(Slots) /\ Cardinality(Slots) = Cardinality(Letters) + 1
  BY <1>2, FS_Interval DEF Slots
<1>4. Cardinality(Letters) < Cardinality(Slots)
  BY <1>2, <1>3
<1>5. \E s, t \in Slots : s # t /\ aliveProcess[s] = aliveProcess[t]
  BY <1>1, <1>2, <1>3, <1>4, FS_PigeonHole
<1> QED
  BY <1>5 DEF InOneSlot

\* A process that is not alive gets a slot of its own.
LEMMA OccupyIs ==
  ASSUME PagingTypes, InOneSlot, NEW p \in Letters, ~isAlive(p)
  PROVE  /\ Occupy(p) \in [Slots -> Letters \cup {EMPTY}]
         /\ \A s, t \in Slots :
              Occupy(p)[s] = Occupy(p)[t] => s = t \/ Occupy(p)[s] = EMPTY
<1> DEFINE free == {s \in Slots : aliveProcess[s] = EMPTY}
           m == Min(free)
<1>1. Slots \in SUBSET Nat
  BY PagingAssumption, FS_CardinalityType DEF Slots
<1>2. free \in SUBSET Nat /\ free # {}
  BY <1>1, FreeSlot
<1>3. m \in free
  <2>1. \E x \in free : \A y \in free : x <= y
    BY <1>2, Least
  <2> QED
    BY <2>1 DEF Min
<1>4. Occupy(p) = [aliveProcess EXCEPT ![m] = p]
  BY DEF Occupy
<1> HIDE DEF m
<1>5. \A s \in Slots : aliveProcess[s] # p
  BY DEF isAlive
<1> QED
  BY <1>3, <1>4, <1>5 DEF PagingTypes, InOneSlot

\* After the first page nothing is stored: all pages of a process together
\* leave behind what its first page does.
LEMMA StoreAllIs ==
  ASSUME PagingTypes, NEW p \in Letters
  PROVE  StoreAll(p) = putInBackStore(backMem, 0)
<1> DEFINE
    v == validPages[p]
    first == putInBackStore(backMem, 0)
    Stores(st) == st = [n \in 0 .. v |->
      IF n = 0 THEN backMem ELSE putInBackStore(st[n - 1], n - 1)]
<1>1. v \in Nat \ {0}
  BY PagingAssumption DEF PagingTypes
<1>2. first = [b \in DOMAIN backMem |->
                 IF backMem[b] = NoPage THEN 0 ELSE backMem[b]]
  BY DEF putInBackStore
<1>3. \A b \in DOMAIN backMem : first[b] # NoPage
  BY <1>2 DEF NoPage
<1>4. \A page : putInBackStore(first, page) = first
  <2>1. ASSUME NEW page
        PROVE  [b \in DOMAIN first |-> IF first[b] = NoPage THEN page
                                       ELSE first[b]]
                 = [b \in DOMAIN first |-> first[b]]
    BY <1>2, <1>3
  <2>2. first = [b \in DOMAIN first |-> first[b]]
    BY <1>2
  <2> QED
    BY <2>1, <2>2 DEF putInBackStore
<1> HIDE DEF first
<1>5. \E st : Stores(st)
  <2> DEFINE w == [n \in 0 .. v |-> IF n = 0 THEN backMem ELSE first]
  <2>1. ASSUME NEW n \in 0 .. v, n # 0
        PROVE  putInBackStore(w[n - 1], n - 1) = first
    <3>1. CASE n = 1
      BY <1>1, <3>1 DEF first
    <3>2. CASE n # 1
      <4>1. n - 1 \in 0 .. v /\ n - 1 # 0
        BY <1>1, <2>1, <3>2
      <4>2. w[n - 1] = first
        BY <4>1
      <4> QED
        BY <1>4, <4>2
    <3> QED
      BY <3>1, <3>2
  <2>2. w = [n \in 0 .. v |->
      IF n = 0 THEN backMem ELSE putInBackStore(w[n - 1], n - 1)]
    BY <2>1
  <2> QED
    BY <2>2
<1>6. \E st : Stores(st) /\ StoreAll(p) = st[v]
  BY <1>5 DEF StoreAll
<1>7. PICK st : Stores(st) /\ StoreAll(p) = st[v]
  BY <1>6
<1> DEFINE Others == {n \in 1 .. v : st[n] # first}
<1>8. Others = {}
  <2> SUFFICES ASSUME Others # {} PROVE FALSE
    OBVIOUS
  <2>1. Others \in SUBSET Nat
    BY <1>1
  <2>2. PICK n \in Others : \A m \in Others : n <= m
    BY <2>1, Least
  <2>3. n \in 0 .. v /\ n # 0 /\ st[n] # first
    BY <1>1, <2>2
  <2>4. st[n] = putInBackStore(st[n - 1], n - 1)
    BY <1>7, <2>3
  <2>5. CASE n = 1
    <3>1. st[0] = backMem
      BY <1>1, <1>7
    <3> QED
      BY <2>3, <2>4, <2>5, <3>1 DEF first
  <2>6. CASE n # 1
    <3>1. n - 1 \in 1 .. v /\ ~(n <= n - 1)
      BY <1>1, <2>3, <2>6
    <3>2. st[n - 1] = first
      BY <2>2, <3>1
    <3> QED
      BY <1>4, <2>3, <2>4, <3>2
  <2> QED
    BY <2>5, <2>6
<1>9. st[v] = first
  BY <1>1, <1>8
<1> QED
  BY <1>7, <1>9 DEF first

\* Storing keeps the type of the back store.
LEMMA StoreAllKeeps ==
  ASSUME PagingTypes, NEW p \in Letters
  PROVE  StoreAll(p) \in [MemCells -> Pages \cup {GARBAGE}]
<1>1. DOMAIN backMem = MemCells /\ 0 \in Pages
  BY DEF PagingTypes, Pages
<1>2. StoreAll(p) = [b \in MemCells |->
                       IF backMem[b] = NoPage THEN 0 ELSE backMem[b]]
  BY <1>1, StoreAllIs DEF putInBackStore
<1> QED
  BY <1>1, <1>2 DEF PagingTypes

LEMMA PagingStart == PagingInit => PagingInv
<1> SUFFICES ASSUME PagingInit PROVE PagingInv
  OBVIOUS
<1>1. PagingTypes
  <2>1. timeAlive \in [Letters -> Nat \ {0}]
    <3>1. timeAlive \in [Letters -> Lifetimes] /\ Lifetimes \subseteq Nat \ {0}
      BY PagingAssumption DEF PagingInit
    <3> QED
      BY <3>1
  <2>2. /\ aliveProcess \in [Slots -> Letters \cup {EMPTY}]
        /\ backMem \in [MemCells -> Pages \cup {GARBAGE}] /\ pTable \in Pages
    BY DEF PagingInit, Pages, MemCells
  <2>3. validPages \in [Letters -> PageCounts] /\ crashed \in BOOLEAN
    BY DEF PagingInit
  <2>4. touches \in 0 .. MaxTouches
    <3>1. touches = 0 /\ MaxTouches \in Nat
      BY PagingAssumption DEF PagingInit
    <3> QED
      BY <3>1
  <2> QED
    BY <2>1, <2>2, <2>3, <2>4 DEF PagingTypes
<1> QED
  BY <1>1 DEF PagingInit, PagingInv, InOneSlot

\* The page the page table is left with.
LEMMA LastPage ==
  ASSUME PagingTypes, NEW p \in Letters
  PROVE  validPages[p] - 1 \in Pages
<1>1. validPages[p] \in Nat \ {0}
  BY PagingAssumption DEF PagingTypes
<1> QED
  BY <1>1 DEF Pages

LEMMA TouchKeeps ==
  ASSUME PagingInv, NEW p \in Letters, Touch(p)
  PROVE  PagingInv'
<1>1. /\ validPages' = validPages /\ timeAlive' \in [Letters -> Nat \ {0}]
      /\ touches' \in 0 .. MaxTouches /\ crashed' \in BOOLEAN
  BY PagingAssumption DEF Touch, PagingInv, PagingTypes
<1>2. CASE isAlive(p)
  <2>1. UNCHANGED <<aliveProcess, pTable, backMem>>
    BY <1>2 DEF Touch, Load
  <2> QED
    BY <1>1, <2>1 DEF PagingInv, PagingTypes, InOneSlot
<1>3. CASE ~isAlive(p)
  <2>1. /\ aliveProcess' = Occupy(p) /\ backMem' = StoreAll(p)
        /\ pTable' = validPages[p] - 1
    BY <1>3 DEF Touch, Load
  <2>2. pTable' \in Pages
    BY <2>1, LastPage DEF PagingInv
  <2>3. aliveProcess' \in [Slots -> Letters \cup {EMPTY}] /\ InOneSlot'
    BY <1>3, <2>1, OccupyIs DEF PagingInv, InOneSlot
  <2>4. backMem' \in [MemCells -> Pages \cup {GARBAGE}]
    BY <2>1, StoreAllKeeps DEF PagingInv
  <2> QED
    BY <1>1, <2>2, <2>3, <2>4 DEF PagingInv, PagingTypes
<1> QED
  BY <1>2, <1>3

LEMMA TouchLastKeeps ==
  ASSUME PagingInv, NEW p \in Letters, TouchLast(p)
  PROVE  PagingInv'
<1> DEFINE loaded == IF isAlive(p) THEN aliveProcess ELSE Occupy(p)
           stored == IF isAlive(p) THEN backMem ELSE StoreAll(p)
<1>1. /\ validPages' = validPages /\ timeAlive' \in [Letters -> Nat \ {0}]
      /\ touches' \in 0 .. MaxTouches /\ crashed' \in BOOLEAN
  <2>1. \E n \in Nat \ {0} : timeAlive' = [timeAlive EXCEPT ![p] = n]
    BY PagingAssumption DEF TouchLast, Renewed
  <2>2. timeAlive' \in [Letters -> Nat \ {0}]
    BY <2>1 DEF PagingInv, PagingTypes
  <2>3. touches' \in 0 .. MaxTouches
    BY PagingAssumption DEF TouchLast, PagingInv, PagingTypes
  <2> QED
    BY <2>2, <2>3 DEF TouchLast
<1>2. pTable' \in Pages
  BY LastPage DEF TouchLast, PagingInv, PagingTypes
<1>3. loaded \in [Slots -> Letters \cup {EMPTY}]
      /\ \A s, t \in Slots : loaded[s] = loaded[t] => s = t \/ loaded[s] = EMPTY
  BY OccupyIs DEF PagingInv, PagingTypes, InOneSlot
<1>4. stored \in [MemCells -> Pages \cup {GARBAGE}]
  BY StoreAllKeeps DEF PagingInv, PagingTypes
<1>5. /\ aliveProcess' = [s \in Slots |-> IF loaded[s] = p THEN EMPTY
                                                           ELSE loaded[s]]
      /\ \/ backMem' = stored
         \/ backMem' = [b \in DOMAIN stored |-> IF b \in Overlaid THEN GARBAGE
                                                ELSE stored[b]]
  BY DEF TouchLast
<1> HIDE DEF loaded, stored
<1>6. aliveProcess' \in [Slots -> Letters \cup {EMPTY}] /\ InOneSlot'
  BY <1>3, <1>5 DEF InOneSlot
<1>7. backMem' \in [MemCells -> Pages \cup {GARBAGE}]
  BY <1>4, <1>5
<1> QED
  BY <1>1, <1>2, <1>6, <1>7 DEF PagingInv, PagingTypes

\* The invariant of the simulation.
THEOREM PagingInvariance == PagingSpec => []PagingInv
<1>1. PagingInv /\ [PagingNext]_pagingVars => PagingInv'
  <2> SUFFICES ASSUME PagingInv, [PagingNext]_pagingVars PROVE PagingInv'
    OBVIOUS
  <2>1. CASE PagingNext
    BY <2>1, TouchKeeps, TouchLastKeeps DEF PagingNext
  <2>2. CASE UNCHANGED pagingVars
    BY <2>2 DEF pagingVars, PagingInv, PagingTypes, InOneSlot
  <2> QED
    BY <2>1, <2>2
<1> QED
  BY <1>1, PagingStart, PTL DEF PagingSpec

\* Every variable has its type.
THEOREM PagingTypeCorrect == PagingSpec => []PagingTypeOK
<1>1. PagingInv => PagingTypeOK
  BY DEF PagingInv, PagingTypes, PagingTypeOK, Pages, MemCells
<1> QED
  BY <1>1, PagingInvariance, PTL

\* A process is alive in one slot at most and a slot is free, over any number
\* of deaths.
THEOREM ProcessesLiveOnce == PagingSpec => []AliveOnce
<1>1. PagingInv => AliveOnce
  BY FreeSlot DEF PagingInv, InOneSlot, AliveOnce
<1> QED
  BY <1>1, PagingInvariance, PTL

-----------------------------------------------------------------------------
(***************************************************************************)
(* LinkedList.  The nodes of the list, in order, are a sequence without a  *)
(* repetition, which next and prev follow; an insertion puts one more into *)
(* it, wherever it is, and Walk finds it.                                  *)
(***************************************************************************)
ListTypes ==
  /\ size \in Int /\ alloc \in SUBSET Nodes
  /\ head \in Pointers /\ tail \in Pointers
  /\ next \in [Nodes -> Pointers] /\ prev \in [Nodes -> Pointers]

\* s holds the m nodes of the list, in order.
Strung(s, m) ==
  /\ s \in [1 .. m -> Nodes]
  /\ \A i, k \in 1 .. m : s[i] = s[k] => i = k
  /\ \A n \in Nodes : n \in alloc <=> \E i \in 1 .. m : s[i] = n
  /\ m = 0 => head = NULL
  /\ m # 0 => /\ head = s[1] /\ prev[s[1]] = NULL
              /\ tail = s[m] /\ next[s[m]] = NULL
  /\ \A i \in 1 .. m - 1 : next[s[i]] = s[i + 1] /\ prev[s[i + 1]] = s[i]

\* size is at most the number of nodes.
ListInv ==
  ListTypes /\ \E m \in Nat : \E s : Strung(s, m) /\ size <= m

\* The nodes that a walk from the head comes to are those of the list.
LEMMA WalkIs ==
  ASSUME ListTypes, NEW m \in Nat, NEW s, Strung(s, m)
  PROVE  Walk = s /\ m = Cardinality(alloc)
<1> DEFINE
    C == Cardinality(Nodes)
    Path(st) == st = [i \in 1 .. C |->
      IF i = 1 THEN head
      ELSE IF st[i - 1] = NULL THEN NULL ELSE next[st[i - 1]]]
    w == [i \in 1 .. C |-> IF i <= m THEN s[i] ELSE NULL]
<1>1. C \in Nat /\ m <= C /\ m = Cardinality(alloc)
  <2>1. C \in Nat /\ IsFiniteSet(alloc) /\ Cardinality(alloc) <= C
    BY NodesAssumption, FS_CardinalityType, FS_Subset DEF ListTypes
  <2>2. IsFiniteSet(1 .. m) /\ Cardinality(1 .. m) = m
    BY FS_Interval
  <2>3. s \in Bijection(1 .. m, alloc)
    <3>1. s \in [1 .. m -> alloc]
      BY DEF Strung
    <3>2. \A n \in alloc : \E i \in 1 .. m : s[i] = n
      BY DEF Strung, ListTypes
    <3>3. \A i, k \in 1 .. m : s[i] = s[k] => i = k
      BY DEF Strung
    <3> QED
      BY <3>1, <3>2, <3>3 DEF Bijection, Injection, Surjection, IsInjective
  <2>4. Cardinality(alloc) = m
    BY <2>2, <2>3, FS_Bijection DEF ExistsBijection
  <2> QED
    BY <2>1, <2>4
<1> HIDE DEF C
<1>2. \A i \in 1 .. m : s[i] \in Nodes /\ s[i] # NULL
  BY NodesAssumption DEF Strung
<1>3. Path(w)
  <2>1. ASSUME NEW i \in 1 .. C
        PROVE  w[i] = IF i = 1 THEN head
                      ELSE IF w[i - 1] = NULL THEN NULL ELSE next[w[i - 1]]
    <3>1. CASE i = 1
      BY <3>1, <1>1 DEF Strung
    <3>2. CASE i # 1 /\ i <= m
      <4>1. i - 1 \in 1 .. C /\ i - 1 \in 1 .. m - 1 /\ i - 1 <= m
            /\ (i - 1) + 1 = i /\ i - 1 \in 1 .. m
        BY <1>1, <3>2
      <4>2. w[i - 1] = s[i - 1] /\ next[s[i - 1]] = s[i] /\ w[i] = s[i]
        BY <4>1, <3>2 DEF Strung
      <4> QED
        BY <1>2, <3>2, <4>1, <4>2
    <3>3. CASE i # 1 /\ i = m + 1
      <4>1. i - 1 \in 1 .. C /\ i - 1 = m /\ m # 0 /\ m \in 1 .. m /\ ~(i <= m)
        BY <1>1, <3>3
      <4>2. w[i - 1] = s[m] /\ next[s[m]] = NULL /\ w[i] = NULL
        BY <4>1 DEF Strung
      <4> QED
        BY <1>2, <3>3, <4>1, <4>2
    <3>4. CASE i > m + 1
      <4>1. i - 1 \in 1 .. C /\ ~(i - 1 <= m) /\ ~(i <= m) /\ i # 1
        BY <1>1, <3>4
      <4> QED
        BY <4>1
    <3> QED
      BY <3>1, <3>2, <3>3, <3>4
  <2> QED
    BY <2>1
<1>4. \E st : Path(st) /\ Walk = [i \in 1 .. Cardinality({i \in 1 .. C : st[i] # NULL})
                                  |-> st[i]]
  <2>1. \E st : Path(st)
    BY <1>3
  <2> QED
    BY <2>1 DEF Walk, C
<1>5. PICK st : Path(st) /\ Walk = [i \in 1 .. Cardinality({i \in 1 .. C : st[i] # NULL})
                                    |-> st[i]]
  BY <1>4
<1> DEFINE Others == {i \in 1 .. C : st[i] # w[i]}
<1>6. Others = {}
  <2> SUFFICES ASSUME Others # {} PROVE FALSE
    OBVIOUS
  <2>1. Others \in SUBSET Nat
    BY <1>1
  <2>2. PICK i \in Others : \A k \in Others : i <= k
    BY <2>1, Least
  <2>3. i \in 1 .. C /\ st[i] # w[i]
    BY <2>2
  <2>4. CASE i = 1
    BY <1>1, <1>5, <2>3, <2>4 DEF Strung
  <2>5. CASE i # 1
    <3>1. i - 1 \in 1 .. C /\ ~(i <= i - 1)
      BY <1>1, <2>3, <2>5
    <3>2. st[i - 1] = w[i - 1]
      BY <2>2, <3>1
    <3>3. st[i] = IF st[i - 1] = NULL THEN NULL ELSE next[st[i - 1]]
      BY <1>5, <2>3, <2>5
    <3>4. w[i] = IF w[i - 1] = NULL THEN NULL ELSE next[w[i - 1]]
      BY <1>3, <2>3, <2>5
    <3> QED
      BY <2>3, <3>2, <3>3, <3>4
  <2> QED
    BY <2>4, <2>5
<1>7. \A i \in 1 .. C : st[i] = IF i <= m THEN s[i] ELSE NULL
  BY <1>6
<1> HIDE DEF w
<1>8. {i \in 1 .. C : st[i] # NULL} = 1 .. m
  BY <1>1, <1>2, <1>7
<1>9. Walk = [i \in 1 .. m |-> st[i]]
  <2>1. Cardinality(1 .. m) = m
    BY FS_Interval
  <2> QED
    BY <1>5, <1>8, <2>1
<1>10. \A i \in 1 .. m : st[i] = s[i]
  BY <1>1, <1>7
<1>11. s = [i \in 1 .. m |-> s[i]]
  BY DEF Strung
<1> QED
  BY <1>1, <1>9, <1>10, <1>11

\* A list one longer: t is the p-th of its nodes, and its neighbours are linked
\* to it.
LEMMA InsertedIs ==
  ASSUME ListTypes, ListTypes', NEW m \in Nat, NEW s, Strung(s, m), size' <= m + 1,
         NEW t \in Nodes \ alloc, alloc' = alloc \cup {t},
         NEW p \in 1 .. m + 1,
         head' = IF p = 1 THEN t ELSE head,
         tail' = IF p = m + 1 THEN t ELSE tail,
         next'[t] = IF p = m + 1 THEN NULL ELSE s[p],
         prev'[t] = IF p = 1 THEN NULL ELSE s[p - 1],
         \A k \in 1 .. m : next'[s[k]] = IF k = p - 1 THEN t ELSE next[s[k]],
         \A k \in 1 .. m : prev'[s[k]] = IF k = p THEN t ELSE prev[s[k]]
  PROVE  ListInv'
<1> DEFINE r == [k \in 1 .. m + 1 |-> IF k < p THEN s[k]
                                      ELSE IF k = p THEN t ELSE s[k - 1]]
<1>1. \A k \in 1 .. m : s[k] \in Nodes /\ s[k] \in alloc /\ s[k] # t
  BY DEF Strung
<1>2. /\ \A k \in 1 .. p - 1 : k \in 1 .. m /\ k \in 1 .. m + 1 /\ k < p
      /\ \A k \in p + 1 .. m + 1 : /\ k - 1 \in 1 .. m /\ ~(k < p) /\ k # p
                                   /\ k \in 1 .. m + 1
      /\ \A k \in 1 .. m + 1 : \/ k \in 1 .. p - 1
                               \/ k = p
                               \/ k \in p + 1 .. m + 1
      /\ p \in 1 .. m + 1 /\ ~(p < p)
  OBVIOUS
<1>3. /\ \A k \in 1 .. p - 1 : r[k] = s[k]
      /\ r[p] = t
      /\ \A k \in p + 1 .. m + 1 : r[k] = s[k - 1]
  BY <1>2
<1>4. r \in [1 .. m + 1 -> Nodes]
  <2>1. \A k \in 1 .. m + 1 : r[k] \in Nodes
    BY <1>1, <1>2, <1>3
  <2> QED
    BY <2>1
<1> HIDE DEF r
<1>5. \A i, h \in 1 .. m + 1 : r[i] = r[h] => i = h
  <2> SUFFICES ASSUME NEW i \in 1 .. m + 1, NEW h \in 1 .. m + 1, r[i] = r[h]
               PROVE  i = h
    OBVIOUS
  <2>1. \A k, l \in 1 .. m : s[k] = s[l] => k = l
    BY DEF Strung
  <2>2. CASE i = p \/ h = p
    BY <1>1, <1>2, <1>3, <2>2
  <2>3. CASE i \in 1 .. p - 1 /\ h \in 1 .. p - 1
    BY <1>2, <1>3, <2>1, <2>3
  <2>4. CASE i \in 1 .. p - 1 /\ h \in p + 1 .. m + 1
    <3>1. i = h - 1
      BY <1>2, <1>3, <2>1, <2>4
    <3> QED
      BY <2>4, <3>1
  <2>5. CASE i \in p + 1 .. m + 1 /\ h \in 1 .. p - 1
    <3>1. i - 1 = h
      BY <1>2, <1>3, <2>1, <2>5
    <3> QED
      BY <2>5, <3>1
  <2>6. CASE i \in p + 1 .. m + 1 /\ h \in p + 1 .. m + 1
    <3>1. i - 1 = h - 1
      BY <1>2, <1>3, <2>1, <2>6
    <3> QED
      BY <3>1
  <2> QED
    BY <1>2, <2>2, <2>3, <2>4, <2>5, <2>6
<1>6. \A n \in Nodes : n \in alloc' <=> \E i \in 1 .. m + 1 : r[i] = n
  <2> SUFFICES ASSUME NEW n \in Nodes
               PROVE  n \in alloc' <=> \E i \in 1 .. m + 1 : r[i] = n
    OBVIOUS
  <2>1. ASSUME NEW i \in 1 .. m + 1, r[i] = n PROVE n \in alloc'
    BY <1>1, <1>2, <1>3, <2>1
  <2>2. ASSUME n \in alloc' PROVE \E i \in 1 .. m + 1 : r[i] = n
    <3>1. CASE n = t
      BY <1>2, <1>3, <3>1
    <3>2. CASE n # t
      <4>1. PICK i \in 1 .. m : s[i] = n
        BY <2>2, <3>2 DEF Strung
      <4>2. CASE i < p
        <5>1. i \in 1 .. p - 1 /\ i \in 1 .. m + 1
          BY <4>2
        <5> QED
          BY <1>3, <4>1, <5>1
      <4>3. CASE ~(i < p)
        <5>1. i + 1 \in p + 1 .. m + 1 /\ i + 1 \in 1 .. m + 1 /\ (i + 1) - 1 = i
          BY <4>3
        <5>2. r[i + 1] = s[i]
          BY <1>3, <5>1
        <5> QED
          BY <4>1, <5>1, <5>2
      <4> QED
        BY <4>2, <4>3
    <3> QED
      BY <3>1, <3>2
  <2> QED
    BY <2>1, <2>2
<1>7. head' = r[1] /\ prev'[r[1]] = NULL
  <2>1. CASE p = 1
    BY <1>3, <2>1
  <2>2. CASE p # 1
    <3>1. 1 \in 1 .. p - 1 /\ 1 \in 1 .. m /\ m # 0
      BY <2>2
    <3>2. r[1] = s[1] /\ head = s[1] /\ prev[s[1]] = NULL
      BY <1>3, <3>1 DEF Strung
    <3> QED
      BY <2>2, <3>1, <3>2
  <2> QED
    BY <2>1, <2>2
<1>8. tail' = r[m + 1] /\ next'[r[m + 1]] = NULL
  <2>1. CASE p = m + 1
    BY <1>3, <2>1
  <2>2. CASE p # m + 1
    <3>1. /\ m + 1 \in p + 1 .. m + 1 /\ m \in 1 .. m /\ m # 0 /\ (m + 1) - 1 = m
          /\ m # p - 1
      BY <2>2
    <3>2. r[m + 1] = s[m] /\ tail = s[m] /\ next[s[m]] = NULL
      BY <1>3, <3>1 DEF Strung
    <3> QED
      BY <2>2, <3>1, <3>2
  <2> QED
    BY <2>1, <2>2
<1>9. ASSUME NEW i \in 1 .. m
      PROVE  next'[r[i]] = r[i + 1] /\ prev'[r[i + 1]] = r[i]
  <2>1. CASE i + 1 < p
    <3>1. /\ i \in 1 .. p - 1 /\ i + 1 \in 1 .. p - 1 /\ i \in 1 .. m - 1
          /\ i + 1 \in 1 .. m /\ i # p - 1 /\ i + 1 # p
      BY <2>1
    <3>2. /\ r[i] = s[i] /\ r[i + 1] = s[i + 1]
          /\ next[s[i]] = s[i + 1] /\ prev[s[i + 1]] = s[i]
      BY <1>3, <3>1 DEF Strung
    <3> QED
      BY <3>1, <3>2
  <2>2. CASE i + 1 = p
    <3>1. i \in 1 .. p - 1 /\ p # 1 /\ i = p - 1
      BY <2>2
    <3>2. r[i] = s[i] /\ r[i + 1] = t
      BY <1>3, <2>2, <3>1
    <3> QED
      BY <3>1, <3>2
  <2>3. CASE i = p
    <3>1. i + 1 \in p + 1 .. m + 1 /\ (i + 1) - 1 = i /\ p # m + 1
      BY <2>3
    <3>2. r[i] = t /\ r[i + 1] = s[i]
      BY <1>3, <2>3, <3>1
    <3> QED
      BY <2>3, <3>1, <3>2
  <2>4. CASE i > p
    <3>1. /\ i \in p + 1 .. m + 1 /\ i + 1 \in p + 1 .. m + 1
          /\ (i + 1) - 1 = i /\ i - 1 \in 1 .. m - 1 /\ (i - 1) + 1 = i
          /\ i - 1 \in 1 .. m /\ i - 1 # p - 1 /\ i # p
      BY <2>4
    <3>2. /\ r[i] = s[i - 1] /\ r[i + 1] = s[i]
          /\ next[s[i - 1]] = s[i] /\ prev[s[i]] = s[i - 1]
      <4>1. next[s[i - 1]] = s[(i - 1) + 1] /\ prev[s[(i - 1) + 1]] = s[i - 1]
        BY <3>1 DEF Strung
      <4> QED
        BY <1>3, <3>1, <4>1
    <3> QED
      BY <3>1, <3>2
  <2> QED
    BY <2>1, <2>2, <2>3, <2>4
<1>10. m + 1 \in Nat /\ m + 1 # 0 /\ (m + 1) - 1 = m
  OBVIOUS
<1>11. Strung(r, m + 1)'
  BY <1>4, <1>5, <1>6, <1>7, <1>8, <1>9, <1>10 DEF Strung
<1> QED
  BY <1>10, <1>11 DEF ListInv

LEMMA StringLength ==
  ASSUME NEW m \in Nat, NEW s, Strung(s, m)
  PROVE  Len(s) = m /\ DOMAIN s = 1 .. m
<1>1. s = [i \in 1 .. m |-> s[i]] /\ \A i \in 1 .. m : s[i] \in Nodes
  BY DEF Strung
<1>2. Len([i \in 1 .. m |-> s[i]]) = m
  BY <1>1
<1> QED
  BY <1>1, <1>2

LEMMA ListStart == Init => ListInv
<1> SUFFICES ASSUME Init PROVE ListInv
  OBVIOUS
<1>1. ListTypes
  BY DEF Init, ListTypes, Pointers
<1>2. Strung(<<>>, 0) /\ size <= 0
  BY DEF Init, Strung
<1> QED
  BY <1>1, <1>2 DEF ListInv

LEMMA InsertKeeps ==
  ASSUME ListInv, NEW n \in alloc \cup {NULL}, Insert(n)
  PROVE  ListInv'
<1>1. PICK t \in Nodes \ alloc :
        /\ alloc' = alloc \cup {t}
        /\ InsertAtHead(n, t) \/ InsertAtTail(n, t) \/ InsertBefore(n, t)
  BY DEF Insert
<1>2. PICK m \in Nat : \E s : Strung(s, m) /\ size <= m
  BY DEF ListInv
<1>3. PICK s : Strung(s, m) /\ size <= m
  BY <1>2
<1>4. /\ \A k \in 1 .. m : s[k] \in Nodes /\ s[k] # t /\ s[k] # NULL
      /\ \A k, l \in 1 .. m : s[k] = s[l] => k = l
      /\ t # NULL /\ alloc \subseteq Nodes
  BY <1>1, <1>3, NodesAssumption DEF Strung, ListInv, ListTypes
<1>5. /\ head = NULL <=> m = 0
      /\ m # 0 => 1 \in 1 .. m /\ m \in 1 .. m /\ head = s[1] /\ tail = s[m]
  BY <1>3, <1>4 DEF Strung
<1>6. CASE InsertAtHead(n, t)
  <2>1. ListTypes' /\ size' <= m + 1
    BY <1>1, <1>3, <1>6 DEF InsertAtHead, ListInv, ListTypes, Pointers
  <2>2. head' = t /\ tail' = IF 1 = m + 1 THEN t ELSE tail
    BY <1>5, <1>6 DEF InsertAtHead
  <2>3. next'[t] = IF 1 = m + 1 THEN NULL ELSE s[1]
    BY <1>5, <1>6 DEF InsertAtHead, ListInv, ListTypes
  <2>4. prev'[t] = NULL
    BY <1>6 DEF InsertAtHead
  <2>5. \A k \in 1 .. m : next'[s[k]] = IF k = 1 - 1 THEN t ELSE next[s[k]]
    BY <1>4, <1>6 DEF InsertAtHead, ListInv, ListTypes
  <2>6. \A k \in 1 .. m : prev'[s[k]] = IF k = 1 THEN t ELSE prev[s[k]]
    BY <1>4, <1>5, <1>6 DEF InsertAtHead
  <2>7. 1 \in 1 .. m + 1
    OBVIOUS
  <2> QED
    BY <1>1, <1>3, <2>1, <2>2, <2>3, <2>4, <2>5, <2>6, <2>7, InsertedIs
       DEF ListInv
<1>7. CASE InsertAtTail(n, t)
  <2>1. m # 0 /\ n = s[m] /\ tail = s[m] /\ m \in 1 .. m /\ m + 1 \in 1 .. m + 1
        /\ m + 1 # 1 /\ (m + 1) - 1 = m
    <3>1. n \in alloc
      BY <1>7 DEF InsertAtTail
    <3>2. m # 0
      BY <1>3, <3>1, <1>4 DEF Strung
    <3> QED
      BY <1>5, <1>7, <3>2 DEF InsertAtTail
  <2>2. ListTypes' /\ size' <= m + 1
    BY <1>1, <1>3, <1>7 DEF InsertAtTail, ListInv, ListTypes, Pointers
  <2>3. head' = head /\ tail' = t /\ next'[t] = NULL /\ prev'[t] = s[m]
    BY <1>4, <1>7, <2>1 DEF InsertAtTail, ListInv, ListTypes
  <2>4. \A k \in 1 .. m : next'[s[k]] = IF k = m THEN t ELSE next[s[k]]
    BY <1>4, <1>7, <2>1 DEF InsertAtTail, ListInv, ListTypes
  <2>5. \A k \in 1 .. m : prev'[s[k]] = IF k = m + 1 THEN t ELSE prev[s[k]]
    BY <1>4, <1>7 DEF InsertAtTail, ListInv, ListTypes
  <2> QED
    BY <1>1, <1>3, <2>1, <2>2, <2>3, <2>4, <2>5, InsertedIs DEF ListInv
<1>8. CASE InsertBefore(n, t)
  <2>1. PICK p \in 1 .. m : s[p] = n
    <3>1. n \in alloc
      BY <1>8, <1>4 DEF InsertBefore
    <3> QED
      BY <1>3, <1>4, <3>1 DEF Strung
  <2>2. /\ p # 1 /\ p # m /\ p # m + 1 /\ p \in 1 .. m + 1
        /\ p - 1 \in 1 .. m - 1 /\ p - 1 \in 1 .. m /\ (p - 1) + 1 = p
    BY <1>5, <1>8, <2>1 DEF InsertBefore
  <2>3. prev[n] = s[p - 1]
    <3>1. prev[s[(p - 1) + 1]] = s[p - 1]
      BY <1>3, <2>2 DEF Strung
    <3> QED
      BY <2>1, <2>2, <3>1
  <2>4. ListTypes' /\ size' <= m + 1
    <3>1. /\ n \in Nodes /\ s[p - 1] \in Nodes /\ t \in Nodes
          /\ next' = [next EXCEPT ![t] = n, ![s[p - 1]] = t]
          /\ prev' = [prev EXCEPT ![t] = s[p - 1], ![n] = t]
      BY <1>4, <1>8, <2>1, <2>2, <2>3 DEF InsertBefore
    <3>2. UNCHANGED <<head, tail, size>>
      BY <1>8 DEF InsertBefore
    <3>3. next' \in [Nodes -> Pointers] /\ prev' \in [Nodes -> Pointers]
      BY <3>1 DEF ListInv, ListTypes, Pointers
    <3> QED
      BY <1>1, <1>3, <3>2, <3>3 DEF ListInv, ListTypes
  <2>5. head' = head /\ tail' = tail /\ next'[t] = s[p] /\ prev'[t] = s[p - 1]
    BY <1>4, <1>8, <2>1, <2>2, <2>3 DEF InsertBefore, ListInv, ListTypes
  <2>6. \A k \in 1 .. m : next'[s[k]] = IF k = p - 1 THEN t ELSE next[s[k]]
    BY <1>4, <1>8, <2>2, <2>3 DEF InsertBefore, ListInv, ListTypes
  <2>7. \A k \in 1 .. m : prev'[s[k]] = IF k = p THEN t ELSE prev[s[k]]
    BY <1>4, <1>8, <2>1 DEF InsertBefore, ListInv, ListTypes
  <2> QED
    BY <1>1, <1>3, <2>2, <2>4, <2>5, <2>6, <2>7, InsertedIs DEF ListInv
<1> QED
  BY <1>1, <1>6, <1>7, <1>8

LEMMA RemoveKeeps ==
  ASSUME ListInv, remove
  PROVE  ListInv'
<1>1. PICK m \in Nat : \E s : Strung(s, m) /\ size <= m
  BY DEF ListInv
<1>2. PICK s : Strung(s, m) /\ size <= m
  BY <1>1
<1>3. Walk = s /\ Len(Walk) = m /\ DOMAIN Walk = 1 .. m
  <2>1. Walk = s
    BY <1>2, WalkIs DEF ListInv
  <2>2. Len(s) = m /\ DOMAIN s = 1 .. m
    BY <1>2, StringLength
  <2> QED
    BY <2>1, <2>2
<1>4. alloc' = {}
  BY <1>2, <1>3 DEF remove, Strung, ListInv, ListTypes
<1>5. size' \in Int /\ size' <= 0
  BY <1>2, <1>3 DEF remove, ListInv, ListTypes
<1>6. head' = NULL /\ UNCHANGED <<tail, next, prev>>
  BY DEF remove
<1>7. Strung(<<>>, 0)'
  BY <1>4, <1>6 DEF Strung
<1> QED
  BY <1>4, <1>5, <1>6, <1>7 DEF ListInv, ListTypes, Pointers

\* The invariant of the list.
THEOREM ListInvariance == Spec => []ListInv
<1>1. ListInv /\ [Next]_vars => ListInv'
  <2> SUFFICES ASSUME ListInv, [Next]_vars PROVE ListInv'
    OBVIOUS
  <2>1. CASE Next
    BY <2>1, InsertKeeps, RemoveKeeps DEF Next
  <2>2. CASE UNCHANGED vars
    BY <2>2 DEF vars, ListInv, ListTypes, Strung
  <2> QED
    BY <2>1, <2>2
<1> QED
  BY <1>1, ListStart, PTL DEF Spec

\* The links lead through every node of the list, print() does not run off it
\* and get_nth_element() finds the nodes it should, over any sequence of inserts
\* and removals.
THEOREM ListKeepsItsNodes == Spec => []ListHolds
<1>1. ListInv => ListHolds
  <2> SUFFICES ASSUME ListInv PROVE ListHolds
    OBVIOUS
  <2>1. PICK m \in Nat : \E s : Strung(s, m) /\ size <= m
    BY DEF ListInv
  <2>2. PICK s : Strung(s, m) /\ size <= m
    BY <2>1
  <2>3. Walk = s /\ m = Cardinality(alloc) /\ s \in [1 .. m -> Nodes]
    BY <2>2, WalkIs DEF ListInv, Strung
  <2>4. Len(Walk) = m /\ DOMAIN Walk = 1 .. m
    BY <2>2, <2>3, StringLength
  <2>5. ChainIntact
    <3>1. {Walk[i] : i \in DOMAIN Walk} = alloc
      BY <2>2, <2>3, <2>4 DEF Strung, ListInv, ListTypes
    <3>2. head # NULL => m # 0
      BY <2>2 DEF Strung
    <3> QED
      BY <2>2, <2>3, <2>4, <3>1, <3>2 DEF ChainIntact, Strung
  <2>6. PrintStaysInside
    BY <2>2, <2>3 DEF PrintStaysInside
  <2>7. NthFound
    <3> SUFFICES ASSUME NEW i \in 0 .. Len(Walk) - 1, i # size \/ i = 0
                 PROVE  get_nth_element(i) = Walk[i + 1]
      BY DEF NthFound
    <3>1. i + 1 \in DOMAIN Walk
      BY <2>4
    <3>2. CASE i = 0
      <4>1. m # 0
        BY <2>4
      <4> QED
        BY <2>2, <2>3, <3>2, <4>1 DEF get_nth_element, Strung
    <3>3. CASE i # 0
      BY <3>1, <3>3 DEF get_nth_element
    <3> QED
      BY <3>2, <3>3
  <2> QED
    BY <2>5, <2>6, <2>7 DEF ListHolds
<1> QED
  BY <1>1, ListInvariance, PTL

-----------------------------------------------------------------------------
(***************************************************************************)
(* MCPrograms.  A step of one program leaves the variables of the others   *)
(* as they are, so that each of them behaves as its own specification      *)
(* says.  The routines are given a list, and what they return is merged    *)
(* with another: a list that was sorted stays what it is.                  *)
(***************************************************************************)
\* The steps of all the programs.
AllNext == [MCNext]_<<vars, childVars, dartVars, pagingVars, listVars, program>>

\* Every step is a step of each program, or changes nothing of it.
LEMMA StepsApart ==
  AllNext => /\ [ChildrenNext]_childVars /\ [DartsNext]_dartVars
             /\ [PagingNext]_pagingVars /\ [Next]_vars
<1> SUFFICES ASSUME AllNext
             PROVE  /\ [ChildrenNext]_childVars /\ [DartsNext]_dartVars
                    /\ [PagingNext]_pagingVars /\ [Next]_vars
  OBVIOUS
<1>1. CASE ListNext
  BY <1>1, Zenon DEF ListNext
<1>2. CASE ChildrenStep
  BY <1>2, Zenon DEF ChildrenStep
<1>3. CASE DartsStep
  BY <1>3, Zenon DEF DartsStep
<1>4. CASE PagingStep
  BY <1>4, Zenon DEF PagingStep
<1>5. CASE Sorting
  BY <1>5, Zenon DEF Sorting
<1>6. CASE UNCHANGED <<vars, childVars, dartVars, pagingVars, listVars, program>>
  BY <1>6, Zenon
<1> QED
  BY <1>1, <1>2, <1>3, <1>4, <1>5, <1>6, Zenon DEF AllNext, MCNext

\* Whichever program is run, each behaves as its specification says.
THEOREM ProgramsApart == MCSpec => ChildrenSpec /\ DartsSpec /\ PagingSpec /\ Spec
<1>1. MCInit => ChildrenInit /\ DartsInit /\ PagingInit /\ Init
  BY Zenon DEF MCInit
<1> QED
  BY <1>1, StepsApart, PTL
     DEF MCSpec, AllNext, ChildrenSpec, DartsSpec, PagingSpec, Spec

\* The types of the three programs, whichever is run.
THEOREM ProgramTypesCorrect == MCSpec => []ProgramTypesOK
  BY ProgramsApart, ChildrenTypeCorrect, DartsTypeCorrect, PagingTypeCorrect, PTL
     DEF ProgramTypesOK

\* What a routine has made of its list, and mergeSortedLists() of that.
SortsInv ==
  /\ type \in SortTypes \cup {"merge_sort", "selectionSort"}
  /\ given \in Seq(Int) /\ given # <<>>
  /\ list # <<>> =>
       list \in Seq(Int) /\ Sorted(list) /\ SameNumbers(list, given)
  /\ merged # <<>> =>
       /\ list # <<>>
       /\ \E m \in Seq(Int) : Sorted(m) /\ merged = <<m, mergeSortedLists(list, m)>>

\* A list no longer than MaxLength is a list of numbers.
LEMMA ShortLists ==
  ASSUME NEW l \in Nat, NEW s \in BoundedSeq(Values, l)
  PROVE  s \in Seq(Int)
<1>1. PICK m \in 0 .. l : s \in [1 .. m -> Values]
  BY DEF BoundedSeq, SeqOf
<1>2. s \in [1 .. m -> Int]
  BY <1>1, ListsAssumption
<1> QED
  BY <1>1, <1>2

\* What the routines return.
LEMMA RunSorts ==
  ASSUME NEW A \in Seq(Int), A # <<>>,
         NEW routine \in SortTypes \cup {"merge_sort", "selectionSort"}
  PROVE  LET r == Run(routine, A) IN r \in Seq(Int) /\ Sorted(r) /\ SameNumbers(r, A)
<1>1. /\ "merge_sort" # "selectionSort"
      /\ \A x \in SortTypes : x # "merge_sort" /\ x # "selectionSort"
  BY DEF SortTypes
<1>2. CASE routine = "merge_sort"
  <2>1. Run(routine, A) = merge_sort(A, Len(A))
    BY <1>2, Zenon DEF Run
  <2> QED
    BY <2>1, SortsOfProject4b
<1>3. CASE routine = "selectionSort"
  <2>1. routine # "merge_sort"
    BY <1>1, <1>3
  <2>2. Run(routine, A) = selectionSort(A, Len(A))
    BY <1>3, <2>1, Zenon DEF Run
  <2> QED
    BY <2>2, SortsOfProject4b
<1>4. CASE routine \in SortTypes
  <2>1. routine # "merge_sort" /\ routine # "selectionSort"
    BY <1>1, <1>4
  <2>2. Run(routine, A) = SortOnThread(routine, A)
    BY <2>1, Zenon DEF Run
  <2> QED
    BY <1>4, <2>2, SortOnThreadSorts
<1> QED
  BY <1>2, <1>3, <1>4

\* Nothing has been sorted yet.
LEMMA SortsStart == MCInit => SortsInv
<1> SUFFICES ASSUME MCInit PROVE SortsInv
  OBVIOUS
<1>1. SortingInit
  BY DEF MCInit
<1>2. given \in BoundedSeq(Values, MaxLength) /\ given # <<>>
  BY <1>1 DEF SortingInit, Lists
<1>3. given \in Seq(Int)
  BY <1>2, ListsAssumption, ShortLists
<1> QED
  BY <1>1, <1>2, <1>3 DEF SortingInit, SortsInv

\* A routine returns its list, sorted.
LEMMA SortKeeps ==
  ASSUME SortsInv, Sort
  PROVE  SortsInv'
<1>1. list = <<>> /\ list' = Run(type, given) /\ UNCHANGED <<type, given, merged>>
  BY DEF Sort
<1>2. PICK r : r = Run(type, given)
  OBVIOUS
<1>3. r \in Seq(Int) /\ Sorted(r) /\ SameNumbers(r, given)
  BY <1>2, RunSorts DEF SortsInv
<1>4. merged' = <<>>
  BY <1>1 DEF SortsInv
<1> QED
  BY <1>1, <1>2, <1>3, <1>4, Zenon DEF SortsInv

\* The list is merged with another one that is sorted.
LEMMA MergeKeeps ==
  ASSUME SortsInv, Merge
  PROVE  SortsInv'
<1>1. list # <<>> /\ UNCHANGED <<type, given, list>>
  BY DEF Merge
<1>2. PICK m \in Masters : merged' = <<m, mergeSortedLists(list, m)>>
  BY DEF Merge
<1>3. m \in Seq(Int) /\ Sorted(m)
  <2>1. m \in BoundedSeq(Values, 2) /\ Sorted(m)
    BY DEF Masters
  <2>2. PICK l \in Nat : l = 2
    OBVIOUS
  <2> QED
    BY <2>1, <2>2, ShortLists
<1> QED
  BY <1>1, <1>2, <1>3, Zenon DEF SortsInv

\* The invariant of the routines.
LEMMA SortsInvariance == MCSpec => []SortsInv
<1>1. SortsInv /\ AllNext => SortsInv'
  <2> SUFFICES ASSUME SortsInv, AllNext PROVE SortsInv'
    OBVIOUS
  <2>1. CASE Sorting
    BY <2>1, SortKeeps, MergeKeeps DEF Sorting
  <2>2. CASE UNCHANGED listVars
    BY <2>2, Zenon DEF listVars, SortsInv
  <2>3. Sorting \/ UNCHANGED listVars
    BY Zenon DEF AllNext, MCNext, ListNext, ChildrenStep,
                 DartsStep, PagingStep
  <2> QED
    BY <2>1, <2>2, <2>3
<1> QED
  BY <1>1, SortsStart, PTL DEF MCSpec, AllNext

\* Every routine sorts what it is given and loses no number, and the three merges
\* return one and the same list, sorted, of the numbers of both: for lists of any
\* length and any numbers.
THEOREM RoutinesAlwaysAgree == MCSpec => []RoutinesAgree
<1>1. SortsInv => RoutinesAgree
  <2> SUFFICES ASSUME SortsInv PROVE RoutinesAgree
    OBVIOUS
  <2>1. RoutinesSort
    BY DEF SortsInv, RoutinesSort
  <2>2. MergesAgree
    <3> SUFFICES ASSUME merged # <<>> PROVE MergesAgree
      BY Zenon DEF MergesAgree
    <3>1. list \in Seq(Int) /\ Sorted(list)
      BY DEF SortsInv
    <3>2. PICK m \in Seq(Int) :
            Sorted(m) /\ merged = <<m, mergeSortedLists(list, m)>>
      BY DEF SortsInv
    <3>3. PICK l \in Seq(Int) : l = list
      BY <3>1
    <3>4. PICK r : r = mergeSortedLists(l, m)
      OBVIOUS
    <3>5. Sorted(r) /\ SameNumbers(r, l \o m)
      BY <3>1, <3>2, <3>3, <3>4, MergeSortedListsMerges
    <3>6. r = mergeUnsortedLists(l, m) /\ r = merge(l, m)
      BY <3>4, MergeSortedIsMerge, MergeUnsortedIsMerge
    <3>7. merged[1] = m /\ merged[2] = r
      BY <3>2, <3>3, <3>4
    <3> QED
      BY <3>3, <3>5, <3>6, <3>7 DEF MergesAgree
  <2> QED
    BY <2>1, <2>2 DEF RoutinesAgree
<1> QED
  BY <1>1, SortsInvariance, PTL

=============================================================================
