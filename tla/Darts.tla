------------------------------- MODULE Darts -------------------------------
(***************************************************************************)
(* proj_03/parttwo.cpp and parttwob.cpp: createThreads() shares darts out  *)
(* among threads, which throw them and leave their hits in an array; it    *)
(* joins the threads in turn and adds up what they left.  Where a dart     *)
(* lands is a choice.                                                      *)
(***************************************************************************)
EXTENDS Integers, FiniteSetsExt

CONSTANT Throws       \* <<darts, threads>>: what main calls createThreads with

\* numThreads divides the darts in all the calls of both programs.
PartTwo  == {<<2500, 1>>, <<1000000, 2>>, <<10000000, 10>>}
PartTwoB == {10000000} \X {1, 2, 4, 16, 64}

Divides(calls) == \A w \in calls : w[1] % w[2] = 0

ASSUME ThrowsAssumption ==
  /\ Throws \subseteq Nat \X (Nat \ {0})
  /\ Divides(Throws) /\ Divides(PartTwo) /\ Divides(PartTwoB)

VARIABLES
  numDarts, numThreads,     \* the arguments of createThreads()
  at,                       \* main: "create", "join", "abort", "exited",
                            \* "returned"
  j,                        \* the counter of its loops
  hit,                      \* its sum
  freed,                    \* returnThreads has been freed
  thread,                   \* "none", "throws", "ended", "joined"
  thrown, hits,             \* each thread's i and hit
  result                    \* returnThreads[t].hits; -1 before it is written

dartVars == <<numDarts, numThreads, at, j, hit, freed, thread, thrown, hits,
              result>>

Throwers == 1 .. numThreads

DartsInit ==
  /\ \E w \in Throws : numDarts = w[1] /\ numThreads = w[2]
  /\ at = "create" /\ j = 1 /\ hit = 0 /\ freed = FALSE
  /\ thread = [t \in Throwers |-> "none"]
  /\ thrown = [t \in Throwers |-> 0] /\ hits = [t \in Throwers |-> 0]
  /\ result = [t \in Throwers |-> -1]

\* returnThreads[t].numDarts
Share == numDarts \div numThreads

Running == at \notin {"exited", "returned"}

CreateThread ==
  /\ at = "create" /\ j <= numThreads
  /\ thread' = [thread EXCEPT ![j] = "throws"]
  /\ j' = j + 1
  /\ UNCHANGED <<numDarts, numThreads, at, hit, freed, thrown, hits, result>>

\* pthread_create() fails: the array is freed under the threads that run.
CreateFails ==
  /\ at = "create" /\ j <= numThreads
  /\ at' = "abort" /\ freed' = TRUE
  /\ UNCHANGED <<numDarts, numThreads, j, hit, thread, thrown, hits, result>>

\* exit(1) or exit(3) ends the threads, too.
Abort ==
  /\ at = "abort"
  /\ at' = "exited"
  /\ UNCHANGED <<numDarts, numThreads, j, hit, freed, thread, thrown, hits,
                 result>>

AllCreated ==
  /\ at = "create" /\ j = numThreads + 1
  /\ at' = "join" /\ j' = 1
  /\ UNCHANGED <<numDarts, numThreads, hit, freed, thread, thrown, hits,
                 result>>

\* Mutant of JoinsOver: the last thread is left out.
JoinsOverEarly == j >= numThreads

JoinsOver == j = numThreads + 1

\* Mutant of Joinable: pthread_join() does not wait.
JoinableAnyhow(t) == thread[t] \in {"throws", "ended"}

Joinable(t) == thread[t] = "ended"

JoinThread ==
  /\ at = "join" /\ j <= numThreads
  /\ Joinable(j)
  /\ thread' = [thread EXCEPT ![j] = "joined"]
  /\ hit' = hit + result[j]
  /\ j' = j + 1
  /\ UNCHANGED <<numDarts, numThreads, at, freed, thrown, hits, result>>

\* pthread_join() fails: the same, with the threads that were not joined.
JoinFails ==
  /\ at = "join" /\ j <= numThreads
  /\ at' = "abort" /\ freed' = TRUE
  /\ UNCHANGED <<numDarts, numThreads, j, hit, thread, thrown, hits, result>>

Return ==
  /\ at = "join" /\ JoinsOver
  /\ at' = "returned" /\ freed' = TRUE
  /\ UNCHANGED <<numDarts, numThreads, j, hit, thread, thrown, hits, result>>

\* throwDart(): one dart.
Throw(t) ==
  /\ Running
  /\ thread[t] = "throws" /\ thrown[t] < Share
  /\ thrown' = [thrown EXCEPT ![t] = @ + 1]
  /\ \E inside \in {0, 1} : hits' = [hits EXCEPT ![t] = @ + inside]
  /\ UNCHANGED <<numDarts, numThreads, at, j, hit, freed, thread, result>>

LeaveResult(t) ==
  /\ Running
  /\ thread[t] = "throws" /\ thrown[t] = Share
  /\ result' = [result EXCEPT ![t] = hits[t]]
  /\ thread' = [thread EXCEPT ![t] = "ended"]
  /\ UNCHANGED <<numDarts, numThreads, at, j, hit, freed, thrown, hits>>

DartsMain == CreateThread \/ CreateFails \/ Abort \/ AllCreated
             \/ JoinThread \/ JoinFails \/ Return

DartsNext == DartsMain \/ \E t \in Throwers : Throw(t) \/ LeaveResult(t)

-----------------------------------------------------------------------------
DartsTypeOK ==
  /\ numDarts \in Nat /\ numThreads \in Nat \ {0}
  /\ at \in {"create", "join", "abort", "exited", "returned"}
  /\ j \in 1 .. numThreads + 1
  /\ hit \in 0 .. numDarts
  /\ freed \in BOOLEAN
  /\ thread \in [Throwers -> {"none", "throws", "ended", "joined"}]
  /\ thrown \in [Throwers -> 0 .. numDarts]
  /\ hits \in [Throwers -> 0 .. numDarts]
  /\ result \in [Throwers -> -1 .. numDarts]

\* What main prints adds up: when createThreads() returns, every dart has been
\* thrown, and hit is the number of those inside, over all threads.
EveryDartCounted ==
  at = "returned" =>
    /\ numDarts = MapThenSumSet(LAMBDA t : thrown[t], Throwers)
    /\ hit = MapThenSumSet(LAMBDA t : hits[t], Throwers)

\* When createThreads() returns, and so has freed the array, no thread is left
\* to write to it.  (When main frees it because a thread could not be created
\* or joined, the others may write to it until main has exited.)
WritesBeforeFree ==
  freed /\ at \notin {"abort", "exited"} =>
    \A t \in Throwers : thread[t] = "joined"
=============================================================================
