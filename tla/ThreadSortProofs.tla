-------------------------- MODULE ThreadSortProofs --------------------------
(***************************************************************************)
(* Theorems about ThreadSort, for any lists and for threads that may or    *)
(* may not be created.                                                     *)
(*                                                                         *)
(* The types need more than themselves: that the counter strays no further *)
(* than the number of threads follows from how many main has counted in    *)
(* and how many have counted themselves out when a value of it was read    *)
(* (CounterInv).  IInv adds what the mutex keeps apart, that a thread is   *)
(* started once, and that one thread at most waits for main.               *)
(***************************************************************************)
EXTENDS ThreadSort, SortProofs

Ended == {t \in Threads : pc[t] = "ended"}

\* How many threads main has counted in, at most.
CountedIn == IF mpc \in {"create", "incRead", "incWrite"} THEN k - 1
             ELSE IF k <= N THEN k ELSE N

\* A value of the counter: main has added no more, the threads that ended have
\* taken away no more.
Counts(v) == v \in Int /\ -Cardinality(Ended) <= v /\ v <= CountedIn

CounterInv ==
  /\ Counts(running) /\ Counts(mreg) /\ \A t \in Threads : Counts(reg[t])
  /\ mpc \in {"incRead", "incWrite", "self"} => k \in Threads

\* main has not started the threads it has still to come to.
NotStarted ==
  /\ mpc = "create" => \A t \in Threads : t >= k => pc[t] = "unborn"
  /\ mpc \in {"incRead", "incWrite", "self"} =>
       \A t \in Threads : t > k => pc[t] = "unborn"

\* The thread that holds the mutex, and no other, is between Lock and Unlock.
Exclusion ==
  \A t \in Threads : pc[t] \in {"merge", "assign", "unlock"} <=> lock = t

\* One thread at most waits for main to end.
OneBlocked ==
  \A t, u \in Threads : pc[t] = "blocked" /\ pc[u] = "blocked" => t = u

ThreadStates == {"unborn", "sort", "spin", "join", "blocked", "lock", "merge",
                 "assign", "unlock", "decRead", "decWrite", "ended"}

\* TypeOK, but for the values of the counter.
Types ==
  /\ trial \in Trials /\ numbers \in Lists
  /\ mpc \in Creating \cup {"poll", "finished", "exited", "crashed"}
  /\ k \in 1 .. N + 1
  /\ reg \in [Threads -> Int]
  /\ lock \in 0 .. N
  /\ m_thread \in [Threads -> {"NULL", "thread", "main"}]
  /\ pc \in [Threads -> ThreadStates]

IInv == Types /\ CounterInv /\ NotStarted /\ Exclusion /\ OneBlocked

-----------------------------------------------------------------------------
\* There are two threads or four, and as many all the time.
LEMMA ThreadCount ==
  ASSUME trial \in Trials
  PROVE  N \in {2, 4} /\ Threads = 1 .. N
BY TrialsAssumption DEF N, TrialSorts, Threads

LEMMA SameThreads ==
  ASSUME UNCHANGED trial
  PROVE  N' = N /\ Threads' = Threads
BY DEF N, TrialSorts, Threads

\* The threads that have ended are no more than there are.
LEMMA EndedCount ==
  ASSUME trial \in Trials
  PROVE  /\ IsFiniteSet(Threads) /\ IsFiniteSet(Ended)
         /\ Cardinality(Ended) \in 0 .. N
<1>1. IsFiniteSet(Threads) /\ Cardinality(Threads) = N
  BY ThreadCount, FS_Interval
<1>2. IsFiniteSet(Ended) /\ Cardinality(Ended) <= Cardinality(Threads)
  BY <1>1, FS_Subset DEF Ended
<1> QED
  BY <1>1, <1>2, FS_CardinalityType, ThreadCount

\* The steps between TLC's two sides of TypeOK.
LEMMA TypesOfIInv == IInv => TypeOK
<1> SUFFICES ASSUME IInv PROVE TypeOK
  OBVIOUS
<1>1. N \in {2, 4} /\ Cardinality(Ended) \in 0 .. N
  BY ThreadCount, EndedCount DEF IInv, Types
<1>2. CountedIn \in Int /\ CountedIn <= N
  BY <1>1 DEF IInv, Types, CountedIn
<1>3. \A v : Counts(v) => v \in -N .. N
  BY <1>1, <1>2 DEF Counts
<1>4. reg \in [Threads -> -N .. N]
  BY <1>3 DEF IInv, Types, CounterInv
<1> QED
  BY <1>3, <1>4 DEF IInv, Types, CounterInv, TypeOK, ThreadStates

LEMMA InitIInv == Init => IInv
<1> SUFFICES ASSUME Init PROVE IInv
  OBVIOUS
<1>1. N \in {2, 4} /\ Threads = 1 .. N
  BY ThreadCount DEF Init
<1>2. Ended = {} /\ Cardinality(Ended) = 0
  BY FS_EmptySet DEF Init, Ended
<1>3. Types
  BY <1>1 DEF Init, Types, Creating, ThreadStates
<1>4. Counts(0)
  BY <1>2 DEF Counts, CountedIn, Init
<1>5. CounterInv
  BY <1>1, <1>4 DEF CounterInv, Init
<1>6. NotStarted /\ Exclusion /\ OneBlocked
  BY <1>1 DEF NotStarted, Exclusion, OneBlocked, Init
<1> QED
  BY <1>3, <1>5, <1>6 DEF IInv

-----------------------------------------------------------------------------
(***************************************************************************)
(* The steps of main.                                                      *)
(***************************************************************************)
LEMMA MainTypes ==
  ASSUME IInv, MainStep
  PROVE  Types'
<1> USE DEF IInv, Types, Creating
<1>1. N \in {2, 4} /\ Threads = 1 .. N /\ N' = N /\ Threads' = Threads
  BY ThreadCount, SameThreads DEF MainStep
<1>2. CASE Create
  BY <1>1, <1>2 DEF MainStep, Create, Goto, ThreadStates
<1>3. CASE IncRead \/ IncWrite
  BY <1>1, <1>3 DEF MainStep, IncRead, IncWrite, threadVars
<1>4. CASE TakeSelf
  BY <1>1, <1>4 DEF MainStep, TakeSelf, threadVars, CounterInv
<1>5. CASE AllCreated \/ Poll \/ Write
  BY <1>1, <1>5 DEF MainStep, AllCreated, Poll, Write, threadVars
<1> QED
  BY <1>2, <1>3, <1>4, <1>5 DEF MainStep

\* main adds 1 to a value it read since it counted the last thread in.
LEMMA MainCounter ==
  ASSUME IInv, MainStep
  PROVE  CounterInv'
<1> USE DEF IInv
<1>1. N \in {2, 4} /\ Threads = 1 .. N /\ N' = N /\ Threads' = Threads
  BY ThreadCount, SameThreads DEF MainStep, Types
<1>2. Cardinality(Ended) \in 0 .. N
  BY EndedCount DEF Types
<1>3. Ended' = Ended
  BY <1>1 DEF MainStep, Create, IncRead, IncWrite, TakeSelf, AllCreated, Poll,
     Write, threadVars, Goto, Ended, NotStarted, Types
<1>4. CountedIn \in Int /\ CountedIn' \in Int /\ CountedIn <= CountedIn'
  BY <1>1, MainTypes DEF MainStep, Create, IncRead, IncWrite, TakeSelf, AllCreated, Poll,
     Write, CountedIn, Types, Creating, CounterInv
<1>5. \A v : Counts(v) => Counts(v)'
  BY <1>3, <1>4 DEF Counts
<1>6. mpc' \in {"incRead", "incWrite", "self"} => k' \in Threads'
  BY <1>1 DEF MainStep, Create, IncRead, IncWrite, TakeSelf, AllCreated, Poll,
     Write, CounterInv
<1>7. CASE IncRead
  BY <1>1, <1>5, <1>6, <1>7 DEF IncRead, CounterInv, threadVars
<1>8. CASE IncWrite
  <2>1. CountedIn' = CountedIn + 1
    BY <1>1, <1>8 DEF IncWrite, CountedIn, CounterInv, Types
  <2>2. Counts(running)'
    BY <1>2, <1>3, <1>4, <1>8, <2>1 DEF IncWrite, Counts, CounterInv
  <2> QED
    BY <1>1, <1>5, <1>6, <1>8, <2>2 DEF IncWrite, CounterInv, threadVars
<1>9. CASE Create \/ TakeSelf \/ AllCreated \/ Poll \/ Write
  BY <1>1, <1>5, <1>6, <1>9 DEF Create, TakeSelf, AllCreated, Poll, Write,
     CounterInv, threadVars
<1> QED
  BY <1>7, <1>8, <1>9 DEF MainStep

LEMMA MainRest ==
  ASSUME IInv, MainStep
  PROVE  NotStarted' /\ Exclusion' /\ OneBlocked'
<1> USE DEF IInv
<1>1. N \in {2, 4} /\ Threads = 1 .. N /\ N' = N /\ Threads' = Threads
  BY ThreadCount, SameThreads DEF MainStep, Types
<1>2. lock' = lock
  BY DEF MainStep, Create, IncRead, IncWrite, TakeSelf, AllCreated, Poll, Write
<1>3. \A t \in Threads :
        pc'[t] = pc[t] \/ (pc[t] = "unborn" /\ pc'[t] = "sort")
  BY <1>1 DEF MainStep, Create, IncRead, IncWrite, TakeSelf, AllCreated, Poll,
     Write, threadVars, Goto, NotStarted, Types
<1>4. Exclusion'
  BY <1>1, <1>2, <1>3 DEF Exclusion
<1>5. OneBlocked'
  BY <1>1, <1>3 DEF OneBlocked
<1>6. NotStarted'
  <2>1. CASE Create
    <3>1. k \in 1 .. N /\ \A t \in Threads : t > k => pc'[t] = "unborn"
      BY <1>1, <2>1 DEF Create, Goto, NotStarted, Types
    <3>2. \/ mpc' = "incRead" /\ k' = k
          \/ mpc' = "create" /\ k' = k + 1
      BY <2>1 DEF Create
    <3> QED
      BY <1>1, <3>1, <3>2 DEF NotStarted
  <2>2. CASE IncRead \/ IncWrite \/ TakeSelf
    BY <1>1, <2>2 DEF IncRead, IncWrite, TakeSelf, threadVars, NotStarted,
       Types
  <2>3. CASE AllCreated \/ Poll \/ Write
    BY <2>3 DEF AllCreated, Poll, Write, NotStarted
  <2> QED
    BY <2>1, <2>2, <2>3 DEF MainStep
<1> QED
  BY <1>4, <1>5, <1>6

-----------------------------------------------------------------------------
(***************************************************************************)
(* The steps of a thread.                                                  *)
(***************************************************************************)
\* A thread moves itself from a state in which it was started, and main only
\* by crashing.
LEMMA ThreadMoves ==
  ASSUME IInv, NEW t \in Threads, ThreadStep(t)
  PROVE  /\ pc[t] # "unborn" /\ \A u \in Threads \ {t} : pc'[u] = pc[u]
         /\ pc' \in [Threads -> ThreadStates] /\ pc'[t] # "unborn"
         /\ mpc' \in {mpc, "crashed"} /\ k' = k /\ mreg' = mreg
<1> USE DEF IInv, Types
<1>1. CASE Sort(t)
  BY <1>1 DEF Sort, Goto, ThreadStates
<1>2. CASE Join(t)
  BY <1>2 DEF Join, Goto, mainVars, ThreadStates
<1>3. CASE Lock(t)
  BY <1>3 DEF Lock, Goto, mainVars, ThreadStates
<1>4. CASE Merge(t)
  BY <1>4 DEF Merge, Goto, mainVars, ThreadStates
<1>5. CASE Assign(t)
  BY <1>5 DEF Assign, Goto, mainVars, ThreadStates
<1>6. CASE Unlock(t)
  BY <1>6 DEF Unlock, Goto, mainVars, ThreadStates
<1>7. CASE DecRead(t)
  BY <1>7 DEF DecRead, Goto, mainVars, ThreadStates
<1>8. CASE DecWrite(t)
  BY <1>8 DEF DecWrite, Goto, mainVars, ThreadStates
<1> QED
  BY <1>1, <1>2, <1>3, <1>4, <1>5, <1>6, <1>7, <1>8 DEF ThreadStep

LEMMA ThreadTypes ==
  ASSUME IInv, NEW t \in Threads, ThreadStep(t)
  PROVE  Types'
<1> USE DEF IInv, Types
<1>1. N \in {2, 4} /\ Threads = 1 .. N /\ N' = N /\ Threads' = Threads
  BY ThreadCount, SameThreads DEF ThreadStep
<1>2. m_thread' = m_thread /\ UNCHANGED <<trial, numbers>>
  BY DEF ThreadStep, Sort, Join, Lock, Merge, Assign, Unlock, DecRead, DecWrite
<1>3. lock' \in 0 .. N
  BY <1>1 DEF ThreadStep, Sort, Join, Lock, Merge, Assign, Unlock, DecRead,
     DecWrite
<1>4. running \in Int /\ reg' \in [Threads -> Int]
  BY <1>1 DEF ThreadStep, Sort, Join, Lock, Merge, Assign, Unlock, DecRead,
     DecWrite, CounterInv, Counts
<1> QED
  BY <1>1, <1>2, <1>3, <1>4, ThreadMoves

\* A thread takes 1 from a value that was read before it ended.
LEMMA ThreadCounter ==
  ASSUME IInv, NEW t \in Threads, ThreadStep(t)
  PROVE  CounterInv'
<1> USE DEF IInv
<1>1. N \in {2, 4} /\ Threads = 1 .. N /\ N' = N /\ Threads' = Threads
  BY ThreadCount, SameThreads DEF ThreadStep, Types
<1>2. IsFiniteSet(Ended) /\ Cardinality(Ended) \in 0 .. N
  BY EndedCount DEF Types
<1>3. CountedIn \in Int /\ CountedIn' \in Int /\ CountedIn <= CountedIn'
  <2>1. UNCHANGED <<mpc, k>> \/ (mpc' = "crashed" /\ UNCHANGED k)
    BY DEF ThreadStep, Sort, Join, Lock, Merge, Assign, Unlock, DecRead,
       DecWrite, mainVars
  <2> QED
    BY <1>1, <2>1 DEF CountedIn, Types, Creating
<1>4. mpc' \in {"incRead", "incWrite", "self"} => k' \in Threads'
  BY <1>1 DEF ThreadStep, Sort, Join, Lock, Merge, Assign, Unlock, DecRead,
     DecWrite, mainVars, CounterInv
<1>5. CASE DecWrite(t)
  <2>1. Ended' = Ended \cup {t} /\ t \notin Ended
    BY <1>1, <1>5 DEF DecWrite, Goto, Ended, Types
  <2>2. Cardinality(Ended') = Cardinality(Ended) + 1
    BY <1>2, <2>1, FS_AddElement
  <2>3. \A v : Counts(v) => Counts(v)'
    BY <1>2, <1>3, <2>2 DEF Counts
  <2>4. Counts(running)'
    <3>1. Counts(reg[t]) /\ running' = reg[t] - 1
      BY <1>5 DEF DecWrite, CounterInv
    <3> QED
      BY <3>1, <1>2, <1>3, <2>2 DEF Counts
  <2>5. Counts(0)'
    <3>1. CountedIn >= 0
      BY <1>1 DEF CountedIn, Types
    <3> QED
      BY <1>2, <1>3, <2>2, <3>1 DEF Counts
  <2>6. \A u \in Threads : Counts(reg[u])'
    BY <1>1, <1>5, <2>3, <2>5 DEF DecWrite, CounterInv, Types
  <2> QED
    BY <1>1, <1>4, <1>5, <2>3, <2>4, <2>6 DEF CounterInv, DecWrite, mainVars
<1>6. CASE ~DecWrite(t)
  <2>1. Ended' = Ended
    BY <1>1, <1>6 DEF ThreadStep, Sort, Join, Lock, Merge, Assign, Unlock,
       DecRead, Goto, Ended, Types
  <2>2. \A v : Counts(v) => Counts(v)'
    BY <1>2, <1>3, <2>1 DEF Counts
  <2>3. /\ running' = running /\ mreg' = mreg
        /\ \A u \in Threads : reg'[u] \in {reg[u], running}
    BY <1>1, <1>6 DEF ThreadStep, Sort, Join, Lock, Merge, Assign, Unlock,
       DecRead, mainVars, Types
  <2> QED
    BY <1>1, <1>4, <2>2, <2>3 DEF CounterInv
<1> QED
  BY <1>5, <1>6

LEMMA ThreadRest ==
  ASSUME IInv, NEW t \in Threads, ThreadStep(t)
  PROVE  NotStarted' /\ Exclusion' /\ OneBlocked'
<1> USE DEF IInv
<1>1. N \in {2, 4} /\ Threads = 1 .. N /\ N' = N /\ Threads' = Threads
  BY ThreadCount, SameThreads DEF ThreadStep, Types
<1>2. NotStarted'
  BY <1>1, ThreadMoves DEF NotStarted
<1>3. OneBlocked'
  <2>1. pc'[t] = "blocked" => \A u \in Threads : pc[u] # "blocked"
    BY DEF ThreadStep, Sort, Join, Lock, Merge, Assign, Unlock, DecRead,
       DecWrite, Goto, Types
  <2> QED
    BY <1>1, <2>1, ThreadMoves DEF OneBlocked
<1>4. Exclusion'
  <2> DEFINE Inside == {"merge", "assign", "unlock"}
  <2>1. CASE Lock(t)
    BY <1>1, <2>1, ThreadMoves DEF Lock, Goto, Types, Exclusion
  <2>2. CASE Unlock(t)
    BY <1>1, <2>2, ThreadMoves DEF Unlock, Goto, Types, Exclusion
  <2>3. CASE ~Lock(t) /\ ~Unlock(t)
    <3>1. lock' = lock /\ (pc'[t] \in Inside <=> pc[t] \in Inside)
      BY <2>3 DEF ThreadStep, Sort, Join, Merge, Assign, DecRead, DecWrite,
         Goto, Types
    <3> QED
      BY <1>1, <3>1, ThreadMoves DEF Exclusion
  <2> QED
    BY <2>1, <2>2, <2>3
<1> QED
  BY <1>2, <1>3, <1>4

-----------------------------------------------------------------------------
LEMMA NextIInv == IInv /\ [Next]_vars => IInv'
<1> SUFFICES ASSUME IInv, [Next]_vars PROVE IInv'
  OBVIOUS
<1>1. CASE MainStep
  BY <1>1, MainTypes, MainCounter, MainRest DEF IInv
<1>2. ASSUME NEW t \in Threads, ThreadStep(t) PROVE IInv'
  BY <1>2, ThreadTypes, ThreadCounter, ThreadRest DEF IInv
<1>3. CASE UNCHANGED vars
  <2>1. N' = N /\ Threads' = Threads
    BY <1>3, SameThreads DEF vars
  <2>2. Ended' = Ended /\ CountedIn' = CountedIn
    BY <1>3, <2>1 DEF vars, threadVars, mainVars, Ended, CountedIn
  <2>3. \A v : Counts(v)' <=> Counts(v)
    BY <2>2 DEF Counts
  <2> QED
    BY <1>3, <2>1, <2>3 DEF IInv, Types, CounterInv, NotStarted, Exclusion,
       OneBlocked, Creating, vars, threadVars, mainVars
<1> QED
  BY <1>1, <1>2, <1>3 DEF Next

\* The invariant of the threads and the counter.
THEOREM IInvHolds == Spec => []IInv
BY InitIInv, NextIInv, PTL DEF Spec

\* Every variable has its type: whatever updates of the counter are lost, it
\* stays between minus the number of threads and the number of threads.
THEOREM TypesHold == Spec => []TypeOK
BY IInvHolds, TypesOfIInv, PTL

\* When every thread has come to rest, at most one of those that sorted their
\* pieces waits for main instead of having delivered it.
THEOREM AtMostOneIsLost == Spec => []AtMostOneLost
<1>1. IInv => AtMostOneLost
  <2> SUFFICES ASSUME IInv PROVE Cardinality({t \in Threads : pc[t] = "blocked"}) <= 1
    BY DEF AtMostOneLost
  <2> DEFINE B == {t \in Threads : pc[t] = "blocked"}
  <2>1. CASE B = {}
    BY <2>1, FS_EmptySet
  <2>2. CASE B # {}
    <3>1. PICK t \in B : B = {t}
      BY <2>2 DEF IInv, OneBlocked
    <3>2. Cardinality(B) = 1
      BY <3>1, FS_Singleton
    <3> QED
      BY <3>2
  <2> QED
    BY <2>1, <2>2
<1> QED
  BY <1>1, IInvHolds, PTL

\* The mutex keeps the threads apart while they work on masterSortedList: no
\* merge is computed from a list that another thread replaces meanwhile.
MergesApart ==
  \A t, u \in Threads :
    pc[t] \in {"merge", "assign", "unlock"}
      /\ pc[u] \in {"merge", "assign", "unlock"} => t = u

\* At most one thread is between the mutex and its release.
THEOREM MergesExclude == Spec => []MergesApart
<1>1. IInv => MergesApart
  <2> SUFFICES ASSUME IInv, NEW t \in Threads, NEW u \in Threads,
                      pc[t] \in {"merge", "assign", "unlock"},
                      pc[u] \in {"merge", "assign", "unlock"}
               PROVE  t = u
    BY DEF MergesApart
  <2>1. lock = t /\ lock = u
    BY DEF IInv, Exclusion
  <2> QED
    BY <2>1
<1> QED
  BY <1>1, IInvHolds, PTL

-----------------------------------------------------------------------------
(***************************************************************************)
(* The counter, when no thread counts itself out while main counts threads *)
(* in: then only main writes it, and afterwards a lost update leaves it    *)
(* greater than the number of threads that are still to end, never less.   *)
(***************************************************************************)
Undisturbed ==
  mpc \in Creating => \A t \in Threads : pc[t] \notin {"decWrite", "ended"}

Live == {t \in Threads : pc[t] \notin {"unborn", "ended"}}

CountsLive ==
  /\ mpc \in {"create", "self"} => running = Cardinality(Live)
  /\ mpc \in {"incRead", "incWrite"} => running = Cardinality(Live) - 1
  /\ mpc = "incWrite" => mreg = running
  /\ mpc = "poll" => /\ running >= Cardinality(Live)
                     /\ \A t \in Threads : pc[t] = "decWrite" =>
                          reg[t] >= Cardinality(Live)
  /\ mpc \in {"finished", "exited"} => Live = {}

LEMMA LiveCount ==
  ASSUME IInv
  PROVE  IsFiniteSet(Live) /\ Cardinality(Live) \in Nat
         /\ (Cardinality(Live) = 0 => Live = {})
BY EndedCount, FS_Subset, FS_CardinalityType, FS_EmptySet DEF IInv, Types, Live

LEMMA InitCountsLive == Init => CountsLive
<1> SUFFICES ASSUME Init PROVE CountsLive
  OBVIOUS
<1>1. Live = {} /\ Cardinality(Live) = 0
  BY FS_EmptySet DEF Init, Live
<1> QED
  BY <1>1 DEF Init, CountsLive

LEMMA MainCountsLive ==
  ASSUME IInv, CountsLive, Undisturbed, MainStep
  PROVE  CountsLive'
<1>1. N \in {2, 4} /\ Threads = 1 .. N /\ N' = N /\ Threads' = Threads
  BY ThreadCount, SameThreads DEF MainStep, IInv, Types
<1>2. IsFiniteSet(Live) /\ Cardinality(Live) \in Nat
      /\ (Cardinality(Live) = 0 => Live = {})
  BY LiveCount
<1>3. CASE Create
  <2>1. CASE mpc' = "incRead"
    <3>1. pc[k] = "unborn" /\ k \in Threads /\ pc' = [pc EXCEPT ![k] = "sort"]
      BY <1>1, <1>3, <2>1 DEF Create, Goto, IInv, NotStarted
    <3>2. Live' = Live \cup {k} /\ k \notin Live
      BY <1>1, <3>1 DEF Live, IInv, Types
    <3>3. Cardinality(Live') = Cardinality(Live) + 1
      BY <1>2, <3>2, FS_AddElement
    <3> QED
      BY <1>2, <1>3, <2>1, <3>3 DEF Create, CountsLive
  <2>2. CASE mpc' # "incRead"
    BY <1>1, <1>3, <2>2 DEF Create, CountsLive, Live
  <2> QED
    BY <2>1, <2>2
<1>4. CASE ~Create
  <2>1. Live' = Live /\ pc' = pc /\ reg' = reg
    BY <1>1, <1>4 DEF MainStep, IncRead, IncWrite, TakeSelf, AllCreated, Poll,
       Write, threadVars, Live
  <2>2. CASE IncRead \/ IncWrite \/ TakeSelf
    BY <1>2, <2>1, <2>2 DEF IncRead, IncWrite, TakeSelf, CountsLive
  <2>3. CASE AllCreated
    BY <1>1, <1>2, <2>1, <2>3 DEF AllCreated, CountsLive, Undisturbed, Creating
  <2>4. CASE Poll \/ Write
    BY <1>2, <2>1, <2>4 DEF Poll, Write, CountsLive, IInv, CounterInv, Counts
  <2> QED
    BY <1>4, <2>2, <2>3, <2>4 DEF MainStep
<1> QED
  BY <1>3, <1>4

LEMMA ThreadCountsLive ==
  ASSUME IInv, CountsLive, Undisturbed, Undisturbed',
         mpc \notin {"exited", "crashed"},
         NEW t \in Threads, ThreadStep(t)
  PROVE  CountsLive'
<1>1. N \in {2, 4} /\ Threads = 1 .. N /\ N' = N /\ Threads' = Threads
  BY ThreadCount, SameThreads DEF ThreadStep, IInv, Types
<1>2. IsFiniteSet(Live) /\ Cardinality(Live) \in Nat
      /\ (Cardinality(Live) = 0 => Live = {})
  BY LiveCount
<1>3. CASE mpc' = "crashed"
  BY <1>3 DEF CountsLive
<1>4. CASE mpc' # "crashed"
  <2>1. mpc' = mpc /\ k' = k /\ mreg' = mreg
    BY <1>4, ThreadMoves
  <2>2. t \in Live
    <3>1. pc[t] \notin {"unborn", "ended"}
      BY DEF ThreadStep, Sort, Join, Lock, Merge, Assign, Unlock, DecRead,
         DecWrite
    <3> QED
      BY <3>1 DEF Live
  <2>3. mpc \in Creating \cup {"poll"}
    BY <1>2, <2>2 DEF CountsLive, IInv, Types
  <2>4. CASE DecWrite(t)
    <3>1. mpc = "poll"
      BY <2>3, <2>4 DEF DecWrite, Undisturbed
    <3>2. Live' = Live \ {t}
      BY <1>1, <2>2, <2>4 DEF DecWrite, Goto, Live, IInv, Types
    <3>3. Cardinality(Live') = Cardinality(Live) - 1
      BY <1>2, <2>2, <3>2, FS_RemoveElement
    <3>4. running' = reg[t] - 1 /\ reg[t] >= Cardinality(Live)
      BY <2>4, <3>1 DEF DecWrite, CountsLive
    <3>5. \A u \in Threads : pc'[u] = "decWrite" =>
            reg'[u] >= Cardinality(Live')
      <4> SUFFICES ASSUME NEW u \in Threads, pc'[u] = "decWrite"
                   PROVE  reg'[u] >= Cardinality(Live')
        OBVIOUS
      <4>1. u # t /\ pc[u] = "decWrite" /\ reg'[u] = reg[u]
        BY <2>4 DEF DecWrite, Goto, IInv, Types
      <4>2. reg[u] \in Int /\ reg[u] >= Cardinality(Live)
        BY <3>1, <4>1 DEF CountsLive, IInv, Types
      <4> QED
        BY <1>2, <3>3, <4>1, <4>2
    <3>6. reg[t] \in Int
      BY DEF IInv, Types
    <3>7. running' >= Cardinality(Live')
      BY <1>2, <3>3, <3>4, <3>6
    <3> QED
      BY <1>1, <2>1, <3>1, <3>5, <3>7 DEF CountsLive
  <2>5. CASE ~DecWrite(t)
    <3>1. running' = running /\ Live' = Live
      BY <1>1, <2>2, <2>5, ThreadMoves DEF ThreadStep, Sort, Join, Lock, Merge,
         Assign, Unlock, DecRead, Goto, Live, IInv, Types
    <3>2. ASSUME mpc = "poll", NEW u \in Threads, pc'[u] = "decWrite"
          PROVE  reg'[u] >= Cardinality(Live)
      <4>1. CASE DecRead(t)
        BY <1>1, <3>2, <4>1 DEF DecRead, Goto, CountsLive, IInv, Types
      <4>2. CASE ~DecRead(t)
        <5>1. reg' = reg /\ pc'[t] # "decWrite"
          BY <1>1, <2>5, <4>2 DEF ThreadStep, Sort, Join, Lock, Merge, Assign,
             Unlock, Goto, IInv, Types
        <5>2. pc[u] = "decWrite"
          BY <3>2, <5>1, ThreadMoves
        <5> QED
          BY <3>2, <5>1, <5>2 DEF CountsLive
      <4> QED
        BY <4>1, <4>2
    <3> QED
      BY <1>1, <2>1, <2>3, <3>1, <3>2 DEF CountsLive, Creating
  <2> QED
    BY <2>4, <2>5
<1> QED
  BY <1>3, <1>4

LEMMA NextCountsLive ==
  IInv /\ CountsLive /\ Undisturbed /\ Undisturbed' /\ [Next]_vars => CountsLive'
<1> SUFFICES ASSUME IInv, CountsLive, Undisturbed, Undisturbed', [Next]_vars
             PROVE  CountsLive'
  OBVIOUS
<1>1. CASE Next
  BY <1>1, MainCountsLive, ThreadCountsLive DEF Next, Alive
<1>2. CASE UNCHANGED vars
  <2>1. Live' = Live /\ Threads' = Threads
    BY <1>2, SameThreads DEF Live, vars, threadVars
  <2> QED
    BY <1>2, <2>1 DEF CountsLive, vars, mainVars, threadVars
<1> QED
  BY <1>1, <1>2

\* main goes on before every thread has ended only if a thread counted itself
\* out while main was still counting threads in.
THEOREM FinishIsUndisturbed == Spec => UndisturbedFinish
<1> DEFINE Finish == mpc \in {"finished", "exited"} =>
                       \A t \in Threads : pc[t] \in {"unborn", "ended"}
<1>1. CountsLive => Finish
  BY DEF CountsLive, Live
<1>2. UndisturbedFinish <=> ([]Undisturbed => []Finish)
  BY DEF UndisturbedFinish, Undisturbed
<1> HIDE DEF Finish
<1> QED
  BY <1>1, <1>2, InitCountsLive, NextCountsLive, IInvHolds, PTL DEF Spec

-----------------------------------------------------------------------------
(***************************************************************************)
(* masterSortedList holds the pieces of the threads that have merged       *)
(* theirs.  The invariant follows the list a thread computed until it      *)
(* assigns it: meanwhile, under the mutex, no other thread changes what it *)
(* was computed from.                                                      *)
(***************************************************************************)
PieceLength == Len(numbers) \div N

\* How often x is in the piece of each thread.
InPieces(x) == [t \in Threads |-> Occurrences(x, Piece(numbers, t, N))]

\* What each thread has of its own.
PiecesInv ==
  /\ data \in [Threads -> Within(numbers)]
  /\ merged \in [Threads -> Within(numbers)]
  /\ \A t \in Threads :
       /\ Len(data[t]) = PieceLength
       /\ \A x \in Entries(numbers) : Occurrences(x, data[t]) = InPieces(x)[t]
       /\ pc[t] \notin {"unborn", "sort", "spin"} => Ascending(data[t])

\* The list of all.
MasterInv ==
  /\ master \in Within(numbers) /\ Ascending(master)
  /\ Len(master) = PieceLength * Cardinality(Done)
  /\ \A x \in Entries(numbers) : Occurrences(x, master) = Sum(InPieces(x), Done)

\* What a thread computed is the list of all with its own piece.
AssignInv ==
  \A t \in Threads : pc[t] = "assign" =>
    /\ Ascending(merged[t]) /\ Len(merged[t]) = PieceLength + Len(master)
    /\ \A x \in Entries(numbers) :
         Occurrences(x, merged[t]) = InPieces(x)[t] + Occurrences(x, master)

MergeInv == PiecesInv /\ MasterInv /\ AssignInv

\* The numbers of a list occur in it a natural number of times.
LEMMA OccurrencesNat ==
  ASSUME NEW x, NEW n \in Nat, NEW s, DOMAIN s = 1 .. n
  PROVE  Occurrences(x, s) \in Nat
<1>1. IsFiniteSet(1 .. n)
  BY FS_Interval
<1>2. IsFiniteSet({i \in DOMAIN s : s[i] = x})
  BY <1>1, FS_Subset
<1> QED
  BY <1>2, FS_CardinalityType DEF Occurrences

LEMMA WithinIs ==
  ASSUME NEW list, NEW s \in Within(list), Len(list) \in Nat
  PROVE  /\ Len(s) \in 0 .. Len(list) /\ DOMAIN s = 1 .. Len(s)
         /\ s \in [1 .. Len(s) -> Entries(list)]
<1>1. PICK n \in 0 .. Len(list) : s \in [1 .. n -> Entries(list)]
  BY DEF Within
<1>2. s \in Seq(Entries(list)) /\ Len(s) = n
  BY <1>1
<1> QED
  BY <1>1, <1>2

\* The pieces are no longer than the list, all of them together.
LEMMA RangeFits ==
  ASSUME trial \in Trials, numbers \in Lists
  PROVE  /\ PieceLength \in Nat /\ Len(numbers) \in Nat
         /\ \A t \in Threads : PieceLength * t \in 0 .. Len(numbers)
         /\ \A c \in 0 .. N - 1 : PieceLength + PieceLength * c \in 0 .. Len(numbers)
<1>1. numbers \in Seq(Int) /\ Len(numbers) \in Nat
  BY ListsAssumption
<1>2. N \in {2, 4} /\ Threads = 1 .. N
  BY ThreadCount
<1>3. PieceLength \in Nat /\ N * PieceLength <= Len(numbers)
  BY <1>1, <1>2 DEF PieceLength
<1>4. CASE N = 2
  BY <1>1, <1>2, <1>3, <1>4
<1>5. CASE N = 4
  <2>1. \A t \in {1, 2, 3, 4} : PieceLength * t \in 0 .. Len(numbers)
    BY <1>1, <1>3, <1>5
  <2>2. \A c \in {0, 1, 2, 3} : PieceLength + PieceLength * c \in 0 .. Len(numbers)
    BY <1>1, <1>3, <1>5
  <2> QED
    BY <1>1, <1>2, <1>3, <1>5, <2>1, <2>2
<1> QED
  BY <1>2, <1>4, <1>5

\* The threads get pieces of the list, of equal length.
LEMMA PieceIs ==
  ASSUME trial \in Trials, numbers \in Lists, NEW t \in Threads
  PROVE  /\ Piece(numbers, t, N) \in Within(numbers)
         /\ Len(Piece(numbers, t, N)) = PieceLength
<1>1. numbers \in Seq(Int) /\ Len(numbers) \in Nat
  BY ListsAssumption
<1>2. N \in {2, 4} /\ Threads = 1 .. N
  BY ThreadCount
<1> DEFINE from == (t - 1) * PieceLength + 1
           to == t * PieceLength
           p == SubSeq(numbers, from, to)
<1>3. PieceLength \in Nat /\ from \in Nat \ {0} /\ to \in 0 .. Len(numbers)
      /\ to - from + 1 = PieceLength
  <2>1. PieceLength \in Nat /\ PieceLength * t \in 0 .. Len(numbers)
    BY RangeFits
  <2>2. t \in {1, 2, 3, 4}
    BY <1>2
  <2>3. (t - 1) * PieceLength \in Nat /\ t * PieceLength = PieceLength * t
        /\ t * PieceLength - (t - 1) * PieceLength = PieceLength
    <3>1. CASE t = 1
      BY <2>1, <3>1
    <3>2. CASE t = 2
      BY <2>1, <3>2
    <3>3. CASE t = 3
      BY <2>1, <3>3
    <3>4. CASE t = 4
      BY <2>1, <3>4
    <3> QED
      BY <2>2, <3>1, <3>2, <3>3, <3>4
  <2> QED
    BY <2>1, <2>3
<1>4. p = Piece(numbers, t, N)
  BY DEF Piece, PieceLength
<1>5. \A i \in from .. to : numbers[i] \in Entries(numbers)
  BY <1>1, <1>3 DEF Entries
<1>6. p \in [1 .. PieceLength -> Entries(numbers)] /\ Len(p) = PieceLength
  <2>1. from \in Int /\ to \in Int
    BY <1>3
  <2> HIDE DEF from, to
  <2>2. p \in Seq(Entries(numbers))
        /\ Len(p) = IF from <= to THEN to - from + 1 ELSE 0
    BY <1>5, <2>1, SubSeqProperties
  <2>3. Len(p) = PieceLength
    BY <1>3, <2>1, <2>2
  <2> QED
    BY <2>2, <2>3, LenProperties
<1>7. PieceLength \in 0 .. Len(numbers)
  BY <1>1, <1>3
<1> QED
  BY <1>4, <1>6, <1>7 DEF Within

\* The sum MergedOnce speaks of.
LEMMA PiecesSum ==
  ASSUME NEW x, NEW S \in SUBSET Threads, IsFiniteSet(S)
  PROVE  MapThenSumSet(LAMBDA t : Occurrences(x, Piece(numbers, t, N)), S)
           = Sum(InPieces(x), S)
<1>1. PICK h : Adds(h, InPieces(x), S) /\ Sum(InPieces(x), S) = h[S]
  BY SumAdds
<1>2. \A g : Adds(g, InPieces(x), S) <=>
        g = [s \in SUBSET S |-> IF s = {} THEN 0 ELSE
               Occurrences(x, Piece(numbers, CHOOSE t \in s : TRUE, N))
                 + g[s \ {CHOOSE t \in s : TRUE}]]
  <2>1. \A s \in SUBSET S : s # {} =>
          InPieces(x)[OneOf(s)]
            = Occurrences(x, Piece(numbers, CHOOSE t \in s : TRUE, N))
    BY DEF InPieces, OneOf
  <2> QED
    BY <2>1, SMTT(30) DEF Adds, OneOf
<1>3. \E g : /\ g = [s \in SUBSET S |-> IF s = {} THEN 0 ELSE
                      Occurrences(x, Piece(numbers, CHOOSE t \in s : TRUE, N))
                        + g[s \ {CHOOSE t \in s : TRUE}]]
             /\ MapThenSumSet(LAMBDA t : Occurrences(x, Piece(numbers, t, N)), S)
                  = g[S]
  BY <1>1, <1>2 DEF MapThenSumSet, MapThenFoldSet
<1>4. PICK g : Adds(g, InPieces(x), S)
        /\ MapThenSumSet(LAMBDA t : Occurrences(x, Piece(numbers, t, N)), S)
             = g[S]
  BY <1>2, <1>3
<1>5. h[S] = g[S]
  BY <1>1, <1>4, AddsAgree
<1> QED
  BY <1>1, <1>4, <1>5

\* What InPieces adds up are natural numbers.
LEMMA InPiecesNat ==
  ASSUME trial \in Trials, numbers \in Lists, NEW x
  PROVE  \A t \in Threads : InPieces(x)[t] \in Nat
<1> SUFFICES ASSUME NEW t \in Threads
             PROVE  Occurrences(x, Piece(numbers, t, N)) \in Nat
  BY DEF InPieces
<1>1. Len(numbers) \in Nat
  BY RangeFits
<1> QED
  BY <1>1, PieceIs, WithinIs, OccurrencesNat

LEMMA EmptyList ==
  ASSUME NEW list, Len(list) \in Nat
  PROVE  /\ <<>> \in Within(list) /\ Ascending(<<>>) /\ Len(<<>>) = 0
         /\ \A x : Occurrences(x, <<>>) = 0
<1>1. <<>> \in [1 .. 0 -> Entries(list)]
  OBVIOUS
<1>2. 0 \in 0 .. Len(list)
  OBVIOUS
<1>3. \A x : {i \in DOMAIN <<>> : <<>>[i] = x} = {}
  OBVIOUS
<1>4. \A x : Occurrences(x, <<>>) = 0
  BY <1>3, FS_EmptySet DEF Occurrences
<1> QED
  BY <1>1, <1>2, <1>4 DEF Within, Ascending

LEMMA DoneFinite ==
  ASSUME trial \in Trials
  PROVE  /\ IsFiniteSet(Done) /\ Done \in SUBSET Threads
         /\ Cardinality(Done) \in 0 .. N
         /\ \A t \in Threads \ Done : Cardinality(Done) \in 0 .. N - 1
<1>1. IsFiniteSet(Threads) /\ Cardinality(Threads) = N /\ N \in {2, 4}
  BY ThreadCount, FS_Interval
<1>2. IsFiniteSet(Done) /\ Cardinality(Done) <= N
      /\ (Cardinality(Done) = N => Done = Threads)
  BY <1>1, FS_Subset DEF Done
<1>3. Cardinality(Done) \in 0 .. N /\ Done \in SUBSET Threads
  BY <1>1, <1>2, FS_CardinalityType DEF Done
<1>4. \A t \in Threads \ Done : Cardinality(Done) # N
  BY <1>2
<1>5. \A t \in Threads \ Done : Cardinality(Done) \in 0 .. N - 1
  BY <1>1, <1>3, <1>4
<1> QED
  BY <1>2, <1>3, <1>5

LEMMA InitMergeInv == Init => MergeInv
<1> SUFFICES ASSUME Init PROVE MergeInv
  OBVIOUS
<1>1. trial \in Trials /\ numbers \in Lists /\ Len(numbers) \in Nat
      /\ PieceLength \in Nat
  BY RangeFits DEF Init
<1>2. /\ <<>> \in Within(numbers) /\ Ascending(<<>>) /\ Len(<<>>) = 0
      /\ \A x : Occurrences(x, <<>>) = 0
  BY <1>1, EmptyList
<1>3. PiecesInv
  BY <1>1, <1>2, PieceIs DEF Init, PiecesInv, InPieces
<1>4. Done = {} /\ Cardinality(Done) = 0 /\ PieceLength * 0 = 0
  <2>1. Done = {}
    BY DEF Init, Done
  <2>2. PieceLength * 0 = 0
    BY <1>1
  <2> QED
    BY <2>1, <2>2, FS_EmptySet
<1>5. MasterInv
  BY <1>2, <1>4, SumEmpty DEF Init, MasterInv
<1>6. AssignInv
  BY DEF Init, AssignInv
<1> QED
  BY <1>3, <1>5, <1>6 DEF MergeInv

\* What a step cannot change.
LEMMA SamePieces ==
  ASSUME UNCHANGED <<trial, numbers>>
  PROVE  /\ Threads' = Threads /\ PieceLength' = PieceLength
         /\ Within(numbers)' = Within(numbers)
         /\ Entries(numbers)' = Entries(numbers)
         /\ \A x : InPieces(x)' = InPieces(x)
BY SameThreads DEF PieceLength, Within, Entries, InPieces, Piece

\* A step that moves threads and leaves the lists alone.
LEMMA ListsKept ==
  ASSUME IInv, MergeInv, UNCHANGED <<trial, numbers, data, merged, master>>,
         Done' = Done,
         \A t \in Threads : /\ pc'[t] = "assign" => pc[t] = "assign"
                            /\ pc'[t] \notin {"unborn", "sort", "spin"} =>
                                 pc[t] \notin {"unborn", "sort", "spin"}
  PROVE  MergeInv'
<1>1. PiecesInv'
  BY SamePieces DEF MergeInv, PiecesInv
<1>2. MasterInv'
  BY SamePieces DEF MergeInv, MasterInv
<1>3. AssignInv'
  BY SamePieces DEF MergeInv, AssignInv
<1> QED
  BY <1>1, <1>2, <1>3 DEF MergeInv

LEMMA SortLists ==
  ASSUME IInv, MergeInv, NEW t \in Threads, Sort(t), UNCHANGED <<trial, numbers>>
  PROVE  MergeInv'
<1> USE DEF IInv, Types
<1>1. Done' = Done
  BY SameThreads, ThreadMoves DEF Sort, Goto, Done
<1>2. CASE pc'[t] # "join"
  BY <1>1, <1>2, ListsKept DEF Sort, Goto
<1>3. CASE pc'[t] = "join"
  <2> DEFINE type == TrialSorts(trial)[t]
             r == SortPiece(type, data[t])
  <2>1. /\ data' = [data EXCEPT ![t] = r] /\ ~Refuses(type, data[t])
        /\ pc' = [pc EXCEPT ![t] = "join"]
    BY <1>3 DEF Sort, Goto
  <2>2. t \in DOMAIN TrialSorts(trial)
    BY ThreadCount, TrialsAssumption DEF Threads, N, TrialSorts
  <2>3. data[t] \in Within(numbers)
    BY DEF MergeInv, PiecesInv
  <2>4. SortsWithin(numbers, type, data[t])
    BY <2>1, <2>2, <2>3, RoutinesAssumption DEF RoutinesFit
  <2>5. /\ r \in Within(numbers) /\ Ascending(r) /\ Len(r) = PieceLength
        /\ \A x \in Entries(numbers) : Occurrences(x, r) = InPieces(x)[t]
    BY <2>4 DEF SortsWithin, MergeInv, PiecesInv
  <2> HIDE DEF r
  <2>6. PiecesInv'
    <3>1. data' \in [Threads -> Within(numbers)] /\ UNCHANGED merged
      BY <2>1, <2>5 DEF MergeInv, PiecesInv, Sort
    <3>2. ASSUME NEW u \in Threads
          PROVE  /\ Len(data'[u]) = PieceLength
                 /\ \A x \in Entries(numbers) :
                      Occurrences(x, data'[u]) = InPieces(x)[u]
                 /\ pc'[u] \notin {"unborn", "sort", "spin"} =>
                      Ascending(data'[u])
      <4>1. CASE u = t
        BY <2>1, <2>5, <4>1 DEF MergeInv, PiecesInv
      <4>2. CASE u # t
        BY <2>1, <4>2 DEF MergeInv, PiecesInv
      <4> QED
        BY <4>1, <4>2
    <3> QED
      BY <3>1, <3>2, SamePieces DEF MergeInv, PiecesInv
  <2>7. MasterInv' /\ AssignInv'
    BY <1>1, <2>1, SamePieces DEF MergeInv, MasterInv, AssignInv, Sort
  <2> QED
    BY <2>6, <2>7 DEF MergeInv
<1> QED
  BY <1>2, <1>3

LEMMA MergeOfLists ==
  ASSUME IInv, MergeInv, NEW t \in Threads, Merge(t), UNCHANGED <<trial, numbers>>
  PROVE  MergeInv'
<1> USE DEF IInv, Types
<1> DEFINE r == MergeLists(data[t], master)
<1>1. /\ pc[t] = "merge" /\ pc' = [pc EXCEPT ![t] = "assign"]
      /\ merged' = [merged EXCEPT ![t] = r] /\ UNCHANGED <<data, master>>
  BY DEF Merge, Goto
<1>2. Done' = Done /\ t \notin Done
  BY <1>1, SameThreads DEF Done
<1>3. /\ data[t] \in Within(numbers) /\ Ascending(data[t])
      /\ master \in Within(numbers) /\ Ascending(master)
  BY <1>1 DEF MergeInv, PiecesInv, MasterInv
<1>4. Len(data[t]) + Len(master) <= Len(numbers)
  <2>1. Cardinality(Done) \in 0 .. N - 1
    BY <1>2, DoneFinite
  <2>2. PieceLength + PieceLength * Cardinality(Done) \in 0 .. Len(numbers)
    BY <2>1, RangeFits
  <2>3. Len(numbers) \in Nat
    BY RangeFits
  <2> QED
    BY <2>2, <2>3 DEF MergeInv, PiecesInv, MasterInv
<1>5. MergesWithin(numbers, data[t], master)
  BY <1>3, <1>4, RoutinesAssumption DEF RoutinesFit
<1>6. /\ r \in Within(numbers) /\ Ascending(r)
      /\ Len(r) = PieceLength + Len(master)
      /\ \A x \in Entries(numbers) :
           Occurrences(x, r) = InPieces(x)[t] + Occurrences(x, master)
  BY <1>5 DEF MergesWithin, MergeInv, PiecesInv
<1> HIDE DEF r
<1>7. PiecesInv'
  BY <1>1, <1>6, SamePieces DEF MergeInv, PiecesInv
<1>8. MasterInv'
  BY <1>1, <1>2, SamePieces DEF MergeInv, MasterInv
<1>9. AssignInv'
  BY <1>1, <1>6, SamePieces, ZenonT(40) DEF MergeInv, PiecesInv, AssignInv
<1> QED
  BY <1>7, <1>8, <1>9 DEF MergeInv

LEMMA AssignLists ==
  ASSUME IInv, MergeInv, NEW t \in Threads, Assign(t), UNCHANGED <<trial, numbers>>
  PROVE  MergeInv'
<1> USE DEF IInv, Types
<1>1. /\ pc[t] = "assign" /\ pc' = [pc EXCEPT ![t] = "unlock"]
      /\ merged' = [merged EXCEPT ![t] = <<>>] /\ UNCHANGED data
      /\ master' = merged[t]
  BY DEF Assign, Goto
<1>2. Done' = Done \cup {t} /\ t \notin Done
  BY <1>1, SameThreads DEF Done
<1>3. IsFiniteSet(Done) /\ Done \in SUBSET Threads /\ IsFiniteSet(Done')
      /\ Cardinality(Done) \in Nat /\ Cardinality(Done') = Cardinality(Done) + 1
  BY <1>2, DoneFinite, FS_AddElement
<1>4. PiecesInv'
  <2>1. <<>> \in Within(numbers)
    BY RangeFits, EmptyList
  <2> QED
    BY <1>1, <2>1, SamePieces DEF MergeInv, PiecesInv
<1>5. MasterInv'
  <2>1. master' \in Within(numbers) /\ Ascending(master')
    BY <1>1 DEF MergeInv, PiecesInv, AssignInv
  <2>2. Len(master') = PieceLength * Cardinality(Done')
    <3>1. Len(master') = PieceLength + PieceLength * Cardinality(Done)
      BY <1>1 DEF MergeInv, AssignInv, MasterInv
    <3>2. PieceLength \in Nat
      BY RangeFits
    <3>3. PieceLength * (Cardinality(Done) + 1)
            = PieceLength + PieceLength * Cardinality(Done)
      BY <1>3, <3>2
    <3> QED
      BY <1>3, <3>1, <3>3
  <2>3. ASSUME NEW x \in Entries(numbers)
        PROVE  Occurrences(x, master') = Sum(InPieces(x), Done')
    <3>1. Occurrences(x, master') = InPieces(x)[t] + Sum(InPieces(x), Done)
      BY <1>1 DEF MergeInv, AssignInv, MasterInv
    <3>2. \A u \in Done' : InPieces(x)[u] \in Int
      BY <1>2, <1>3, InPiecesNat
    <3>3. t \in Done' /\ Done' \ {t} = Done
      BY <1>2
    <3>4. Sum(InPieces(x), Done') = InPieces(x)[t] + Sum(InPieces(x), Done' \ {t})
      BY <1>3, <3>2, <3>3, SumRemove
    <3> QED
      BY <3>1, <3>3, <3>4
  <2> QED
    BY <2>1, <2>2, <2>3, SamePieces DEF MasterInv
<1>6. AssignInv'
  <2>1. \A u \in Threads : pc'[u] # "assign"
    <3>1. lock = t
      BY <1>1 DEF Exclusion
    <3>2. \A u \in Threads : pc[u] = "assign" => u = t
      BY <3>1 DEF Exclusion
    <3> QED
      BY <1>1, <3>2
  <2> QED
    BY <2>1, SamePieces DEF AssignInv
<1> QED
  BY <1>4, <1>5, <1>6 DEF MergeInv

LEMMA NextMergeInv == IInv /\ MergeInv /\ [Next]_vars => MergeInv'
<1> SUFFICES ASSUME IInv, MergeInv, [Next]_vars PROVE MergeInv'
  OBVIOUS
<1>1. CASE MainStep
  <2>1. UNCHANGED <<trial, numbers, data, merged, master>>
    BY <1>1 DEF MainStep, Create, IncRead, IncWrite, TakeSelf, AllCreated,
       Poll, Write, threadVars
  <2>2. \A t \in Threads :
          pc'[t] = pc[t] \/ (pc[t] = "unborn" /\ pc'[t] = "sort")
    BY <1>1, ThreadCount DEF MainStep, Create, IncRead, IncWrite, TakeSelf,
       AllCreated, Poll, Write, threadVars, Goto, NotStarted, IInv, Types
  <2>3. Done' = Done
    BY <2>1, <2>2, SameThreads DEF Done
  <2> QED
    BY <2>1, <2>2, <2>3, ListsKept
<1>2. ASSUME NEW t \in Threads, ThreadStep(t) PROVE MergeInv'
  <2>1. UNCHANGED <<trial, numbers>>
    BY <1>2 DEF ThreadStep
  <2>2. CASE Sort(t) \/ Merge(t) \/ Assign(t)
    BY <2>1, <2>2, SortLists, MergeOfLists, AssignLists
  <2>3. CASE Join(t) \/ Lock(t) \/ Unlock(t) \/ DecRead(t) \/ DecWrite(t)
    <3>1. UNCHANGED <<data, merged, master>>
      BY <2>3 DEF Join, Lock, Unlock, DecRead, DecWrite
    <3>2. /\ pc'[t] # "assign" /\ pc[t] \notin {"unborn", "sort", "spin"}
          /\ pc'[t] \in {"unlock", "decRead", "decWrite", "ended"}
               <=> pc[t] \in {"unlock", "decRead", "decWrite", "ended"}
      BY <2>3 DEF Join, Lock, Unlock, DecRead, DecWrite, Goto, IInv, Types
    <3>3. Done' = Done
      BY <1>2, <2>1, <3>2, SameThreads, ThreadMoves DEF Done
    <3> QED
      BY <1>2, <2>1, <3>1, <3>2, <3>3, ThreadMoves, ListsKept
  <2> QED
    BY <1>2, <2>2, <2>3 DEF ThreadStep
<1>3. CASE UNCHANGED vars
  <2>1. Done' = Done
    BY <1>3, SameThreads DEF Done, vars, threadVars
  <2> QED
    BY <1>3, <2>1, ListsKept DEF vars, threadVars
<1> QED
  BY <1>1, <1>2, <1>3 DEF Next

\* masterSortedList is sorted and holds the pieces that have been merged, each
\* once, whatever the order in which the threads come to it.
THEOREM EachIsMergedOnce == Spec => []MergedOnce
<1>1. IInv /\ MergeInv => MergedOnce
  <2> SUFFICES ASSUME IInv, MergeInv PROVE MergedOnce
    OBVIOUS
  <2>1. IsFiniteSet(Done) /\ Done \in SUBSET Threads
    BY DoneFinite DEF IInv, Types
  <2> QED
    BY <2>1, PiecesSum DEF MergeInv, MasterInv, MergedOnce
<1> QED
  BY <1>1, InitMergeInv, NextMergeInv, IInvHolds, PTL DEF Spec

-----------------------------------------------------------------------------
(***************************************************************************)
(* RoutinesAssumption, of the program's own routines: those of SortProofs  *)
(* sort, merge and lose nothing, whatever the list and however it is cut.  *)
(***************************************************************************)

\* A number is in two lists as often as in the two put together.
LEMMA OccurrencesJoined ==
  ASSUME NEW a \in Seq(Int), NEW b \in Seq(Int), NEW x
  PROVE  Occurrences(x, a \o b) = Occurrences(x, a) + Occurrences(x, b)
<1>1. PICK m \in Nat, l \in Nat : m = Len(a) /\ l = Len(b)
  OBVIOUS
<1>2. PICK u \in Seq(Int) : u = a \o b
  BY ConcatProperties
<1>3. /\ Len(u) = m + l
      /\ \A y \in 1 .. m + l : u[y] = IF y <= m THEN a[y] ELSE b[y - m]
  BY <1>1, <1>2, ConcatProperties
<1> DEFINE S == {y \in 1 .. m : a[y] = x}
           T == {y \in 1 .. l : b[y] = x}
           U == {y \in 1 .. m + l : u[y] = x}
           V == {y \in m + 1 .. m + l : u[y] = x}
<1>4. /\ Occurrences(x, a) = Cardinality(S) /\ Occurrences(x, b) = Cardinality(T)
      /\ Occurrences(x, u) = Cardinality(U)
  <2>1. DOMAIN a = 1 .. m /\ DOMAIN b = 1 .. l /\ DOMAIN u = 1 .. m + l
    BY <1>1, <1>3
  <2> QED
    BY <2>1, Zenon DEF Occurrences
<1>5. U = S \cup V /\ S \cap V = {}
  <2>1. \A y \in 1 .. m : y \in 1 .. m + l /\ y <= m /\ y \notin m + 1 .. m + l
    OBVIOUS
  <2>2. \A y \in m + 1 .. m + l : y \in 1 .. m + l
    OBVIOUS
  <2>3. \A y \in 1 .. m + l : y \in 1 .. m \/ y \in m + 1 .. m + l
    OBVIOUS
  <2>4. \A y \in 1 .. m : u[y] = a[y]
    BY <1>3, <2>1
  <2> QED
    BY <2>1, <2>2, <2>3, <2>4
<1>6. PICK g : g = [y \in T |-> m + y]
  OBVIOUS
<1>7. g \in Bijection(T, V)
  <2>1. ASSUME NEW y \in T PROVE g[y] = m + y /\ g[y] \in V
    <3>1. y \in 1 .. l /\ b[y] = x /\ g[y] = m + y
      BY <1>6
    <3>2. /\ m + y \in m + 1 .. m + l /\ m + y \in 1 .. m + l /\ ~(m + y <= m)
          /\ (m + y) - m = y
      BY <3>1
    <3> QED
      BY <1>3, <3>1, <3>2
  <2>2. \A y, z \in T : g[y] = g[z] => y = z
    BY <2>1
  <2>3. ASSUME NEW w \in V PROVE \E y \in T : g[y] = w
    <3>1. PICK y \in 1 .. l : y = w - m
      OBVIOUS
    <3>2. ~(w <= m) /\ w \in 1 .. m + l /\ m + y = w
      BY <3>1
    <3>3. b[y] = x
      BY <1>3, <3>1, <3>2
    <3> QED
      BY <1>6, <3>2, <3>3
  <2>4. g \in [T -> V]
    BY <1>6, <2>1
  <2> QED
    BY <2>2, <2>3, <2>4 DEF Bijection, Injection, Surjection, IsInjective
<1>8. IsFiniteSet(S) /\ IsFiniteSet(T)
  <2>1. PICK o \in Int : o = 1
    OBVIOUS
  <2>2. IsFiniteSet(o .. m) /\ IsFiniteSet(o .. l)
    BY FS_Interval
  <2>3. S \in SUBSET (o .. m) /\ T \in SUBSET (o .. l)
    BY <2>1
  <2> HIDE DEF S, T
  <2> QED
    BY <2>2, <2>3, FS_Subset
<1> HIDE DEF S, T, U, V
<1>9. IsFiniteSet(V) /\ Cardinality(V) = Cardinality(T)
  BY <1>7, <1>8, FS_Bijection DEF ExistsBijection
<1>10. Cardinality(U) = Cardinality(S) + Cardinality(T) - Cardinality({})
  <2>1. Cardinality(S \cup V) = Cardinality(S) + Cardinality(V) - Cardinality(S \cap V)
    BY <1>8, <1>9, FS_Union
  <2> QED
    BY <1>5, <1>9, <2>1
<1>11. Cardinality(S) \in Nat /\ Cardinality(T) \in Nat /\ Cardinality({}) = 0
  BY <1>8, FS_CardinalityType, FS_EmptySet
<1> QED
  BY <1>2, <1>4, <1>10, <1>11

\* What SortedFrom means in the terms of ThreadSort.
LEMMA FromWithin ==
  ASSUME NEW list \in Seq(Int), NEW u \in Seq(Int), NEW r, SortedFrom(r, u),
         Len(u) <= Len(list), Entries(u) \subseteq Entries(list)
  PROVE  /\ r \in Within(list) /\ Ascending(r) /\ Len(r) = Len(u)
         /\ \A x \in Entries(list) : Occurrences(x, r) = Occurrences(x, u)
<1>1. /\ r \in Seq(Int) /\ Len(r) = Len(u) /\ Ordered(r) /\ DOMAIN r = 1 .. Len(r)
      /\ \E f : From(r, u, f, Len(u))
  BY DEF SortedFrom
<1>2. PICK n \in Nat : n = Len(u) /\ n <= Len(list)
  OBVIOUS
<1>3. \A x \in 1 .. n : r[x] \in Entries(list)
  <2>1. PICK f : From(r, u, f, n)
    BY <1>1, <1>2
  <2>2. \A x \in 1 .. n : r[x] = u[f[x]] /\ f[x] \in 1 .. n
    BY <2>1 DEF From, Shuffle
  <2>3. \A y \in 1 .. n : u[y] \in Entries(list)
    <3>1. DOMAIN u = 1 .. n
      BY <1>2
    <3>2. \A y \in DOMAIN u : u[y] \in Entries(u)
      BY DEF Entries
    <3> QED
      BY <3>1, <3>2
  <2> QED
    BY <2>2, <2>3
<1>4. r \in Within(list)
  <2>1. r \in [1 .. n -> Entries(list)]
    BY <1>1, <1>2, <1>3
  <2>2. n \in 0 .. Len(list)
    BY <1>2
  <2> QED
    BY <2>1, <2>2 DEF Within
<1>5. Ascending(r)
  BY <1>1 DEF Ascending, Ordered
<1>6. \A x : Occurrences(x, r) = Occurrences(x, u)
  BY <1>1, CountsSame DEF Occurrences
<1> QED
  BY <1>1, <1>4, <1>5, <1>6

\* A list in order, in either's terms.
LEMMA AscendingIs ==
  ASSUME NEW s \in Seq(Int)
  PROVE  Ascending(s) <=> Sorted(s)
BY DEF Ascending, Sorted, IsSorted

\* The lists within a list are lists of numbers.
LEMMA WithinLists ==
  ASSUME NEW list \in Seq(Int), NEW s \in Within(list)
  PROVE  s \in Seq(Int) /\ Len(s) <= Len(list) /\ Entries(s) \subseteq Entries(list)
<1>1. PICK n \in 0 .. Len(list) : s \in [1 .. n -> Entries(list)]
  BY DEF Within
<1>2. \A x \in DOMAIN list : list[x] \in Int
  BY ElementOfSeq
<1>3. \A e \in Entries(list) : e \in Int
  BY <1>2 DEF Entries
<1>4. s \in [1 .. n -> Int] /\ n \in Nat
  BY <1>1, <1>3
<1>5. s \in Seq(Int) /\ Len(s) = n
  BY <1>4
<1> QED
  BY <1>1, <1>5 DEF Entries

\* What ThreadSort assumes of the routines is true of those of other.cpp, whatever
\* list numbers.txt holds: RoutinesAssumption, proved for the program's own sorts
\* and its own merge.
THEOREM RoutinesOfTheProgramFit ==
  ASSUME \A type, s : SortPiece(type, s) = SortOnThread(type, s),
         \A s, m : MergeLists(s, m) = mergeSortedLists(s, m),
         NEW list \in Seq(Int)
  PROVE  RoutinesFit(list)
<1>1. ASSUME NEW n \in Trials, NEW t \in DOMAIN TrialSorts(n), NEW s \in Within(list),
             ~Refuses(TrialSorts(n)[t], s)
      PROVE  SortsWithin(list, TrialSorts(n)[t], s)
  <2>1. PICK type : type = TrialSorts(n)[t]
    OBVIOUS
  <2>2. type \in SortTypes
    <3>1. DOMAIN <<"QUICK_SORT", "SELECTION_SORT">> = 1 .. 2
      OBVIOUS
    <3>2. DOMAIN <<"MERGE_SORT", "BUBBLE_SORT", "SHELL_SORT", "INSERTION_SORT">> = 1 .. 4
      OBVIOUS
    <3>3. CASE n = 1
      BY <2>1, <3>1, <3>3 DEF TrialSorts, SortTypes
    <3>4. CASE n # 1
      BY <2>1, <3>2, <3>4 DEF TrialSorts, SortTypes
    <3> QED
      BY <3>3, <3>4
  <2>3. s # <<>> \/ type \notin {"QUICK_SORT", "SELECTION_SORT"}
    BY <1>1, <2>1 DEF Refuses
  <2>4. s \in Seq(Int) /\ Len(s) <= Len(list) /\ Entries(s) \subseteq Entries(list)
    BY WithinLists
  <2>5. PICK r : r = SortPiece(type, s) /\ r = SortOnThread(type, s)
    OBVIOUS
  <2>6. SortedFrom(r, s)
    BY <2>2, <2>3, <2>4, <2>5, SortOnThreadFrom
  <2>7. /\ r \in Within(list) /\ Ascending(r) /\ Len(r) = Len(s)
        /\ \A x \in Entries(list) : Occurrences(x, r) = Occurrences(x, s)
    BY <2>4, <2>6, FromWithin
  <2> QED
    BY <2>1, <2>5, <2>7 DEF SortsWithin
<1>2. ASSUME NEW s \in Within(list), NEW m \in Within(list), Ascending(s), Ascending(m),
             Len(s) + Len(m) <= Len(list)
      PROVE  MergesWithin(list, s, m)
  <2>1. /\ s \in Seq(Int) /\ Entries(s) \subseteq Entries(list)
        /\ m \in Seq(Int) /\ Entries(m) \subseteq Entries(list)
    BY WithinLists
  <2>2. Sorted(s) /\ Sorted(m)
    BY <1>2, <2>1, AscendingIs
  <2>3. PICK u \in Seq(Int) : u = s \o m
    BY <2>1, ConcatProperties
  <2>4. PICK r : r = MergeLists(s, m) /\ r = mergeSortedLists(s, m)
    OBVIOUS
  <2>5. SortedFrom(r, u)
    BY <2>1, <2>2, <2>3, <2>4, MergeSortedListsFrom
  <2>6. Len(u) = Len(s) + Len(m) /\ Len(u) <= Len(list)
    BY <1>2, <2>1, <2>3, ConcatProperties
  <2>7. Entries(u) \subseteq Entries(list)
    <3>1. ASSUME NEW y \in DOMAIN u PROVE u[y] \in Entries(list)
      <4>1. u[y] = IF y <= Len(s) THEN s[y] ELSE m[y - Len(s)]
        BY <2>1, <2>3, <2>6, ConcatProperties
      <4>2. y \in 1 .. Len(s) + Len(m)
        BY <2>6
      <4>3. CASE y <= Len(s)
        <5>1. y \in DOMAIN s
          BY <2>1, <4>2, <4>3
        <5> QED
          BY <2>1, <4>1, <4>3, <5>1 DEF Entries
      <4>4. CASE ~(y <= Len(s))
        <5>1. y - Len(s) \in DOMAIN m
          BY <2>1, <4>2, <4>4
        <5> QED
          BY <2>1, <4>1, <4>4, <5>1 DEF Entries
      <4> QED
        BY <4>3, <4>4
    <3> QED
      BY <3>1 DEF Entries
  <2>8. /\ r \in Within(list) /\ Ascending(r) /\ Len(r) = Len(u)
        /\ \A x \in Entries(list) : Occurrences(x, r) = Occurrences(x, u)
    BY <2>5, <2>6, <2>7, FromWithin
  <2>9. \A x : Occurrences(x, u) = Occurrences(x, s) + Occurrences(x, m)
    BY <2>1, <2>3, OccurrencesJoined
  <2> QED
    BY <2>4, <2>6, <2>8, <2>9 DEF MergesWithin
<1> QED
  BY <1>1, <1>2 DEF RoutinesFit

=============================================================================
