------------------------ MODULE BoundedBufferProofs ------------------------
(***************************************************************************)
(* Theorems about BoundedBuffer, for any number of producers, consumers,   *)
(* elements, nodes and values and for both programs.                       *)
(*                                                                         *)
(* The types are not inductive by themselves: pop() sets head to the next  *)
(* field of the first node, a field push() never initialises, so that head *)
(* stays a pointer only because the queue is a chain of allocated nodes;   *)
(* and it stays one only because the halves of push() and pop() are kept   *)
(* apart.  QueueInv collects the three, for as long as there has been no   *)
(* race at the queue; IInv adds what holds of the mutex and of main's work *)
(* even after one.  That there is no race before main takes the queue      *)
(* away, and none at all when main joins every thread, follows with the    *)
(* join loops; that the queue implements FifoBuffer is at the end.         *)
(***************************************************************************)
EXTENDS BoundedBuffer, SumFacts, SequenceTheorems

\* The locals of pop(): set only while its caller is about to free the node,
\* and never the same node for two callers.
TempsOK ==
  /\ \A t \in Threads : temp[t] # NULL => t \in Poppers /\ pc[t] = "finish"
  /\ temp[Main] # NULL => mpc \in {"free", "crashed"}
  /\ \A t, u \in Threads \cup {Main} :
       temp[t] # NULL /\ temp[t] = temp[u] => t = u

\* One thread at a time is at the queue, and none once main is.
Alone ==
  /\ \A t, u \in Critical : t = u
  /\ MainAtQueue => Critical = {}

QueueInv == ~torn /\ TypeOK /\ Alone /\ TempsOK /\ QueueChainIntact

\* A thread main has still to create has not started.
NotStarted ==
  mpc = "create" => \A t \in Threads : t >= k => pc[t] = "unborn"

\* The mutex is destroyed, and a race comes, only when main is at the queue.
TornLate == torn \/ lock = 2 => MainAtQueue \/ mpc \in {"exited", "crashed"}

IInv ==
  TypeOK /\ MutualExclusion /\ NotStarted /\ TornLate /\ (~torn => QueueInv)

-----------------------------------------------------------------------------
\* Every thread runs one of the two routines; main is not a thread.
LEMMA Roles ==
  /\ Pushers \subseteq Threads
  /\ Poppers = Threads \ Pushers
  /\ Main \notin Threads
BY CountsAssumption DEF Pushers, Poppers, Threads, Producers, Main

\* The set of threads is finite.
LEMMA ThreadsFinite == IsFiniteSet(Threads)
BY CountsAssumption, FS_Interval DEF Threads

\* A queue that is not empty has a first node, and it is allocated.
LEMMA HeadAllocated ==
  ASSUME ~torn, TypeOK, QueueChainIntact, size # 0
  PROVE  head \in alloc /\ head \in Nodes
<1>1. Linked \in Nat /\ Linked >= 1
  BY DEF TypeOK, Linked
<1>2. PICK s \in [1 .. Linked -> alloc] : IsChain(s)
  BY DEF QueueChainIntact
<1>3. head = s[1] /\ 1 \in 1 .. Linked
  BY <1>1, <1>2 DEF IsChain
<1> QED
  BY <1>3 DEF TypeOK

\* So is the last one.
LEMMA TailAllocated ==
  ASSUME ~torn, TypeOK, QueueChainIntact, size # 0
  PROVE  tail \in alloc /\ tail \in Nodes
<1>1. Linked \in Nat /\ Linked >= 1
  BY DEF TypeOK, Linked
<1>2. PICK s \in [1 .. Linked -> alloc] : IsChain(s)
  BY DEF QueueChainIntact
<1>3. tail = s[Linked] /\ Linked \in 1 .. Linked
  BY <1>1, <1>2 DEF IsChain
<1> QED
  BY <1>3 DEF TypeOK

-----------------------------------------------------------------------------
(***************************************************************************)
(* The inductive invariant holds initially.                                *)
(***************************************************************************)
LEMMA InitQueueInv == Init => QueueInv
<1> SUFFICES ASSUME Init PROVE QueueInv
  OBVIOUS
<1>1. TypeOK
  BY CountsAssumption, ArgQuitAssumption DEF Init, TypeOK, Program, Project4a,
     PartOne, MainStates, ThreadStates, Pointers
<1>2. Alone /\ ~torn
  BY DEF Init, Alone, Critical
<1>3. TempsOK
  BY DEF Init, TempsOK
<1>4. QueueChainIntact
  <2>1. Linked = 0
    BY Roles DEF Init, Linked
  <2>2. InTransit = {}
    BY DEF Init, InTransit
  <2>3. [i \in 1 .. Linked |-> NULL] \in [1 .. Linked -> alloc]
    BY <2>1
  <2>4. IsChain([i \in 1 .. Linked |-> NULL])
    BY <2>1, <2>2 DEF IsChain, Init
  <2> QED
    BY <2>3, <2>4 DEF QueueChainIntact
<1> QED
  BY <1>1, <1>2, <1>3, <1>4 DEF QueueInv

-----------------------------------------------------------------------------
(***************************************************************************)
(* The steps that leave the queue alone.                                   *)
(***************************************************************************)
\* The chain is a fact about the queue and the number of linked nodes alone.
LEMMA ChainKept ==
  ASSUME ~torn, QueueChainIntact, UNCHANGED queueVars, Linked' = Linked
  PROVE  QueueChainIntact'
<1>1. InTransit' = InTransit
  BY DEF queueVars, InTransit
<1>2. PICK s \in [1 .. Linked -> alloc] : IsChain(s)
  BY DEF QueueChainIntact
<1>3. IsChain(s)'
  BY <1>1, <1>2 DEF IsChain, queueVars
<1>4. s \in [1 .. Linked' -> alloc']
  BY <1>2 DEF queueVars
<1> QED
  BY <1>3, <1>4 DEF QueueChainIntact

\* A thread that moves between labels outside the region of the mutex and
\* leaves the queue alone.
LEMMA OutsideStep ==
  ASSUME QueueInv, NEW t \in Threads, NEW l \in ThreadStates,
         pc[t] \notin {"access", "finish", "unlock"},
         l \notin {"access", "finish", "unlock"},
         Goto(t, l), UNCHANGED <<lock, queueVars, torn>>,
         mpc' = mpc \/ (mpc \notin {"free", "crashed"} /\ mpc' = "create"),
         mpc' \in MainStates, k' \in Nat, quit' \in {0, 1}, done' \in {0, 1},
         empty' \in Nat, full' \in Nat
  PROVE  QueueInv'
<1> USE DEF QueueInv
<1>1. TypeOK'
  BY DEF TypeOK, Goto, queueVars
<1>2. Critical' = Critical
  BY DEF Critical, Goto, TypeOK
<1>3. Alone'
  BY <1>2 DEF Alone, MainAtQueue
<1>4. TempsOK'
  BY DEF TempsOK, Goto, TypeOK, queueVars
<1>5. Linked' = Linked
  BY Roles DEF Linked, Goto, TypeOK, queueVars
<1>6. QueueChainIntact'
  BY <1>5, ChainKept
<1> QED
  BY <1>1, <1>3, <1>4, <1>6

\* A step of main that touches neither the queue nor the threads.
LEMMA MainQuietStep ==
  ASSUME QueueInv, UNCHANGED <<pc, empty, full, queueVars>>, ~torn',
         torn' \in BOOLEAN, lock' \in {0, 1, 2}, mpc \notin {"free", "crashed"},
         MainAtQueue' => MainAtQueue \/ Critical = {},
         mpc' \in MainStates, k' \in Nat, quit' \in {0, 1}, done' \in {0, 1}
  PROVE  QueueInv'
<1> USE DEF QueueInv
<1>1. TypeOK'
  BY DEF TypeOK, queueVars
<1>2. Critical' = Critical
  BY DEF Critical
<1>3. Alone'
  BY <1>2 DEF Alone
<1>4. TempsOK'
  BY DEF TempsOK, queueVars
<1>5. Linked' = Linked
  BY DEF Linked, queueVars
<1>6. QueueChainIntact'
  BY <1>5, ChainKept
<1> QED
  BY <1>1, <1>3, <1>4, <1>6

\* Taking the mutex, or passing it, without a race: nobody is at the queue.
LEMMA LockQueueInv ==
  ASSUME QueueInv, NEW t \in Threads, Lock(t), ~torn'
  PROVE  QueueInv'
<1> USE DEF QueueInv
<1>1. TypeOK'
  BY DEF TypeOK, Lock, Goto, queueVars, mainVars, ThreadStates
<1>2. Linked' = Linked
  BY Roles DEF Linked, Lock, Goto, TypeOK, queueVars
<1>3. QueueChainIntact'
  BY <1>2, ChainKept DEF Lock
<1>4. TempsOK'
  BY DEF TempsOK, Lock, Goto, TypeOK, queueVars, mainVars
<1>5. Alone'
  <2>1. Critical = {} /\ ~MainAtQueue
    BY DEF Lock
  <2>2. Critical' = {t}
    BY <2>1 DEF Lock, Goto, Critical, TypeOK
  <2> QED
    BY <2>1, <2>2 DEF Alone, MainAtQueue, Lock, mainVars
<1> QED
  BY <1>1, <1>3, <1>4, <1>5

\* Releasing it lets nobody in.
LEMMA UnlockQueueInv ==
  ASSUME QueueInv, NEW t \in Threads, Unlock(t)
  PROVE  QueueInv'
<1> USE DEF QueueInv
<1>1. TypeOK'
  BY DEF TypeOK, Unlock, Goto, queueVars, mainVars, ThreadStates
<1>2. Linked' = Linked
  BY Roles DEF Linked, Unlock, Goto, TypeOK, queueVars
<1>3. QueueChainIntact'
  BY <1>2, ChainKept DEF Unlock
<1>4. TempsOK'
  BY DEF TempsOK, Unlock, Goto, TypeOK, queueVars, mainVars
<1>5. Critical = {t}
  BY DEF Alone, Critical, Unlock
<1>6. Critical' = {}
  BY <1>5 DEF Unlock, Goto, Critical, TypeOK
<1>7. Alone'
  BY <1>6 DEF Alone
<1> QED
  BY <1>1, <1>3, <1>4, <1>7 DEF Unlock

-----------------------------------------------------------------------------
(***************************************************************************)
(* The steps of push().                                                    *)
(***************************************************************************)
LEMMA PushLinkQueueInv ==
  ASSUME QueueInv, NEW t \in Threads, PushLink(t)
  PROVE  QueueInv'
<1> USE DEF QueueInv
<1>1. Critical = {t} /\ Critical' = {t}
  BY DEF Alone, Critical, PushLink, Goto, TypeOK
<1>2. Alone' /\ ~torn'
  BY <1>1 DEF Alone, MainAtQueue, PushLink, mainVars
<1>3. ~ \E u \in Pushers : pc[u] = "finish"
  BY <1>1, Roles DEF Critical, PushLink
<1>4. Linked = size /\ size \in Nat
  BY <1>3 DEF Linked, TypeOK
<1>5. CASE HasRoom
  <2>1. PICK n \in Nodes \ alloc, v \in Values, garbage \in Pointers :
          /\ alloc' = alloc \cup {n}
          /\ data' = [data EXCEPT ![n] = v]
          /\ next' = IF size = 0
                     THEN [next EXCEPT ![n] = garbage]
                     ELSE [next EXCEPT ![n] = garbage, ![tail] = n]
          /\ head' = IF size = 0 THEN n ELSE head
          /\ tail' = n
          /\ pc' = [pc EXCEPT ![t] = "finish"]
    BY <1>5 DEF PushLink, Goto
  <2>2. TypeOK'
    BY <2>1 DEF TypeOK, PushLink, semVars, mainVars, ThreadStates, Pointers
  <2>3. TempsOK'
    BY <2>1 DEF TempsOK, TypeOK, PushLink, mainVars
  <2>4. QueueChainIntact'
    <3>1. t \in Pushers /\ pc'[t] = "finish"
      BY <2>1 DEF PushLink, TypeOK
    <3>2. Linked' = size + 1
      BY <3>1 DEF Linked, PushLink
    <3>3. InTransit' = InTransit
      BY DEF InTransit, PushLink
    <3>4. PICK s \in [1 .. size -> alloc] : IsChain(s)
      BY <1>4 DEF QueueChainIntact
    <3>5. n \notin InTransit
      BY <2>1, <3>4 DEF IsChain
    <3>r. PICK r : r = [i \in 1 .. (size + 1) |->
                          IF i = size + 1 THEN n ELSE s[i]]
      OBVIOUS
    <3>6. r \in [1 .. Linked' -> alloc']
      BY <1>4, <2>1, <3>2, <3>4, <3>r
    <3>7. \A i, j \in 1 .. (size + 1) : r[i] = r[j] => i = j
      BY <1>4, <2>1, <3>4, <3>r DEF IsChain
    <3>8. head' = r[1] /\ tail' = r[size + 1]
      BY <1>4, <2>1, <3>4, <3>r DEF IsChain
    <3>9. \A i \in 1 .. (size + 1) : i < size + 1 => next'[r[i]] = r[i + 1]
      <4> SUFFICES ASSUME NEW i \in 1 .. (size + 1), i < size + 1
                   PROVE  next'[r[i]] = r[i + 1]
        OBVIOUS
      <4>5. i \in 1 .. size
        BY <1>4
      <4>1. size # 0 /\ tail = s[size] /\ tail \in Nodes /\ s[i] \in Nodes
        BY <1>4, <4>5, <3>4, <3>r, TailAllocated DEF IsChain, TypeOK
      <4>2. r[i] = s[i] /\ s[i] # n
        BY <1>4, <2>1, <3>4, <3>r, <4>5
      <4>3. CASE i = size
        BY <1>4, <2>1, <3>r, <4>1, <4>2, <4>3 DEF TypeOK
      <4>4. CASE i # size
        <5>1. i < size /\ r[i + 1] = s[i + 1]
          BY <1>4, <3>r, <4>4, <4>5
        <5>2. s[i] # tail /\ next[s[i]] = s[i + 1]
          BY <1>4, <3>4, <3>r, <4>1, <4>4, <4>5, <5>1 DEF IsChain
        <5> QED
          BY <2>1, <4>1, <4>2, <5>1, <5>2 DEF TypeOK
      <4> QED
        BY <4>3, <4>4
    <3>10. \A i \in 1 .. (size + 1) : r[i] \notin InTransit
      BY <1>4, <3>4, <3>r, <3>5 DEF IsChain
    <3>11. alloc' = {r[i] : i \in 1 .. (size + 1)} \cup InTransit
      <4>1. {r[i] : i \in 1 .. (size + 1)} = {s[i] : i \in 1 .. size} \cup {n}
        BY <1>4, <3>r
      <4> QED
        BY <1>4, <2>1, <3>4, <3>r, <4>1 DEF IsChain
    <3>12. IsChain(r)'
      BY <3>2, <3>3, <3>7, <3>8, <3>9, <3>10, <3>11, <1>4 DEF IsChain
    <3> QED
      BY <3>6, <3>12 DEF QueueChainIntact
  <2> QED
    BY <1>2, <2>2, <2>3, <2>4
<1>6. CASE ~HasRoom
  <2>1. UNCHANGED queueVars /\ pc' = [pc EXCEPT ![t] = "unlock"]
    BY <1>6 DEF PushLink, queueVars, nodeVars, Goto
  <2>2. TypeOK'
    BY <2>1 DEF TypeOK, PushLink, queueVars, semVars, mainVars, ThreadStates
  <2>3. TempsOK'
    BY <2>1 DEF TempsOK, TypeOK, PushLink, mainVars, queueVars
  <2>4. Linked' = Linked
    BY <2>1, Roles DEF Linked, TypeOK, queueVars, PushLink
  <2> QED
    BY <1>2, <2>1, <2>2, <2>3, <2>4, ChainKept
<1> QED
  BY <1>5, <1>6

\* Counting the node makes size catch up with the links.
LEMMA PushCountQueueInv ==
  ASSUME QueueInv, NEW t \in Threads, PushCount(t)
  PROVE  QueueInv'
<1> USE DEF QueueInv
<1>1. Critical = {t} /\ Critical' = {t}
  BY DEF Alone, Critical, PushCount, Goto, TypeOK
<1>2. Alone' /\ ~torn'
  BY <1>1 DEF Alone, MainAtQueue, PushCount, mainVars
<1>3. TypeOK'
  BY DEF TypeOK, PushCount, Goto, nodeVars, semVars, mainVars, ThreadStates
<1>4. TempsOK'
  BY Roles DEF TempsOK, TypeOK, PushCount, Goto, mainVars
<1>5. Linked' = Linked
  <2>1. t \in Pushers /\ pc[t] = "finish"
    BY DEF PushCount
  <2>2. ~ \E u \in Pushers : pc'[u] = "finish"
    BY <1>1, Roles DEF Critical, PushCount, Goto, TypeOK
  <2> QED
    BY <2>1, <2>2 DEF Linked, PushCount, TypeOK
<1>6. QueueChainIntact'
  <2>1. InTransit' = InTransit
    BY DEF InTransit, PushCount
  <2>2. PICK s \in [1 .. Linked -> alloc] : IsChain(s)
    BY DEF QueueChainIntact
  <2>3. IsChain(s)'
    BY <1>5, <2>1, <2>2 DEF IsChain, PushCount, nodeVars
  <2> QED
    BY <1>5, <2>2, <2>3 DEF QueueChainIntact, PushCount, nodeVars
<1> QED
  BY <1>2, <1>3, <1>4, <1>6

-----------------------------------------------------------------------------
(***************************************************************************)
(* The steps of pop(), called by a consumer or by main.                    *)
(***************************************************************************)
\* Unlinking the first node takes it out of the chain and puts it in transit.
LEMMA UnlinkHeadChain ==
  ASSUME QueueInv, NEW u \in Threads \cup {Main}, size # 0, temp[u] = NULL,
         UnlinkHead(u), Linked' = Linked - 1
  PROVE  /\ QueueChainIntact'
         /\ head' \in Pointers /\ size' \in Nat
         /\ temp' = [temp EXCEPT ![u] = head]
         /\ head \in Nodes
         /\ \A v \in Threads \cup {Main} : temp[v] # head
<1> USE DEF QueueInv
<1>1. Linked \in Nat /\ Linked >= 1
  BY DEF TypeOK, Linked
<1>2. head \in alloc /\ head \in Nodes
  BY HeadAllocated
<1>3. PICK s \in [1 .. Linked -> alloc] : IsChain(s)
  BY DEF QueueChainIntact
<1>4. head = s[1] /\ 1 \in 1 .. Linked
  BY <1>1, <1>3 DEF IsChain
<1>5. head \notin InTransit
  BY <1>3, <1>4 DEF IsChain
<1>6. \A v \in Threads \cup {Main} : temp[v] # head
  BY <1>2, <1>5, NullAssumption DEF InTransit
<1>7. InTransit' = InTransit \cup {head}
  BY <1>2, NullAssumption DEF InTransit, UnlinkHead, TypeOK
<1>r. PICK r : r = [i \in 1 .. (Linked - 1) |-> s[i + 1]]
  OBVIOUS
<1>8. r \in [1 .. Linked' -> alloc']
  BY <1>1, <1>3, <1>r DEF UnlinkHead, nodeVars
<1>9. \A i, j \in 1 .. (Linked - 1) : r[i] = r[j] => i = j
  BY <1>1, <1>3, <1>r DEF IsChain
<1>10. Linked - 1 # 0 => head' = r[1] /\ tail' = r[Linked - 1]
  BY <1>1, <1>3, <1>r, <1>4 DEF IsChain, UnlinkHead
<1>11. \A i \in 1 .. (Linked - 1) :
         i < Linked - 1 => next'[r[i]] = r[i + 1]
  BY <1>1, <1>3, <1>r DEF IsChain, UnlinkHead, nodeVars
<1>12. \A i \in 1 .. (Linked - 1) : r[i] \notin InTransit'
  BY <1>1, <1>3, <1>r, <1>4, <1>7 DEF IsChain
<1>13. alloc' = {r[i] : i \in 1 .. (Linked - 1)} \cup InTransit'
  <2>1. {s[i] : i \in 1 .. Linked} =
          {s[1]} \cup {s[i + 1] : i \in 1 .. (Linked - 1)}
    <3>1. \A i \in 1 .. Linked : i = 1 \/ i - 1 \in 1 .. (Linked - 1)
      BY <1>1
    <3>2. \A i \in 1 .. Linked : i = (i - 1) + 1
      BY <1>1
    <3>3. \A i \in 1 .. (Linked - 1) : i + 1 \in 1 .. Linked
      BY <1>1
    <3> QED
      BY <1>4, <3>1, <3>2, <3>3
  <2>2. {r[i] : i \in 1 .. (Linked - 1)} = {s[i + 1] : i \in 1 .. (Linked - 1)}
    BY <1>r
  <2>3. alloc' = {s[i] : i \in 1 .. Linked} \cup InTransit
    BY <1>3 DEF IsChain, UnlinkHead, nodeVars
  <2> QED
    BY <1>4, <1>7, <2>1, <2>2, <2>3
<1>14. IsChain(r)'
  BY <1>9, <1>10, <1>11, <1>12, <1>13 DEF IsChain, UnlinkHead
<1>15. next[head] \in Pointers
  BY <1>2 DEF TypeOK
<1> QED
  BY <1>2, <1>6, <1>8, <1>14, <1>15 DEF QueueChainIntact, UnlinkHead, TypeOK

\* Freeing a node takes it out of transit.
LEMMA FreeNodeChain ==
  ASSUME QueueInv, NEW u \in Threads \cup {Main}, FreeNode(u), Linked' = Linked
  PROVE  QueueChainIntact'
<1> USE DEF QueueInv
<1>1. PICK s \in [1 .. Linked -> alloc] : IsChain(s)
  BY DEF QueueChainIntact
<1>2. InTransit' = InTransit \ {temp[u]}
  <2>1. \A v \in Threads \cup {Main} :
          temp'[v] = IF v = u THEN NULL ELSE temp[v]
    BY DEF FreeNode, TypeOK
  <2>2. \A v \in Threads \cup {Main} :
          temp[v] # NULL /\ temp[v] = temp[u] => v = u
    BY DEF TempsOK
  <2> QED
    BY <2>1, <2>2 DEF InTransit
<1>3. temp[u] \in InTransit \/ temp[u] = NULL
  BY DEF InTransit
<1>4. \A i \in 1 .. Linked : s[i] # temp[u]
  BY <1>1, <1>3, NullAssumption DEF IsChain, TypeOK
<1>5. s \in [1 .. Linked' -> alloc']
  BY <1>1, <1>4 DEF FreeNode
<1>6. alloc' = {s[i] : i \in 1 .. Linked} \cup InTransit'
  BY <1>1, <1>2, <1>4 DEF IsChain, FreeNode
<1>7. IsChain(s)'
  BY <1>1, <1>2, <1>6 DEF IsChain, FreeNode
<1> QED
  BY <1>5, <1>7 DEF QueueChainIntact

\* A pop() by a thread takes the first node off the chain.
LEMMA PopUnlinkQueueInv ==
  ASSUME QueueInv, NEW t \in Threads, PopUnlink(t)
  PROVE  QueueInv'
<1> USE DEF QueueInv
<1>1. Critical = {t} /\ Critical' = {t}
  BY DEF Alone, Critical, PopUnlink, Goto, TypeOK
<1>2. Alone' /\ ~torn'
  BY <1>1 DEF Alone, MainAtQueue, PopUnlink, mainVars
<1>3. ~ \E u \in Pushers : pc[u] = "finish"
  BY <1>1, Roles DEF Critical, PopUnlink
<1>4. ~ \E u \in Pushers : pc'[u] = "finish"
  BY <1>1, <1>3, Roles DEF PopUnlink, Goto, TypeOK
<1>5. temp[t] = NULL
  BY DEF TempsOK, PopUnlink
<1>6. CASE size # 0
  <2>1. UnlinkHead(t) /\ pc' = [pc EXCEPT ![t] = "finish"]
    BY <1>6 DEF PopUnlink, Goto
  <2>2. Linked' = Linked - 1
    BY <1>3, <1>4, <2>1 DEF Linked, UnlinkHead, TypeOK
  <2>3. /\ QueueChainIntact'
        /\ head' \in Pointers /\ size' \in Nat
        /\ temp' = [temp EXCEPT ![t] = head]
        /\ head \in Nodes
        /\ \A v \in Threads \cup {Main} : temp[v] # head
    BY <1>5, <1>6, <2>1, <2>2, UnlinkHeadChain
  <2>4. TypeOK'
    BY <2>1, <2>3 DEF TypeOK, PopUnlink, UnlinkHead, nodeVars, semVars,
       mainVars, ThreadStates, Pointers
  <2>5. TempsOK'
    <3>1. t # Main /\ t \in Poppers
      BY Roles DEF PopUnlink
    <3> QED
      BY <2>1, <2>3, <3>1 DEF TempsOK, TypeOK, PopUnlink, mainVars
  <2> QED
    BY <1>2, <2>3, <2>4, <2>5
<1>7. CASE size = 0
  <2>1. UNCHANGED queueVars /\ pc' = [pc EXCEPT ![t] = "unlock"]
    BY <1>7 DEF PopUnlink, Goto
  <2>2. TypeOK'
    BY <2>1 DEF TypeOK, PopUnlink, queueVars, semVars, mainVars, ThreadStates
  <2>3. TempsOK'
    BY <2>1 DEF TempsOK, TypeOK, PopUnlink, mainVars, queueVars
  <2>4. Linked' = Linked
    BY <1>3, <1>4, <2>1 DEF Linked, queueVars
  <2> QED
    BY <1>2, <2>1, <2>2, <2>3, <2>4, ChainKept
<1> QED
  BY <1>6, <1>7

\* What it frees is not on the chain.
LEMMA PopFreeQueueInv ==
  ASSUME QueueInv, NEW t \in Threads, PopFree(t)
  PROVE  QueueInv'
<1> USE DEF QueueInv
<1>1. Critical = {t} /\ Critical' = {t}
  BY DEF Alone, Critical, PopFree, Goto, TypeOK
<1>2. Alone' /\ ~torn'
  BY <1>1 DEF Alone, MainAtQueue, PopFree, mainVars
<1>3. TypeOK'
  BY DEF TypeOK, PopFree, FreeNode, Goto, semVars, mainVars, ThreadStates,
     Pointers
<1>4. TempsOK'
  BY DEF TempsOK, TypeOK, PopFree, FreeNode, Goto, mainVars
<1>5. Linked' = Linked
  BY Roles DEF Linked, PopFree, FreeNode, Goto, TypeOK
<1>6. QueueChainIntact'
  BY <1>5, FreeNodeChain DEF PopFree
<1> QED
  BY <1>2, <1>3, <1>4, <1>6

\* A pop() by main takes off the first node.
LEMMA EmptyQQueueInv ==
  ASSUME QueueInv, EmptyQ
  PROVE  QueueInv'
<1> USE DEF QueueInv
<1>1. temp[Main] = NULL
  BY DEF TempsOK, EmptyQ
<1>2. size # 0
  BY DEF TypeOK, EmptyQ
<1>3. UnlinkHead(Main) /\ ~torn'
  BY DEF EmptyQ
<1>4. Linked' = Linked - 1
  BY <1>2 DEF Linked, EmptyQ, UnlinkHead, TypeOK
<1>5. /\ QueueChainIntact'
      /\ head' \in Pointers /\ size' \in Nat
      /\ temp' = [temp EXCEPT ![Main] = head]
      /\ head \in Nodes
      /\ \A v \in Threads \cup {Main} : temp[v] # head
  BY <1>1, <1>2, <1>3, <1>4, UnlinkHeadChain
<1>6. TypeOK'
  BY <1>3, <1>5 DEF TypeOK, EmptyQ, UnlinkHead, GotoMain, nodeVars, semVars,
     MainStates, Pointers
<1>7. TempsOK'
  BY <1>5, Roles DEF TempsOK, TypeOK, EmptyQ, GotoMain
<1>8. Alone'
  BY DEF Alone, MainAtQueue, Critical, EmptyQ, GotoMain
<1> QED
  BY <1>3, <1>5, <1>6, <1>7, <1>8

\* What main frees is not on the chain.
LEMMA EmptyQFreeQueueInv ==
  ASSUME QueueInv, EmptyQFree
  PROVE  QueueInv'
<1> USE DEF QueueInv
<1>1. TypeOK'
  BY DEF TypeOK, EmptyQFree, FreeNode, GotoMain, semVars, MainStates, Pointers
<1>2. TempsOK'
  BY Roles DEF TempsOK, TypeOK, EmptyQFree, FreeNode, GotoMain
<1>3. Alone' /\ ~torn'
  BY DEF Alone, MainAtQueue, Critical, EmptyQFree, GotoMain
<1>4. Linked' = Linked
  BY DEF Linked, EmptyQFree, FreeNode
<1>5. QueueChainIntact'
  BY <1>4, FreeNodeChain DEF EmptyQFree
<1> QED
  BY <1>1, <1>2, <1>3, <1>5

-----------------------------------------------------------------------------
(***************************************************************************)
(* Every step preserves the inductive invariant.                           *)
(***************************************************************************)
\* No step of a thread breaks the queue, but a race.
LEMMA ThreadStepQueueInv ==
  ASSUME QueueInv, NEW t \in Threads, ThreadStep(t), ~torn'
  PROVE  QueueInv'
<1>1. CASE SemWait(t)
  <2>1. empty' \in Nat /\ full' \in Nat
    BY <1>1 DEF SemWait, QueueInv, TypeOK
  <2> QED
    BY <1>1, <2>1, OutsideStep
    DEF SemWait, QueueInv, TypeOK, ThreadStates, mainVars
<1>2. CASE Lock(t)
  BY <1>2, LockQueueInv
<1>3. CASE PushLink(t)
  BY <1>3, PushLinkQueueInv
<1>4. CASE PushCount(t)
  BY <1>4, PushCountQueueInv
<1>5. CASE PopUnlink(t)
  BY <1>5, PopUnlinkQueueInv
<1>6. CASE PopFree(t)
  BY <1>6, PopFreeQueueInv
<1>7. CASE Unlock(t)
  BY <1>7, UnlockQueueInv
<1>8. CASE SemPost(t)
  <2>1. empty' \in Nat /\ full' \in Nat
    BY <1>8 DEF SemPost, QueueInv, TypeOK
  <2> QED
    BY <1>8, <2>1, OutsideStep
    DEF SemPost, QueueInv, TypeOK, ThreadStates, mainVars
<1>9. CASE Again(t)
  <2>1. CASE Goto(t, "wait")
    BY <1>9, <2>1, OutsideStep
    DEF Again, QueueInv, TypeOK, ThreadStates, mainVars, semVars
  <2>2. CASE Goto(t, "exited")
    BY <1>9, <2>2, OutsideStep
    DEF Again, QueueInv, TypeOK, ThreadStates, mainVars, semVars
  <2> QED
    BY <1>9, <2>1, <2>2 DEF Again
<1>10. ~TornAccess(t)
  BY DEF TornAccess, QueueInv
<1> QED
  BY <1>1, <1>2, <1>3, <1>4, <1>5, <1>6, <1>7, <1>8, <1>9, <1>10
  DEF ThreadStep

\* No step of main breaks the queue, but a race.
LEMMA MainStepQueueInv ==
  ASSUME IInv, QueueInv, MainStep, ~torn'
  PROVE  QueueInv'
<1>0. TypeOK
  BY DEF QueueInv
<1>1. CASE Create
  <2>1. k \in Threads /\ pc[k] = "unborn" /\ k \in Nat
    BY <1>1, CountsAssumption DEF Create, IInv, NotStarted, Threads
  <2>2. /\ "wait" \in ThreadStates /\ Goto(k, "wait")
        /\ UNCHANGED <<lock, queueVars, torn>> /\ empty' \in Nat
        /\ full' \in Nat
    BY <1>0, <1>1 DEF Create, TypeOK, ThreadStates, semVars
  <2>3. /\ mpc' = mpc /\ mpc' \in MainStates /\ k' \in Nat
        /\ quit' \in {0, 1} /\ done' \in {0, 1}
    BY <1>0, <1>1, <2>1 DEF Create, GotoMain, TypeOK
  <2> QED
    BY <2>1, <2>2, <2>3, OutsideStep
<1>2. CASE CreateFails \/ AfterCreate \/ Stop
  BY <1>0, <1>2, MainQuietStep
  DEF CreateFails, AfterCreate, Stop, GotoMain, TypeOK, MainStates, semVars,
      MainAtQueue
<1>3. CASE Join \/ JoinGarbage \/ AfterJoin
  BY <1>0, <1>3, MainQuietStep
  DEF Join, JoinGarbage, AfterJoin, GotoMain, TypeOK, MainStates, semVars,
      MainAtQueue
<1>4. CASE PrintAndDestroy
  <2>1. lock' \in {0, 1, 2}
    BY <1>0, <1>4 DEF PrintAndDestroy, TypeOK
  <2>2. MainAtQueue' => Critical = {}
    BY <1>4 DEF PrintAndDestroy, GotoMain, MainAtQueue
  <2>3. torn' \in BOOLEAN
    BY <1>0, <1>4, Zenon DEF PrintAndDestroy, TypeOK
  <2> QED
    BY <1>0, <1>4, <2>1, <2>2, <2>3, MainQuietStep
    DEF PrintAndDestroy, GotoMain, TypeOK, MainStates
<1>5. CASE EmptyQ
  BY <1>5, EmptyQQueueInv
<1>6. CASE EmptyQFree
  BY <1>6, EmptyQFreeQueueInv
<1>7. CASE FreeQueue \/ Exit
  BY <1>0, <1>7, MainQuietStep
  DEF FreeQueue, Exit, GotoMain, TypeOK, MainStates, semVars, MainAtQueue
<1>8. ~EmptyQTorn
  BY DEF EmptyQTorn, QueueInv
<1> QED
  BY <1>1, <1>2, <1>3, <1>4, <1>5, <1>6, <1>7, <1>8 DEF MainStep

\* The mutex is destroyed, and a race comes, only when main is at the queue.
LEMMA NextTornLate ==
  ASSUME IInv, Next
  PROVE  TornLate'
<1> USE DEF TornLate, MainAtQueue, IInv
<1>1. CASE MainStep
  BY <1>1
  DEF MainStep, Create, CreateFails, AfterCreate, Stop, Join, JoinGarbage,
      AfterJoin, PrintAndDestroy, EmptyQ, EmptyQFree, EmptyQTorn, FreeQueue,
      Exit, GotoMain, semVars
<1>2. ASSUME NEW t \in Threads, Lock(t)
      PROVE  TornLate'
  <2>1. lock = 0 \/ lock = 2
    BY <1>2 DEF Lock, TypeOK
  <2>2. lock = 0 => Critical = {}
    BY DEF MutualExclusion
  <2>3. torn' => torn \/ Critical # {} \/ MainAtQueue
    BY <1>2, Zenon DEF Lock
  <2> QED
    BY <1>2, <2>1, <2>2, <2>3 DEF Lock, mainVars
<1>3. ASSUME NEW t \in Threads, ThreadStep(t), ~Lock(t)
      PROVE  TornLate'
  BY <1>3
  DEF ThreadStep, SemWait, PushLink, PushCount, PopUnlink, PopFree,
      TornAccess, Unlock, SemPost, Again, mainVars, semVars
<1> QED
  BY <1>1, <1>2, <1>3 DEF Next

\* A mutex that is not destroyed does its work, race or no race.
LEMMA NextMutualExclusion ==
  ASSUME IInv, Next
  PROVE  MutualExclusion'
<1> USE DEF IInv
<1>1. ASSUME Critical' = Critical, lock' = lock \/ lock' = 2
      PROVE  MutualExclusion'
  BY <1>1 DEF MutualExclusion
<1>2. CASE MainStep
  <2>1. lock' = lock \/ lock' = 2
    BY <1>2
    DEF MainStep, Create, CreateFails, AfterCreate, Stop, Join, JoinGarbage,
        AfterJoin, PrintAndDestroy, EmptyQ, EmptyQFree, EmptyQTorn,
        FreeQueue, Exit, semVars
  <2>2. CASE Create
    <3>1. k \in Threads /\ pc[k] = "unborn"
      BY <2>2, CountsAssumption DEF Create, NotStarted, Threads
    <3>2. Critical' = Critical
      BY <2>2, <3>1 DEF Create, Goto, Critical, TypeOK
    <3> QED
      BY <1>1, <2>1, <3>2
  <2>3. CASE ~Create
    <3>1. Critical' = Critical
      BY <1>2, <2>3
      DEF MainStep, CreateFails, AfterCreate, Stop, Join, JoinGarbage,
          AfterJoin, PrintAndDestroy, EmptyQ, EmptyQFree, EmptyQTorn,
          FreeQueue, Exit, Critical
    <3> QED
      BY <1>1, <2>1, <3>1
  <2> QED
    BY <2>2, <2>3
<1>3. ASSUME NEW t \in Threads, ThreadStep(t)
      PROVE  MutualExclusion'
  <2>1. CASE Lock(t)
    <3>1. CASE lock = 0
      <4>1. Critical = {}
        BY <3>1 DEF MutualExclusion
      <4>2. Critical' = {t}
        BY <2>1, <4>1 DEF Lock, Goto, Critical, TypeOK
      <4> QED
        BY <2>1, <3>1, <4>2 DEF Lock, MutualExclusion
    <3>2. CASE lock # 0
      BY <2>1, <3>2 DEF Lock, MutualExclusion
    <3> QED
      BY <3>1, <3>2
  <2>2. CASE Unlock(t)
    <3>1. CASE lock = 2
      BY <2>2, <3>1 DEF Unlock, MutualExclusion
    <3>2. CASE lock # 2
      <4>1. Critical = {t}
        BY <2>2, <3>2 DEF MutualExclusion, Unlock, Critical
      <4>2. Critical' = {}
        BY <2>2, <4>1 DEF Unlock, Goto, Critical, TypeOK
      <4> QED
        BY <2>2, <3>2, <4>2 DEF Unlock, MutualExclusion
    <3> QED
      BY <3>1, <3>2
  <2>3. CASE SemWait(t) \/ SemPost(t) \/ Again(t)
    <3>1. Critical' = Critical
      BY <2>3 DEF SemWait, SemPost, Again, Goto, Critical, TypeOK
    <3> QED
      BY <1>1, <2>3, <3>1 DEF SemWait, SemPost, Again, semVars
  <2>4. CASE PushLink(t) \/ PushCount(t) \/ PopUnlink(t) \/ PopFree(t)
    <3>1. Critical' = Critical
      BY <2>4
      DEF PushLink, PushCount, PopUnlink, PopFree, Goto, Critical, TypeOK
    <3> QED
      BY <1>1, <2>4, <3>1
      DEF PushLink, PushCount, PopUnlink, PopFree, semVars
  <2>5. CASE TornAccess(t)
    <3>1. Critical' = Critical
      BY <2>5 DEF TornAccess, Goto, Critical, TypeOK
    <3> QED
      BY <1>1, <2>5, <3>1 DEF TornAccess, semVars
  <2> QED
    BY <1>3, <2>1, <2>2, <2>3, <2>4, <2>5 DEF ThreadStep
<1> QED
  BY <1>2, <1>3 DEF Next

\* After a race only the queue has lost its types.
LEMMA TornTypes ==
  ASSUME IInv, Next, torn'
  PROVE  TypeOK'
<1> USE DEF IInv
<1>1. ASSUME mpc' \in MainStates, k' \in Nat, quit' \in {0, 1},
             done' \in {0, 1}, empty' \in Nat, full' \in Nat,
             lock' \in {0, 1, 2}, pc' \in [Threads -> ThreadStates],
             torn' \in BOOLEAN
      PROVE  TypeOK'
  BY <1>1 DEF TypeOK
<1>2. CASE MainStep
  <2>1. /\ mpc' \in MainStates /\ k' \in Nat /\ quit' \in {0, 1}
        /\ done' \in {0, 1}
    <3>1. k \in Nat /\ k + 1 \in Nat /\ mpc \in MainStates
      BY DEF TypeOK
    <3>2. quit' = quit /\ (done' = done \/ done' = 0)
      BY <1>2
      DEF MainStep, Create, CreateFails, AfterCreate, Stop, Join,
          JoinGarbage, AfterJoin, PrintAndDestroy, EmptyQ, EmptyQFree,
          EmptyQTorn, FreeQueue, Exit
    <3>3. mpc' \in MainStates /\ k' \in {0, 1, k, k + 1}
      BY <1>2, <3>1
      DEF MainStep, Create, CreateFails, AfterCreate, Stop, Join,
          JoinGarbage, AfterJoin, PrintAndDestroy, EmptyQ, EmptyQFree,
          EmptyQTorn, FreeQueue, Exit, GotoMain, MainStates
    <3> QED
      BY <3>1, <3>2, <3>3 DEF TypeOK
  <2>2. empty' \in Nat /\ full' \in Nat /\ lock' \in {0, 1, 2}
    BY <1>2
    DEF TypeOK, MainStep, Create, CreateFails, AfterCreate, Stop, Join,
        JoinGarbage, AfterJoin, PrintAndDestroy, EmptyQ, EmptyQFree,
        EmptyQTorn, FreeQueue, Exit, semVars
  <2>3. pc' \in [Threads -> ThreadStates] /\ torn' \in BOOLEAN
    BY <1>2
    DEF TypeOK, MainStep, Create, CreateFails, AfterCreate, Stop, Join,
        JoinGarbage, AfterJoin, PrintAndDestroy, EmptyQ, EmptyQFree,
        EmptyQTorn, FreeQueue, Exit, Goto, ThreadStates
  <2> QED
    BY <1>1, <2>1, <2>2, <2>3
<1>3. ASSUME NEW t \in Threads, ThreadStep(t)
      PROVE  TypeOK'
  <2>1. /\ mpc' \in MainStates /\ k' \in Nat /\ quit' \in {0, 1}
        /\ done' \in {0, 1}
    BY <1>3
    DEF TypeOK, ThreadStep, SemWait, Lock, PushLink, PushCount, PopUnlink,
        PopFree, TornAccess, Unlock, SemPost, Again, mainVars, MainStates
  <2>2. empty' \in Nat /\ full' \in Nat /\ lock' \in {0, 1, 2}
    <3>1. CASE SemWait(t)
      BY <3>1 DEF SemWait, TypeOK
    <3>4. CASE SemPost(t)
      BY <3>4 DEF SemPost, TypeOK
    <3>2. CASE Lock(t) \/ Unlock(t)
      BY <3>2 DEF Lock, Unlock, TypeOK
    <3>3. CASE ~(SemWait(t) \/ SemPost(t) \/ Lock(t) \/ Unlock(t))
      BY <1>3, <3>3
      DEF TypeOK, ThreadStep, PushLink, PushCount, PopUnlink, PopFree,
          TornAccess, Again, semVars
    <3> QED
      BY <3>1, <3>2, <3>3, <3>4
  <2>3. \E l \in ThreadStates : Goto(t, l) \/ pc' = pc
    BY <1>3
    DEF ThreadStep, SemWait, Lock, PushLink, PushCount, PopUnlink,
        PopFree, TornAccess, Unlock, SemPost, Again, ThreadStates
  <2>4. pc' \in [Threads -> ThreadStates]
    BY <2>3 DEF Goto, TypeOK
  <2>5. torn' \in BOOLEAN
    BY <1>3
    DEF TypeOK, ThreadStep, SemWait, Lock, PushLink, PushCount, PopUnlink,
        PopFree, TornAccess, Unlock, SemPost, Again
  <2> QED
    BY <1>1, <2>1, <2>2, <2>4, <2>5
<1> QED
  BY <1>2, <1>3 DEF Next

\* Threads that main has not created yet have not started.
LEMMA NextNotStarted ==
  ASSUME IInv, Next
  PROVE  NotStarted'
<1> USE DEF NotStarted, IInv
<1>1. CASE MainStep
  <2>1. CASE Create
    BY <2>1, CountsAssumption DEF Create, GotoMain, Goto, TypeOK, Threads
  <2>2. CASE CreateFails
    BY <2>2, CountsAssumption DEF CreateFails, GotoMain, TypeOK, Threads
  <2>3. CASE ~Create /\ ~CreateFails
    <3>1. mpc' # "create"
      BY <1>1, <2>3
      DEF MainStep, AfterCreate, Stop, Join, JoinGarbage, AfterJoin,
          PrintAndDestroy, EmptyQ, EmptyQFree, EmptyQTorn, FreeQueue, Exit,
          GotoMain
    <3> QED
      BY <3>1
  <2> QED
    BY <2>1, <2>2, <2>3
<1>2. ASSUME NEW t \in Threads, ThreadStep(t)
      PROVE  NotStarted'
  <2>1. /\ pc[t] # "unborn"
        /\ mpc' = "create" => /\ UNCHANGED <<mpc, k>>
                              /\ \E l \in ThreadStates : Goto(t, l) \/ pc' = pc
    BY <1>2
    DEF ThreadStep, SemWait, Lock, PushLink, PushCount, PopUnlink, PopFree,
        TornAccess, Unlock, SemPost, Again, ThreadStates, mainVars
  <2> QED
    BY <2>1 DEF Goto, TypeOK
<1> QED
  BY <1>1, <1>2 DEF Next

\* A race is not undone.
LEMMA TornStays ==
  ASSUME [Next]_vars, ~torn'
  PROVE  ~torn
BY DEF vars, Next, MainStep, Create, CreateFails, AfterCreate, Stop, Join,
   JoinGarbage, AfterJoin, PrintAndDestroy, EmptyQ, EmptyQFree, EmptyQTorn,
   FreeQueue, Exit, ThreadStep, SemWait, Lock, PushLink, PushCount, PopUnlink,
   PopFree, TornAccess, Unlock, SemPost, Again

\* It holds at the start.
LEMMA InitIInv == Init => IInv
BY InitQueueInv
DEF IInv, QueueInv, NotStarted, TornLate, MutualExclusion, Critical, Init

\* Every step keeps it.
LEMMA NextIInv == IInv /\ [Next]_vars => IInv'
<1> SUFFICES ASSUME IInv, [Next]_vars PROVE IInv'
  OBVIOUS
<1>1. CASE Next
  <2>1. MutualExclusion' /\ NotStarted' /\ TornLate'
    BY <1>1, NextMutualExclusion, NextNotStarted, NextTornLate
  <2>2. CASE torn'
    BY <1>1, <2>1, <2>2, TornTypes DEF IInv
  <2>3. CASE ~torn'
    <3>1. ~torn
      BY <2>3, TornStays
    <3>2. QueueInv'
      BY <1>1, <2>3, <3>1, MainStepQueueInv, ThreadStepQueueInv DEF IInv, Next
    <3> QED
      BY <2>1, <3>2 DEF IInv, QueueInv
  <2> QED
    BY <2>2, <2>3
<1>2. CASE UNCHANGED vars
  <2> USE <1>2 DEF vars, mainVars, semVars, queueVars
  <2>1. /\ TypeOK' /\ MutualExclusion' /\ NotStarted' /\ TornLate'
        /\ QueueInv => Alone' /\ TempsOK'
    BY DEF IInv, QueueInv, TypeOK, MutualExclusion, Critical, TempsOK,
       NotStarted, TornLate, Alone, MainAtQueue
  <2>2. Linked' = Linked
    BY DEF Linked
  <2>3. QueueInv => QueueChainIntact'
    BY <2>2, ChainKept DEF QueueInv
  <2> QED
    BY <2>1, <2>3 DEF IInv, QueueInv
<1> QED
  BY <1>1, <1>2

\* IInv is an invariant of the program.
THEOREM Invariance == Spec => []IInv
BY InitIInv, NextIInv, PTL DEF Spec

\* Every variable keeps its type, the fields of the queue for as long as there
\* is no race at it: no counter goes below zero until then, and pop() does not
\* take head from outside the heap.
THEOREM TypeCorrect == Spec => []TypeOK
<1>1. IInv => TypeOK
  BY DEF IInv
<1> QED
  BY <1>1, Invariance, PTL

\* Until main destroys it, the mutex keeps all but one thread out of push()
\* and pop().
THEOREM Exclusion == Spec => []MutualExclusion
<1>1. IInv => MutualExclusion
  BY DEF IInv
<1> QED
  BY <1>1, Invariance, PTL

\* Up to the first race push() and pop() keep the links a chain of allocated
\* nodes and leak none, for every number of threads and whatever malloc
\* returns.
THEOREM ChainCorrect == Spec => []QueueChainIntact
<1>1. IInv => QueueChainIntact
  BY DEF IInv, QueueInv, QueueChainIntact
<1> QED
  BY <1>1, Invariance, PTL

-----------------------------------------------------------------------------
(***************************************************************************)
(* The accounts of the semaphores.                                         *)
(***************************************************************************)
\* A thread that joins a set of threads adds one to its size.
LEMMA OneMore ==
  ASSUME NEW S, S \subseteq Threads, NEW t \in Threads, t \notin S
  PROVE  /\ Cardinality(S) \in Nat
         /\ Cardinality(S \cup {t}) = Cardinality(S) + 1
BY ThreadsFinite, FS_Subset, FS_CardinalityType, FS_AddElement

\* A thread that leaves a set of threads takes one from its size.
LEMMA OneLess ==
  ASSUME NEW S, S \subseteq Threads, NEW t \in S
  PROVE  /\ Cardinality(S) \in Nat
         /\ Cardinality(S \ {t}) \in Nat
         /\ Cardinality(S \ {t}) = Cardinality(S) - 1
BY ThreadsFinite, FS_Subset, FS_CardinalityType, FS_RemoveElement

\* The steps that leave empty, full and the threads between them alone.
LEMMA SlotsKept ==
  ASSUME SlotAccounting, empty' = empty, full' = full, Between' = Between
  PROVE  SlotAccounting'
BY DEF SlotAccounting

\* A step moves a slot between empty, full and a thread, if any.
LEMMA NextSlotAccounting ==
  ASSUME IInv, SlotAccounting, [Next]_vars
  PROVE  SlotAccounting'
<1> USE DEF IInv
<1>1. CASE MainStep
  <2>1. empty' = empty /\ full' = full
    BY <1>1
    DEF MainStep, Create, CreateFails, AfterCreate, Stop, Join, JoinGarbage,
        AfterJoin, PrintAndDestroy, EmptyQ, EmptyQFree, EmptyQTorn,
        FreeQueue, Exit, semVars
  <2>2. Between' = Between
    <3>1. CASE Create
      <4>1. k \in Threads /\ pc[k] = "unborn"
        BY <3>1, CountsAssumption DEF Create, NotStarted, Threads
      <4> QED
        BY <3>1, <4>1 DEF Create, Goto, Between, TypeOK
    <3>2. CASE ~Create
      <4>1. UNCHANGED pc
        BY <1>1, <3>2
        DEF MainStep, CreateFails, AfterCreate, Stop, Join, JoinGarbage,
            AfterJoin, PrintAndDestroy, EmptyQ, EmptyQFree, EmptyQTorn,
            FreeQueue, Exit
      <4> QED
        BY <4>1 DEF Between
    <3> QED
      BY <3>1, <3>2
  <2> QED
    BY <2>1, <2>2, SlotsKept
<1>2. ASSUME NEW t \in Threads, ThreadStep(t)
      PROVE  SlotAccounting'
  <2>1. CASE SemWait(t)
    <3>1. t \notin Between /\ Between \subseteq Threads
      BY <2>1 DEF SemWait, Between
    <3>2. Between' = Between \cup {t}
      BY <2>1 DEF SemWait, Goto, Between, TypeOK
    <3>3. empty' + full' = empty + full - 1
      BY <2>1 DEF SemWait, TypeOK
    <3> QED
      BY <3>1, <3>2, <3>3, OneMore DEF SlotAccounting, TypeOK, SemWait
  <2>2. CASE SemPost(t)
    <3>1. t \in Between /\ Between \subseteq Threads
      BY <2>2 DEF SemPost, Between
    <3>2. Between' = Between \ {t}
      BY <2>2 DEF SemPost, Goto, Between, TypeOK
    <3>3. \/ full' = full + 1 /\ empty' = empty
          \/ empty' = empty + 1 /\ full' = full
      BY <2>2 DEF SemPost
    <3>4. /\ Cardinality(Between) \in Nat
          /\ Cardinality(Between') \in Nat
          /\ Cardinality(Between') = Cardinality(Between) - 1
      BY <3>1, <3>2, OneLess
    <3> QED
      BY <3>3, <3>4 DEF SlotAccounting, TypeOK
  <2>3. CASE Lock(t)
    BY <2>3, SlotsKept DEF Lock, Goto, Between, TypeOK
  <2>4. CASE PushLink(t) \/ PushCount(t)
    BY <2>4, SlotsKept
    DEF PushLink, PushCount, Goto, Between, TypeOK, semVars
  <2>5. CASE PopUnlink(t) \/ PopFree(t)
    BY <2>5, SlotsKept DEF PopUnlink, PopFree, Goto, Between, TypeOK, semVars
  <2>6. CASE Unlock(t)
    BY <2>6, SlotsKept DEF Unlock, Goto, Between, TypeOK
  <2>8. CASE TornAccess(t)
    BY <2>8, SlotsKept DEF TornAccess, Goto, Between, TypeOK, semVars
  <2>7. CASE Again(t)
    BY <2>7, SlotsKept DEF Again, Goto, Between, TypeOK, semVars
  <2> QED
    BY <1>2, <2>1, <2>2, <2>3, <2>4, <2>5, <2>6, <2>7, <2>8
    DEF ThreadStep
<1>3. CASE UNCHANGED vars
  BY <1>3, SlotsKept DEF vars, semVars, Between
<1> QED
  BY <1>1, <1>2, <1>3 DEF Next

\* The slots empty started with are never lost and never multiplied.
THEOREM SlotsConserved == Spec => []SlotAccounting
<1>1. Init => SlotAccounting
  <2> SUFFICES ASSUME Init PROVE SlotAccounting
    OBVIOUS
  <2>1. Between = {}
    BY DEF Init, Between
  <2>2. Cardinality(Between) = 0
    BY <2>1, FS_EmptySet
  <2>3. Program.slots \in Nat
    BY CountsAssumption DEF Program, Project4a, PartOne
  <2> QED
    BY <2>2, <2>3 DEF Init, SlotAccounting
<1>2. IInv /\ SlotAccounting /\ [Next]_vars => SlotAccounting'
  BY NextSlotAccounting
<1> QED
  BY <1>1, <1>2, Invariance, PTL DEF Spec

-----------------------------------------------------------------------------
(***************************************************************************)
(* The accounts of the queue.                                              *)
(***************************************************************************)
\* Stored and Claimed are disjoint parts of Between, so they cannot be more.
LEMMA InHand ==
  ASSUME NEW t \in Between, t \notin Stored, t \notin Claimed
  PROVE  /\ Cardinality(Stored) \in Nat /\ Cardinality(Claimed) \in Nat
         /\ Cardinality(Between) \in Nat
         /\ Cardinality(Stored) + Cardinality(Claimed) < Cardinality(Between)
<1>1. /\ Stored \subseteq Threads /\ Claimed \subseteq Threads
      /\ Between \subseteq Threads
  BY Roles DEF Stored, Claimed, Between
<1>2. /\ IsFiniteSet(Stored) /\ IsFiniteSet(Claimed)
      /\ IsFiniteSet(Between)
  BY <1>1, ThreadsFinite, FS_Subset
<1>3. Stored \cap Claimed = {}
  BY Roles DEF Stored, Claimed
<1>4. Stored \cup Claimed \subseteq Between \ {t}
  BY Roles DEF Stored, Claimed, Between
<1>5. /\ Cardinality(Stored) \in Nat /\ Cardinality(Claimed) \in Nat
      /\ Cardinality(Between) \in Nat
  BY <1>2, FS_CardinalityType
<1>6. Cardinality(Stored \cup Claimed) =
        Cardinality(Stored) + Cardinality(Claimed)
  <2>1. Cardinality(Stored \cap Claimed) = 0
    BY <1>3, FS_EmptySet
  <2>2. Cardinality(Stored \cup Claimed) =
          Cardinality(Stored) + Cardinality(Claimed)
            - Cardinality(Stored \cap Claimed)
    BY <1>2, FS_Union
  <2> QED
    BY <1>5, <2>1, <2>2
<1>7. /\ Cardinality(Between \ {t}) = Cardinality(Between) - 1
      /\ IsFiniteSet(Between \ {t})
  BY <1>2, FS_RemoveElement
<1>8. Cardinality(Stored \cup Claimed) <= Cardinality(Between) - 1
  BY <1>4, <1>7, FS_Subset
<1> QED
  BY <1>5, <1>6, <1>8

\* With no more slots than elements, the two accounts together keep a thread
\* from the error branches of push() and pop().
LEMMA AccountsGuard ==
  ASSUME QueueInv, SlotAccounting, ItemAccounting
  PROVE  SemaphoresGuardQueue
<1> USE DEF QueueInv
<1> SUFFICES ASSUME Serving, Program.slots <= MaxElements,
                    NEW t \in Threads, pc[t] = "access"
             PROVE  (t \in Pushers => HasRoom) /\ (t \in Poppers => size # 0)
  BY DEF SemaphoresGuardQueue
<1>1. size = full + Cardinality(Stored) + Cardinality(Claimed)
  BY DEF ItemAccounting
<1>2. ASSUME t \in Pushers
      PROVE  HasRoom
  <2>1. t \in Between /\ t \notin Stored /\ t \notin Claimed
    BY <1>2, Roles DEF Between, Stored, Claimed
  <2>2. /\ Cardinality(Stored) \in Nat /\ Cardinality(Claimed) \in Nat
        /\ Cardinality(Between) \in Nat
        /\ Cardinality(Stored) + Cardinality(Claimed) < Cardinality(Between)
    BY <2>1, InHand
  <2>3. empty \in Nat /\ full \in Nat /\ size \in Nat
    BY DEF TypeOK
  <2>4. size < Program.slots
    BY <1>1, <2>2, <2>3 DEF SlotAccounting
  <2>5. Program.slots \in Nat
    BY CountsAssumption DEF Program, Project4a, PartOne
  <2> QED
    BY <2>3, <2>4, <2>5, CountsAssumption DEF HasRoom
<1>3. ASSUME t \in Poppers
      PROVE  size # 0
  <2>1. t \in Claimed /\ Claimed \subseteq Threads
    BY <1>3, Roles DEF Claimed
  <2>2. Stored \subseteq Threads
    BY Roles DEF Stored
  <2>3. Cardinality(Stored) \in Nat
    BY <2>2, ThreadsFinite, FS_Subset, FS_CardinalityType
  <2>4. Cardinality(Claimed) \in Nat /\ Cardinality(Claimed) # 0
    BY <2>1, ThreadsFinite, FS_Subset, FS_CardinalityType, FS_EmptySet
  <2> QED
    BY <1>1, <2>3, <2>4 DEF TypeOK
<1> QED
  BY <1>2, <1>3

\* What the steps of the threads do to the three terms of ItemAccounting.
LEMMA NextItemAccounting ==
  ASSUME IInv, SlotAccounting, ItemAccounting, [Next]_vars
  PROVE  ItemAccounting'
<1> USE DEF IInv, QueueInv
<1> DEFINE Counted == full + Cardinality(Stored) + Cardinality(Claimed)
<1>0. /\ Stored \subseteq Threads /\ Claimed \subseteq Threads
      /\ Cardinality(Stored) \in Nat /\ Cardinality(Claimed) \in Nat
  <2>1. Stored \subseteq Threads /\ Claimed \subseteq Threads
    BY Roles DEF Stored, Claimed
  <2> QED
    BY <2>1, ThreadsFinite, FS_Subset, FS_CardinalityType
<1>1. SUFFICES ASSUME Serving, Serving'
               PROVE  ItemAccounting'
  <2>1. Serving' => Serving
    BY DEF Next, MainStep, Create, CreateFails, AfterCreate, Stop, Join,
       JoinGarbage, AfterJoin, PrintAndDestroy, EmptyQ, EmptyQFree,
       EmptyQTorn, FreeQueue, Exit, GotoMain, ThreadStep, SemWait, Lock,
       PushLink, PushCount, PopUnlink, PopFree, TornAccess, Unlock, SemPost,
       Again, Serving, vars, mainVars
  <2> QED
    BY <2>1 DEF ItemAccounting
<1>q. ~torn /\ QueueInv
  BY <1>1 DEF TornLate, Serving, MainAtQueue
<1>2. size <= Counted /\ (Program.slots <= MaxElements => size = Counted)
  BY <1>1 DEF ItemAccounting
<1>3. ASSUME size' = size, full' = full, Stored' = Stored, Claimed' = Claimed
      PROVE  ItemAccounting'
  BY <1>2, <1>3 DEF ItemAccounting
<1>4. CASE MainStep
  <2>1. size' = size /\ full' = full
    BY <1>1, <1>4
    DEF MainStep, Create, CreateFails, AfterCreate, Stop, Join, JoinGarbage,
        AfterJoin, PrintAndDestroy, EmptyQ, EmptyQFree, EmptyQTorn,
        FreeQueue, Exit, semVars, queueVars, Serving
  <2>2. Stored' = Stored /\ Claimed' = Claimed
    <3>1. CASE Create
      <4>1. k \in Threads /\ pc[k] = "unborn"
        BY <3>1, CountsAssumption DEF Create, NotStarted, Threads
      <4> QED
        BY <3>1, <4>1, Roles DEF Create, Goto, Stored, Claimed, TypeOK
    <3>2. CASE ~Create
      <4>1. UNCHANGED pc
        BY <1>4, <3>2
        DEF MainStep, CreateFails, AfterCreate, Stop, Join, JoinGarbage,
            AfterJoin, PrintAndDestroy, EmptyQ, EmptyQFree, EmptyQTorn,
            FreeQueue, Exit
      <4> QED
        BY <4>1 DEF Stored, Claimed
    <3> QED
      BY <3>1, <3>2
  <2> QED
    BY <1>3, <2>1, <2>2
<1>5. ASSUME NEW t \in Threads, ThreadStep(t)
      PROVE  ItemAccounting'
  <2>1. CASE SemWait(t) /\ t \in Pushers
    BY <1>q, <1>3, <2>1, Roles
    DEF SemWait, Goto, Stored, Claimed, TypeOK, queueVars
  <2>2. CASE SemWait(t) /\ t \in Poppers
    <3>1. Stored' = Stored /\ Claimed' = Claimed \cup {t} /\ t \notin Claimed
      BY <1>q, <2>2, Roles DEF SemWait, Goto, Stored, Claimed, TypeOK
    <3>2. full' = full - 1 /\ full \in Nat /\ size' = size /\ size \in Nat
      BY <1>q, <2>2, Roles DEF SemWait, TypeOK, queueVars
    <3>3. Cardinality(Claimed') = Cardinality(Claimed) + 1
      BY <1>0, <3>1, OneMore
    <3> QED
      BY <1>0, <1>2, <3>1, <3>2, <3>3 DEF ItemAccounting
  <2>3. CASE SemPost(t) /\ t \in Pushers
    <3>1. Stored' = Stored \ {t} /\ Claimed' = Claimed /\ t \in Stored
      BY <1>q, <2>3, Roles DEF SemPost, Goto, Stored, Claimed, TypeOK
    <3>2. full' = full + 1 /\ full \in Nat /\ size' = size /\ size \in Nat
      BY <1>q, <2>3, Roles DEF SemPost, TypeOK, queueVars
    <3>3. Cardinality(Stored') = Cardinality(Stored) - 1
      BY <1>0, <3>1, OneLess
    <3> QED
      BY <1>0, <1>2, <3>1, <3>2, <3>3 DEF ItemAccounting
  <2>4. CASE SemPost(t) /\ t \in Poppers
    BY <1>q, <1>3, <2>4, Roles
    DEF SemPost, Goto, Stored, Claimed, TypeOK, queueVars
  <2>5. CASE Lock(t)
    BY <1>q, <1>3, <2>5, Roles DEF Lock, Goto, Stored, Claimed, TypeOK, queueVars
  <2>6. CASE PushLink(t)
    <3>1. CASE HasRoom
      BY <1>q, <1>3, <2>6, <3>1, Roles
      DEF PushLink, Goto, Stored, Claimed, TypeOK, semVars
    <3>2. CASE ~HasRoom
      <4>1. Stored' = Stored \cup {t} /\ Claimed' = Claimed /\ t \notin Stored
        BY <1>q, <2>6, <3>2, Roles DEF PushLink, Goto, Stored, Claimed, TypeOK
      <4>2. full' = full /\ full \in Nat /\ size' = size /\ size \in Nat
        BY <1>q, <2>6 DEF PushLink, TypeOK, semVars
      <4>3. Cardinality(Stored') = Cardinality(Stored) + 1
        BY <1>0, <4>1, OneMore
      <4>4. ~(Program.slots <= MaxElements)
        BY <1>1, <1>q, <2>6, <3>2, AccountsGuard DEF SemaphoresGuardQueue, PushLink
      <4> QED
        BY <1>0, <1>2, <4>1, <4>2, <4>3, <4>4 DEF ItemAccounting
    <3> QED
      BY <3>1, <3>2
  <2>7. CASE PushCount(t)
    <3>1. Stored' = Stored \cup {t} /\ Claimed' = Claimed /\ t \notin Stored
      BY <1>q, <2>7, Roles DEF PushCount, Goto, Stored, Claimed, TypeOK
    <3>2. full' = full /\ full \in Nat /\ size' = size + 1 /\ size \in Nat
      BY <1>q, <2>7 DEF PushCount, TypeOK, semVars
    <3>3. Cardinality(Stored') = Cardinality(Stored) + 1
      BY <1>0, <3>1, OneMore
    <3> QED
      BY <1>0, <1>2, <3>1, <3>2, <3>3 DEF ItemAccounting
  <2>8. CASE PopUnlink(t)
    <3>1. Stored' = Stored /\ Claimed' = Claimed \ {t} /\ t \in Claimed
      BY <1>q, <2>8, Roles DEF PopUnlink, Goto, Stored, Claimed, TypeOK
    <3>2. /\ full' = full /\ full \in Nat /\ size \in Nat
          /\ \/ size # 0 /\ size' = size - 1
             \/ size = 0 /\ size' = size
      BY <1>q, <2>8 DEF PopUnlink, UnlinkHead, TypeOK, semVars, queueVars
    <3>3. /\ Cardinality(Claimed') = Cardinality(Claimed) - 1
          /\ Cardinality(Claimed') \in Nat
      BY <1>0, <3>1, OneLess
    <3>4. CASE size # 0 /\ size' = size - 1
      BY <1>0, <1>2, <3>1, <3>2, <3>3, <3>4 DEF ItemAccounting
    <3>5. CASE size = 0 /\ size' = size
      <4>1. Cardinality(Claimed) >= 1
        BY <1>0, <3>3
      <4>2. Counted >= 1
        BY <1>0, <3>2, <4>1
      <4>3. ~(Program.slots <= MaxElements)
        BY <1>2, <3>5, <4>2
      <4>4. size' <= full' + Cardinality(Stored') + Cardinality(Claimed')
        BY <1>0, <3>1, <3>2, <3>3, <3>5
      <4> QED
        BY <4>3, <4>4 DEF ItemAccounting
    <3> QED
      BY <3>2, <3>4, <3>5
  <2>9. CASE PopFree(t)
    BY <1>q, <1>3, <2>9, Roles
    DEF PopFree, FreeNode, Goto, Stored, Claimed, TypeOK, semVars
  <2>10. CASE Unlock(t)
    BY <1>q, <1>3, <2>10, Roles DEF Unlock, Goto, Stored, Claimed, TypeOK, queueVars
  <2>11. CASE Again(t)
    BY <1>q, <1>3, <2>11, Roles
    DEF Again, Goto, Stored, Claimed, TypeOK, semVars, queueVars
  <2> QED
    BY <1>5, <1>q, <2>1, <2>2, <2>3, <2>4, <2>5, <2>6, <2>7, <2>8, <2>9,
       <2>10, <2>11, Roles DEF ThreadStep, TornAccess
<1>6. CASE UNCHANGED vars
  BY <1>3, <1>6 DEF vars, semVars, queueVars, Stored, Claimed
<1> QED
  BY <1>4, <1>5, <1>6 DEF Next

\* The queue and full are empty at the start.
LEMMA InitItemAccounting == Init => ItemAccounting
<1> SUFFICES ASSUME Init PROVE ItemAccounting
  OBVIOUS
<1>1. Stored = {} /\ Claimed = {}
  BY Roles DEF Init, Stored, Claimed
<1>2. Cardinality(Stored) = 0 /\ Cardinality(Claimed) = 0
  BY <1>1, FS_EmptySet
<1> QED
  BY <1>2 DEF Init, ItemAccounting

\* The semaphore full and the field size tell the same story.
THEOREM ItemsAccounted == Spec => []ItemAccounting
<1>1. IInv /\ SlotAccounting /\ ItemAccounting /\ [Next]_vars
        => ItemAccounting'
  BY NextItemAccounting
<1> QED
  BY <1>1, InitItemAccounting, Invariance, SlotsConserved, PTL DEF Spec

\* The error branches of push() and pop() are dead as long as the semaphore
\* empty starts with no more slots than the queue has.
THEOREM QueueGuarded == Spec => []SemaphoresGuardQueue
<1>1. IInv /\ SlotAccounting /\ ItemAccounting => SemaphoresGuardQueue
  BY AccountsGuard
  DEF IInv, SemaphoresGuardQueue, TornLate, Serving, MainAtQueue
<1> QED
  BY <1>1, Invariance, SlotsConserved, ItemsAccounted, PTL

-----------------------------------------------------------------------------
(***************************************************************************)
(* The join loops.                                                         *)
(***************************************************************************)
\* The threads the join loops have passed are gone, for good, or never were.
Gone == {"unborn", "exited"}

Joined ==
  /\ mpc = "join" => /\ k >= 1
                     /\ \A t \in Threads : t < k => pc[t] \in Gone
                     /\ Program.joins \/ quit = 1
  /\ mpc = "sleep" => quit = 1
  /\ JoinedBeforeFreed

\* main passes a thread only when it has exited or could not be created, and
\* it stays so.
LEMMA NextJoined ==
  ASSUME TypeOK, Joined, [Next]_vars
  PROVE  Joined'
<1> USE DEF Joined, JoinedBeforeFreed, AllJoined, Gone
<1>1. CASE MainStep
  <2>1. CASE Create \/ CreateFails
    BY <2>1 DEF Create, CreateFails, GotoMain, Emptying
  <2>2. CASE AfterCreate
    BY <2>2, CountsAssumption DEF AfterCreate, GotoMain, Emptying, Threads
  <2>3. CASE Stop
    BY <2>3, CountsAssumption DEF Stop, GotoMain, Emptying, Threads
  <2>4. CASE Join
    BY <2>4, CountsAssumption
    DEF Join, GotoMain, Emptying, Threads, JoinSlots, TypeOK
  <2>5. CASE JoinGarbage
    BY <2>5, CountsAssumption
    DEF JoinGarbage, GotoMain, Emptying, Threads, JoinSlots, TypeOK
  <2>6. CASE AfterJoin
    <3>1. AllJoined => \A t \in Threads : t < k
      BY <2>6, CountsAssumption DEF AfterJoin, Threads, JoinSlots, TypeOK
    <3> QED
      BY <2>6, <3>1 DEF AfterJoin, GotoMain, Emptying
  <2>7. CASE PrintAndDestroy
    BY <2>7 DEF PrintAndDestroy, GotoMain, Emptying
  <2>8. CASE EmptyQ \/ EmptyQFree \/ EmptyQTorn
    BY <2>8 DEF EmptyQ, EmptyQFree, EmptyQTorn, GotoMain, Emptying
  <2>9. CASE FreeQueue \/ Exit
    BY <2>9 DEF FreeQueue, Exit, GotoMain, Emptying
  <2> QED
    BY <1>1, <2>1, <2>2, <2>3, <2>4, <2>5, <2>6, <2>7, <2>8, <2>9 DEF MainStep
<1>2. ASSUME NEW t \in Threads, ThreadStep(t)
      PROVE  Joined'
  <2>1. /\ pc[t] \notin Gone
        /\ \A u \in Threads : pc[u] \in Gone => pc'[u] = pc[u]
        /\ quit' = quit
        /\ UNCHANGED <<mpc, k>> \/ mpc' = "crashed"
    BY <1>2
    DEF ThreadStep, SemWait, Lock, PushLink, PushCount, PopUnlink, PopFree,
        TornAccess, Unlock, SemPost, Again, Goto, TypeOK, mainVars
  <2> QED
    BY <2>1 DEF Emptying
<1>3. CASE UNCHANGED vars
  BY <1>3 DEF vars, mainVars, Emptying
<1> QED
  BY <1>1, <1>2, <1>3 DEF Next

\* It is an invariant.
LEMMA AlwaysJoined == Spec => []Joined
<1>1. Init => Joined
  BY DEF Init, Joined, JoinedBeforeFreed, Emptying
<1>2. TypeOK /\ Joined /\ [Next]_vars => Joined'
  BY NextJoined
<1> QED
  BY <1>1, <1>2, TypeCorrect, PTL DEF Spec

\* main takes the queue away from the threads only when they are all gone.
THEOREM JoinsSuffice == Spec => []JoinedBeforeFreed
<1>1. Joined => JoinedBeforeFreed
  BY DEF Joined
<1> QED
  BY <1>1, AlwaysJoined, PTL

\* A step that tears the queue finds main at it and a thread that is not gone.
LEMMA NextRaces ==
  ASSUME IInv, Joined, RacesAreMains, [Next]_vars
  PROVE  RacesAreMains'
<1> USE DEF IInv
<1>1. SUFFICES ASSUME torn' PROVE (~Serving /\ ~AllJoined)'
  BY DEF RacesAreMains
<1>2. ~Serving'
  <2>1. TornLate'
    BY NextIInv
  <2> QED
    BY <1>1, <2>1 DEF TornLate, MainAtQueue, Serving
<1>3. AllJoined' = AllJoined
  <2>1. quit' = quit
    BY DEF Next, MainStep, Create, CreateFails, AfterCreate, Stop, Join,
       JoinGarbage, AfterJoin, PrintAndDestroy, EmptyQ, EmptyQFree,
       EmptyQTorn, FreeQueue, Exit, ThreadStep, SemWait, Lock, PushLink,
       PushCount, PopUnlink, PopFree, TornAccess, Unlock, SemPost, Again,
       vars, mainVars
  <2> QED
    BY <2>1 DEF AllJoined
<1>4. CASE torn
  BY <1>2, <1>3, <1>4 DEF RacesAreMains
<1>5. ASSUME ~torn, PrintAndDestroy
      PROVE  ~AllJoined
  <2>1. Critical # {} /\ mpc = "print"
    BY <1>1, <1>5, Zenon DEF PrintAndDestroy
  <2>2. PICK t \in Threads : pc[t] \notin Gone
    BY <2>1 DEF Critical, Gone
  <2> QED
    BY <2>1, <2>2 DEF Joined, JoinedBeforeFreed, Emptying, Gone
<1>6. ASSUME ~torn, NEW t \in Threads, Lock(t), Running
      PROVE  ~AllJoined
  <2>1. Critical # {} \/ MainAtQueue
    BY <1>1, <1>6, Zenon DEF Lock
  <2>2. MainAtQueue \/ Critical = {}
    BY <1>6 DEF Lock, TornLate, MutualExclusion, TypeOK, Running
  <2>3. pc[t] \notin Gone
    BY <1>6 DEF Lock, Gone
  <2>4. MainAtQueue => Emptying
    BY DEF MainAtQueue, Emptying
  <2>5. CASE MainAtQueue
    BY <2>3, <2>4, <2>5 DEF Joined, JoinedBeforeFreed, Gone
  <2>6. CASE Critical # {}
    BY <2>2, <2>5, <2>6
  <2> QED
    BY <2>1, <2>5, <2>6
<1>7. CASE ~torn /\ ~PrintAndDestroy /\ ~ \E t \in Threads : Lock(t) /\ Running
  <2>1. torn' = torn
    BY <1>7
    DEF Next, MainStep, Create, CreateFails, AfterCreate, Stop, Join,
        JoinGarbage, AfterJoin, EmptyQ, EmptyQFree, EmptyQTorn, FreeQueue,
        Exit, ThreadStep, SemWait, PushLink, PushCount, PopUnlink, PopFree,
        TornAccess, Unlock, SemPost, Again, vars
  <2> QED
    BY <1>1, <1>7, <2>1
<1> QED
  BY <1>2, <1>3, <1>4, <1>5, <1>6, <1>7

\* There is a race at the queue only once main is emptying it, and none at all
\* when the join loops reach every thread.
THEOREM RacesAreLate == Spec => []RacesAreMains
<1>1. Init => RacesAreMains
  BY DEF Init, RacesAreMains
<1>2. IInv /\ Joined /\ RacesAreMains /\ [Next]_vars => RacesAreMains'
  BY NextRaces
<1> QED
  BY <1>1, <1>2, Invariance, AlwaysJoined, PTL DEF Spec

-----------------------------------------------------------------------------
(***************************************************************************)
(* The queue is a first-in first-out buffer.                               *)
(***************************************************************************)
\* full counts the values that are in the queue, whoever empties it.
Counts == ~torn => size <= full + Cardinality(Stored) + Cardinality(Claimed)

\* What the steps of main and of the threads do to the count.
LEMMA NextCounts ==
  ASSUME IInv, Counts, [Next]_vars
  PROVE  Counts'
<1>q. SUFFICES ASSUME QueueInv, ~torn, ~torn' PROVE Counts'
  BY TornStays DEF Counts, IInv
<1> USE <1>q DEF IInv, QueueInv
<1>1. /\ Stored \subseteq Threads /\ Claimed \subseteq Threads
      /\ Cardinality(Stored) \in Nat /\ Cardinality(Claimed) \in Nat
      /\ size \in Nat /\ full \in Nat
  <2>1. Stored \subseteq Threads /\ Claimed \subseteq Threads
    BY Roles DEF Stored, Claimed
  <2> QED
    BY <2>1, ThreadsFinite, FS_Subset, FS_CardinalityType DEF TypeOK
<1>2. ASSUME size' \in Nat, size' <= size, full' = full, Stored' = Stored,
             Claimed' = Claimed
      PROVE  Counts'
  BY <1>1, <1>2 DEF Counts
<1>3. CASE MainStep
  <2>1. size' \in Nat /\ size' <= size /\ full' = full
    <3>1. CASE EmptyQ
      BY <1>1, <3>1 DEF EmptyQ, UnlinkHead, queueVars, semVars, TypeOK
    <3>2. CASE ~EmptyQ
      BY <1>1, <1>3, <3>2
      DEF MainStep, Create, CreateFails, AfterCreate, Stop, Join, JoinGarbage,
          AfterJoin, PrintAndDestroy, EmptyQFree, EmptyQTorn, FreeNode,
          FreeQueue, Exit, semVars, queueVars
    <3> QED
      BY <3>1, <3>2
  <2>2. Stored' = Stored /\ Claimed' = Claimed
    <3>1. CASE Create
      <4>1. k \in Threads /\ pc[k] = "unborn"
        BY <3>1, CountsAssumption DEF Create, NotStarted, Threads
      <4> QED
        BY <3>1, <4>1, Roles DEF Create, Goto, Stored, Claimed, TypeOK
    <3>2. CASE ~Create
      <4>1. UNCHANGED pc
        BY <1>3, <3>2
        DEF MainStep, CreateFails, AfterCreate, Stop, Join, JoinGarbage,
            AfterJoin, PrintAndDestroy, EmptyQ, EmptyQFree, EmptyQTorn,
            FreeQueue, Exit
      <4> QED
        BY <4>1 DEF Stored, Claimed
    <3> QED
      BY <3>1, <3>2
  <2> QED
    BY <1>2, <2>1, <2>2
<1>4. ASSUME NEW t \in Threads, ThreadStep(t)
      PROVE  Counts'
  <2>1. CASE SemWait(t) /\ t \in Poppers
    <3>1. Stored' = Stored /\ Claimed' = Claimed \cup {t} /\ t \notin Claimed
      BY <2>1, Roles DEF SemWait, Goto, Stored, Claimed, TypeOK
    <3>2. full' = full - 1 /\ size' = size
      BY <2>1, Roles DEF SemWait, queueVars
    <3>3. Cardinality(Claimed') = Cardinality(Claimed) + 1
      BY <1>1, <3>1, OneMore
    <3> QED
      BY <1>1, <3>1, <3>2, <3>3 DEF Counts
  <2>2. CASE SemPost(t) /\ t \in Pushers
    <3>1. Stored' = Stored \ {t} /\ Claimed' = Claimed /\ t \in Stored
      BY <2>2, Roles DEF SemPost, Goto, Stored, Claimed, TypeOK
    <3>2. full' = full + 1 /\ size' = size
      BY <2>2, Roles DEF SemPost, queueVars
    <3>3. Cardinality(Stored') = Cardinality(Stored) - 1
      BY <1>1, <3>1, OneLess
    <3> QED
      BY <1>1, <3>1, <3>2, <3>3 DEF Counts
  <2>3. CASE PushLink(t) /\ ~HasRoom
    <3>1. Stored' = Stored \cup {t} /\ Claimed' = Claimed /\ t \notin Stored
      BY <2>3, Roles DEF PushLink, Goto, Stored, Claimed, TypeOK
    <3>2. full' = full /\ size' = size
      BY <2>3 DEF PushLink, semVars
    <3>3. Cardinality(Stored') = Cardinality(Stored) + 1
      BY <1>1, <3>1, OneMore
    <3> QED
      BY <1>1, <3>1, <3>2, <3>3 DEF Counts
  <2>4. CASE PushCount(t)
    <3>1. Stored' = Stored \cup {t} /\ Claimed' = Claimed /\ t \notin Stored
      BY <2>4, Roles DEF PushCount, Goto, Stored, Claimed, TypeOK
    <3>2. full' = full /\ size' = size + 1
      BY <2>4 DEF PushCount, semVars
    <3>3. Cardinality(Stored') = Cardinality(Stored) + 1
      BY <1>1, <3>1, OneMore
    <3> QED
      BY <1>1, <3>1, <3>2, <3>3 DEF Counts
  <2>5. CASE PopUnlink(t)
    <3>1. Stored' = Stored /\ Claimed' = Claimed \ {t} /\ t \in Claimed
      BY <2>5, Roles DEF PopUnlink, Goto, Stored, Claimed, TypeOK
    <3>2. full' = full /\ (size' = size - 1 \/ size' = 0)
      BY <2>5 DEF PopUnlink, UnlinkHead, semVars, queueVars
    <3>3. /\ Cardinality(Claimed') = Cardinality(Claimed) - 1
          /\ Cardinality(Claimed') \in Nat
      BY <1>1, <3>1, OneLess
    <3> QED
      BY <1>1, <3>1, <3>2, <3>3 DEF Counts
  <2>6. CASE \/ SemWait(t) /\ t \in Pushers
             \/ SemPost(t) /\ t \in Poppers
             \/ PushLink(t) /\ HasRoom
    BY <1>1, <1>2, <2>6, Roles
    DEF SemWait, SemPost, PushLink, Goto, Stored, Claimed, TypeOK, queueVars,
        semVars
  <2>7. CASE Lock(t) \/ Unlock(t)
    BY <1>1, <1>2, <2>7, Roles
    DEF Lock, Unlock, Goto, Stored, Claimed, TypeOK, queueVars
  <2>8. CASE PopFree(t) \/ Again(t)
    BY <1>1, <1>2, <2>8, Roles
    DEF PopFree, FreeNode, Again, Goto, Stored, Claimed, TypeOK, semVars,
        queueVars
  <2> QED
    BY <1>4, <2>1, <2>2, <2>3, <2>4, <2>5, <2>6, <2>7, <2>8, Roles
    DEF ThreadStep, SemWait, SemPost, TornAccess
<1>5. CASE UNCHANGED vars
  BY <1>1, <1>2, <1>5 DEF vars, semVars, queueVars, Stored, Claimed
<1> QED
  BY <1>3, <1>4, <1>5 DEF Next

\* A thread about to count its node has a slot for it.
LEMMA RoomToCount ==
  ASSUME QueueInv, SlotAccounting, Counts, NEW t \in Threads, PushCount(t)
  PROVE  size < Program.slots
<1>1. t \in Between /\ t \notin Stored /\ t \notin Claimed
  BY Roles DEF PushCount, Between, Stored, Claimed
<1>2. empty \in Nat /\ full \in Nat /\ size \in Nat
  BY DEF QueueInv, TypeOK
<1> QED
  BY <1>1, <1>2, InHand DEF SlotAccounting, Counts, QueueInv

\* The values met on a walk of sz links from hd.
Walk(hd, nx, dt, sz) ==
  LET node[i \in 1 .. sz] == IF i = 1 THEN hd ELSE nx[node[i - 1]]
  IN  [i \in 1 .. sz |-> dt[node[i]]]

\* Nodes that lead from one to the next are those of the walk.
LEMMA WalkIs ==
  ASSUME NEW sz \in Nat, NEW hd, NEW nx, NEW dt, NEW s,
         \A i \in 1 .. sz : s[i] = IF i = 1 THEN hd ELSE nx[s[i - 1]]
  PROVE  Walk(hd, nx, dt, sz) = [i \in 1 .. sz |-> dt[s[i]]]
<1> DEFINE Fix(g) == g = [i \in 1 .. sz |-> IF i = 1 THEN hd ELSE nx[g[i - 1]]]
           node == CHOOSE g : Fix(g)
<1>1. Walk(hd, nx, dt, sz) = [i \in 1 .. sz |-> dt[node[i]]]
  BY DEF Walk
<1>2. PICK h : h = [i \in 1 .. sz |-> s[i]]
  OBVIOUS
<1>3. \A i \in 1 .. sz : i # 1 => i - 1 \in 1 .. sz
  OBVIOUS
<1>4. Fix(h)
  BY <1>2, <1>3
<1>5. Fix(node)
  <2> HIDE DEF Fix
  <2> QED
    BY <1>4
<1>6. \A i \in 1 .. sz : node[i] = s[i]
  <2> DEFINE Wrong == {i \in 1 .. sz : node[i] # s[i]}
  <2> SUFFICES ASSUME Wrong # {} PROVE FALSE
    OBVIOUS
  <2>0. PICK g : g = node
    OBVIOUS
  <2>1. g = node /\ \A i \in 1 .. sz : g[i] = IF i = 1 THEN hd ELSE nx[g[i - 1]]
    <3>1. Fix(g)
      BY <1>5, <2>0, SMTT(30)
    <3>2. \A f : Fix(f) => \A i \in 1 .. sz :
                              f[i] = IF i = 1 THEN hd ELSE nx[f[i - 1]]
      OBVIOUS
    <3> HIDE DEF Fix, node
    <3> QED
      BY <2>0, <3>1, <3>2
  <2>2. PICK m \in Wrong : \A i \in Wrong : m <= i
    <3>1. Wrong \in SUBSET Nat
      OBVIOUS
    <3> HIDE DEF Wrong
    <3> QED
      BY <3>1, Least
  <2>3. m \in 1 .. sz /\ g[m] # s[m]
    BY <2>1, <2>2
  <2>4. m # 1
    BY <2>1, <2>3
  <2>5. m - 1 \in 1 .. sz /\ m - 1 \notin Wrong
    BY <1>3, <2>2, <2>3, <2>4
  <2>6. g[m - 1] = s[m - 1]
    BY <2>1, <2>5
  <2>7. g[m] = nx[g[m - 1]]
    BY <2>1, <2>3, <2>4
  <2> QED
    BY <2>3, <2>4, <2>6, <2>7
<1> QED
  <2> HIDE DEF node
  <2> QED
    BY <1>1, <1>6

\* printQ() is such a walk.
LEMMA ContentsWalk ==
  Contents = Walk(head, next, data, size)
BY DEF Contents, Walk

\* It follows the chain.
LEMMA ContentsIs ==
  ASSUME ~torn, TypeOK, NEW s \in [1 .. Linked -> alloc], IsChain(s)
  PROVE  /\ size \in Nat /\ Linked \in Nat /\ size <= Linked
         /\ \A i \in 1 .. size : s[i] = IF i = 1 THEN head ELSE next[s[i - 1]]
         /\ \A i \in 1 .. Linked : s[i] \in Nodes /\ data[s[i]] \in Values
         /\ Contents = [i \in 1 .. size |-> data[s[i]]]
         /\ Contents \in Seq(Values) /\ Len(Contents) = size
         /\ \A i \in 1 .. size : Contents[i] = data[s[i]]
<1>1. /\ size \in Nat /\ Linked \in Nat /\ size <= Linked
      /\ alloc \subseteq Nodes /\ data \in [Nodes -> Values]
  BY DEF TypeOK, Linked
<1>2. \A i \in 1 .. size : s[i] = IF i = 1 THEN head ELSE next[s[i - 1]]
  <2> SUFFICES ASSUME NEW i \in 1 .. size
               PROVE  s[i] = IF i = 1 THEN head ELSE next[s[i - 1]]
    OBVIOUS
  <2>1. CASE i = 1
    BY <1>1, <2>1 DEF IsChain
  <2>2. CASE i # 1
    <3>1. PICK j \in 1 .. Linked : j = i - 1 /\ j < Linked /\ j + 1 = i
      BY <1>1, <2>2
    <3>2. next[s[j]] = s[j + 1]
      BY <3>1 DEF IsChain
    <3> QED
      BY <2>2, <3>1, <3>2
  <2> QED
    BY <2>1, <2>2
<1>3. Contents = [i \in 1 .. size |-> data[s[i]]]
  <2>1. PICK z, f : z = size /\ f = s
    OBVIOUS
  <2>2. /\ z \in Nat
        /\ \A i \in 1 .. z : f[i] = IF i = 1 THEN head ELSE next[f[i - 1]]
    BY <1>1, <1>2, <2>1
  <2>3. Walk(head, next, data, z) = [i \in 1 .. z |-> data[f[i]]]
    BY <2>2, WalkIs
  <2> QED
    BY <2>1, <2>3, ContentsWalk
<1>4. \A i \in 1 .. Linked : s[i] \in Nodes /\ data[s[i]] \in Values
  BY <1>1
<1>5. Contents \in [1 .. size -> Values]
  BY <1>1, <1>3, <1>4
<1> QED
  BY <1>1, <1>2, <1>3, <1>4, <1>5, IsASeq

\* Linking a node changes nothing yet.
LEMMA PushLinkContents ==
  ASSUME QueueInv, NEW t \in Threads, PushLink(t)
  PROVE  Contents' = Contents
<1> USE DEF QueueInv
<1>1. CASE UNCHANGED <<head, tail, nodeVars>>
  BY <1>1 DEF PushLink, Contents, nodeVars
<1>2. CASE ~UNCHANGED <<head, tail, nodeVars>>
  <2>1. PICK n \in Nodes \ alloc, v \in Values, garbage \in Pointers :
          /\ data' = [data EXCEPT ![n] = v]
          /\ next' = IF size = 0
                     THEN [next EXCEPT ![n] = garbage]
                     ELSE [next EXCEPT ![n] = garbage, ![tail] = n]
          /\ head' = IF size = 0 THEN n ELSE head
    BY <1>2 DEF PushLink
  <2>2. size' = size
    BY DEF PushLink
  <2>3. Critical = {t}
    BY DEF Alone, Critical, PushLink
  <2>4. Linked = size
    BY <2>3, Roles DEF Linked, Critical, PushLink, TypeOK
  <2>5. PICK s \in [1 .. Linked -> alloc] : IsChain(s)
    BY DEF QueueChainIntact
  <2>6. /\ size \in Nat
        /\ \A i \in 1 .. size : s[i] = IF i = 1 THEN head ELSE next[s[i - 1]]
        /\ \A i \in 1 .. size : s[i] \in Nodes
        /\ Contents = [i \in 1 .. size |-> data[s[i]]]
    BY <2>4, <2>5, ContentsIs
  <2>7. \A i \in 1 .. size : s[i] # n /\ data'[s[i]] = data[s[i]]
    BY <2>1, <2>4, <2>5, <2>6 DEF TypeOK
  <2>8. \A i \in 1 .. size : s[i] = IF i = 1 THEN head' ELSE next'[s[i - 1]]
    <3> SUFFICES ASSUME NEW i \in 1 .. size
                 PROVE  s[i] = IF i = 1 THEN head' ELSE next'[s[i - 1]]
      OBVIOUS
    <3>1. size # 0
      BY <2>6
    <3>2. CASE i = 1
      BY <2>1, <2>6, <3>1, <3>2
    <3>3. CASE i # 1
      <4>1. PICK j \in 1 .. size : j = i - 1 /\ j # size
        BY <2>6, <3>3
      <4>2. tail = s[size] /\ size \in 1 .. size
        BY <2>4, <2>5, <2>6, <3>1 DEF IsChain
      <4>3. s[j] # tail /\ s[j] # n /\ s[j] \in Nodes
        BY <2>4, <2>5, <2>6, <2>7, <4>1, <4>2 DEF IsChain
      <4>4. next'[s[j]] = next[s[j]]
        BY <2>1, <4>3 DEF TypeOK
      <4> QED
        BY <2>6, <3>3, <4>1, <4>4
    <3> QED
      BY <3>2, <3>3
  <2>9. Walk(head', next', data', size) = [i \in 1 .. size |-> data'[s[i]]]
    <3>1. PICK z, f : z = size /\ f = s
      OBVIOUS
    <3>2. /\ z \in Nat
          /\ \A i \in 1 .. z : f[i] = IF i = 1 THEN head' ELSE next'[f[i - 1]]
      BY <2>6, <2>8, <3>1
    <3>3. Walk(head', next', data', z) = [i \in 1 .. z |-> data'[f[i]]]
      BY <3>2, WalkIs
    <3> QED
      BY <3>1, <3>3
  <2>10. Contents' = Walk(head', next', data', size')
    BY DEF Contents, Walk
  <2> QED
    BY <2>2, <2>6, <2>7, <2>9, <2>10
<1> QED
  BY <1>1, <1>2

\* Counting it puts a value at the end.
LEMMA PushCountContents ==
  ASSUME QueueInv, SlotAccounting, Counts, NEW t \in Threads, PushCount(t)
  PROVE  Fifo!Put
<1> USE DEF QueueInv
<1>1. t \in Pushers /\ pc[t] = "finish" /\ size' = size + 1
  BY DEF PushCount
<1>2. Linked = size + 1
  BY <1>1 DEF Linked
<1>3. PICK s \in [1 .. Linked -> alloc] : IsChain(s)
  BY DEF QueueChainIntact
<1>4. /\ size \in Nat /\ \A i \in 1 .. Linked : data[s[i]] \in Values
      /\ Contents = [i \in 1 .. size |-> data[s[i]]]
      /\ Contents \in Seq(Values) /\ Len(Contents) = size
  BY <1>3, ContentsIs
<1>5. \A i \in 1 .. size + 1 : s[i] = IF i = 1 THEN head ELSE next[s[i - 1]]
  <2> SUFFICES ASSUME NEW i \in 1 .. size + 1
               PROVE  s[i] = IF i = 1 THEN head ELSE next[s[i - 1]]
    OBVIOUS
  <2>1. CASE i = 1
    BY <1>2, <1>3, <1>4, <2>1 DEF IsChain
  <2>2. CASE i # 1
    <3>1. PICK j \in 1 .. Linked : j = i - 1 /\ j < Linked /\ j + 1 = i
      BY <1>2, <1>4, <2>2
    <3>2. next[s[j]] = s[j + 1]
      BY <1>3, <3>1 DEF IsChain
    <3> QED
      BY <2>2, <3>1, <3>2
  <2> QED
    BY <2>1, <2>2
<1>6. Walk(head, next, data, size + 1) = [i \in 1 .. size + 1 |-> data[s[i]]]
  <2>1. PICK z, f : z = size + 1 /\ f = s
    OBVIOUS
  <2>2. /\ z \in Nat
        /\ \A i \in 1 .. z : f[i] = IF i = 1 THEN head ELSE next[f[i - 1]]
    BY <1>4, <1>5, <2>1
  <2>3. Walk(head, next, data, z) = [i \in 1 .. z |-> data[f[i]]]
    BY <2>2, WalkIs
  <2> QED
    BY <2>1, <2>3
<1>7. Contents' = [i \in 1 .. size + 1 |-> data[s[i]]]
  <2>1. Contents' = Walk(head', next', data', size')
    BY DEF Contents, Walk
  <2>2. UNCHANGED <<head, next, data>>
    BY DEF PushCount, nodeVars
  <2> QED
    BY <1>1, <1>6, <2>1, <2>2
<1>8. PICK v \in Values : v = data[s[size + 1]]
  BY <1>2, <1>4
<1>9. Contents' = Append(Contents, v)
  <2>1. /\ Append(Contents, v) \in Seq(Values)
        /\ Len(Append(Contents, v)) = size + 1
        /\ \A i \in 1 .. size + 1 : Append(Contents, v)[i] =
             IF i = size + 1 THEN v ELSE Contents[i]
    BY <1>4, AppendProperties
  <2>2. \A i \in 1 .. size : Contents[i] = data[s[i]]
    BY <1>4
  <2>3. Contents' \in Seq(Values) /\ Len(Contents') = size + 1
    BY <1>2, <1>4, <1>7, IsASeq
  <2>4. \A i \in 1 .. size + 1 : Contents'[i] = Append(Contents, v)[i]
    BY <1>4, <1>7, <1>8, <2>1, <2>2
  <2> QED
    BY <2>1, <2>3, <2>4, SeqEqual
<1>10. size < Program.slots
  BY RoomToCount
<1> QED
  BY <1>4, <1>8, <1>9, <1>10 DEF Fifo!Put

\* Unlinking the first node takes the first value.
LEMMA UnlinkContents ==
  ASSUME QueueInv, NEW u, UnlinkHead(u), size # 0
  PROVE  Fifo!Take
<1> USE DEF QueueInv
<1>1. PICK s \in [1 .. Linked -> alloc] : IsChain(s)
  BY DEF QueueChainIntact
<1>2. /\ size \in Nat /\ Linked \in Nat /\ size <= Linked
      /\ \A i \in 1 .. size : s[i] = IF i = 1 THEN head ELSE next[s[i - 1]]
      /\ \A i \in 1 .. Linked : data[s[i]] \in Values
      /\ Contents \in Seq(Values) /\ Len(Contents) = size
      /\ \A i \in 1 .. size : Contents[i] = data[s[i]]
  BY <1>1, ContentsIs
<1>3. /\ size' = size - 1 /\ head' = next[head] /\ next' = next
      /\ data' = data
  BY DEF UnlinkHead, nodeVars
<1>4. PICK r : r = [i \in 1 .. size - 1 |-> s[i + 1]]
  OBVIOUS
<1>5. \A i \in 1 .. size - 1 : r[i] = IF i = 1 THEN head' ELSE next'[r[i - 1]]
  <2> SUFFICES ASSUME NEW i \in 1 .. size - 1
               PROVE  r[i] = IF i = 1 THEN head' ELSE next'[r[i - 1]]
    OBVIOUS
  <2>1. PICK j \in 1 .. size : j = i + 1 /\ j # 1 /\ j - 1 = i
    BY <1>2
  <2>2. r[i] = s[j] /\ s[j] = next[s[i]]
    BY <1>2, <1>4, <2>1
  <2>3. CASE i = 1
    BY <1>2, <1>3, <2>2, <2>3
  <2>4. CASE i # 1
    <3>1. PICK l \in 1 .. size - 1 : l = i - 1 /\ l + 1 = i
      BY <1>2, <2>4
    <3>2. r[l] = s[i]
      BY <1>4, <3>1
    <3> QED
      BY <1>3, <2>2, <2>4, <3>1, <3>2
  <2> QED
    BY <2>3, <2>4
<1>6. size - 1 \in Nat
  BY <1>2
<1>7. Walk(head', next', data', size - 1)
        = [i \in 1 .. size - 1 |-> data'[r[i]]]
  BY <1>5, <1>6, WalkIs
<1>8. Contents' = [i \in 1 .. size - 1 |-> data[s[i + 1]]]
  <2>1. Contents' = Walk(head', next', data', size')
    BY DEF Contents, Walk
  <2> QED
    BY <1>3, <1>4, <1>7, <2>1
<1>9. Contents # <<>>
  BY <1>2
<1>10. Contents' = Tail(Contents)
  <2>1. /\ Tail(Contents) \in Seq(Values)
        /\ Len(Tail(Contents)) = size - 1
        /\ \A i \in 1 .. size - 1 : Tail(Contents)[i] = Contents[i + 1]
    BY <1>2, <1>9, HeadTailProperties
  <2>2. \A i \in 1 .. size - 1 : i + 1 \in 1 .. size
    BY <1>2
  <2>3. \A i \in 1 .. size - 1 : data[s[i + 1]] \in Values
    BY <1>2
  <2>4. Contents' \in Seq(Values) /\ Len(Contents') = size - 1
    BY <1>6, <1>8, <2>3, IsASeq
  <2>5. \A i \in 1 .. size - 1 : Contents'[i] = Tail(Contents)[i]
    BY <1>2, <1>8, <2>1, <2>2
  <2> QED
    BY <2>1, <2>4, <2>5, SeqEqual
<1> QED
  BY <1>9, <1>10 DEF Fifo!Take

\* Every step up to a race is one of the buffer, or none.
LEMMA NextFifo ==
  ASSUME IInv, SlotAccounting, Counts, [Next]_vars, ~torn'
  PROVE  [Fifo!Next]_Contents
<1>q. ~torn /\ QueueInv
  BY TornStays DEF IInv
<1>1. ASSUME UNCHANGED <<size, head, next, data>> PROVE Contents' = Contents
  BY <1>1 DEF Contents
<1>2. CASE MainStep
  <2>1. CASE EmptyQ
    <3>1. size # 0 /\ UnlinkHead(Main)
      BY <1>q, <2>1 DEF EmptyQ, QueueInv, TypeOK
    <3> QED
      BY <1>q, <3>1, UnlinkContents DEF Fifo!Next
  <2>2. CASE ~EmptyQ
    BY <1>1, <1>2, <2>2
    DEF MainStep, Create, CreateFails, AfterCreate, Stop, Join, JoinGarbage,
        AfterJoin, PrintAndDestroy, EmptyQFree, EmptyQTorn, FreeNode,
        FreeQueue, Exit, queueVars
  <2> QED
    BY <2>1, <2>2
<1>3. ASSUME NEW t \in Threads, ThreadStep(t)
      PROVE  [Fifo!Next]_Contents
  <2>1. CASE PushLink(t)
    BY <1>q, <2>1, PushLinkContents
  <2>2. CASE PushCount(t)
    BY <1>q, <2>2, PushCountContents DEF Fifo!Next
  <2>3. CASE PopUnlink(t)
    <3>1. CASE size # 0 /\ UnlinkHead(t)
      BY <1>q, <3>1, UnlinkContents DEF Fifo!Next
    <3>2. CASE UNCHANGED queueVars
      BY <1>1, <3>2 DEF queueVars
    <3> QED
      BY <2>3, <3>1, <3>2 DEF PopUnlink
  <2>4. CASE PopFree(t)
    BY <1>1, <2>4 DEF PopFree, FreeNode
  <2>5. CASE SemWait(t) \/ Lock(t) \/ Unlock(t) \/ SemPost(t) \/ Again(t)
    BY <1>1, <2>5 DEF SemWait, Lock, Unlock, SemPost, Again, queueVars
  <2> QED
    BY <1>3, <1>q, <2>1, <2>2, <2>3, <2>4, <2>5 DEF ThreadStep, TornAccess
<1>4. CASE UNCHANGED vars
  BY <1>1, <1>4 DEF vars, queueVars
<1> QED
  BY <1>2, <1>3, <1>4 DEF Next

\* The buffer starts empty, and full counts it.
LEMMA InitFifo == Init => Fifo!Init /\ Counts
<1> SUFFICES ASSUME Init PROVE Contents = <<>> /\ Counts
  BY DEF Fifo!Init
<1>1. size = 0
  BY DEF Init
<1>2. Contents = Walk(head, next, data, size)
  BY ContentsWalk
<1>3. Counts
  BY InitItemAccounting DEF Init, Counts, ItemAccounting, Serving
<1> QED
  BY <1>1, <1>2, <1>3 DEF Walk

\* Up to the first race, always.
LEMMA AlwaysCounts == Spec => []Counts
<1>1. IInv /\ Counts /\ [Next]_vars => Counts'
  BY NextCounts
<1> QED
  BY <1>1, InitFifo, Invariance, PTL DEF Spec

\* Up to the first race producers, consumers and main, for any number of them
\* and of places and for both programs, use the queue as a first-in first-out
\* buffer that never holds more values than empty had slots.
THEOREM IsFifoUntilTorn == Spec => FifoUntilTorn
<1>1. IInv /\ SlotAccounting /\ Counts /\ [Next]_vars
        => [~torn' => [Fifo!Next]_Contents]_vars
  BY NextFifo
<1> QED
  BY <1>1, InitFifo, Invariance, SlotsConserved, AlwaysCounts, PTL
  DEF Spec, FifoUntilTorn

\* quit is what the arguments made it, or what the stack held.
LEMMA QuitKept == Spec => [](ArgQuit => quit = 1)
<1>1. Init => (ArgQuit => quit = 1)
  BY DEF Init
<1>2. (ArgQuit => quit = 1) /\ [Next]_vars => (ArgQuit => quit = 1)'
  BY DEF Next, MainStep, Create, CreateFails, AfterCreate, Stop, Join,
     JoinGarbage, AfterJoin, PrintAndDestroy, EmptyQ, EmptyQFree,
     EmptyQTorn, FreeQueue, Exit, ThreadStep, SemWait, Lock, PushLink,
     PushCount, PopUnlink, PopFree, TornAccess, Unlock, SemPost, Again,
     vars, mainVars
<1> QED
  BY <1>1, <1>2, PTL DEF Spec

\* When main joins every thread, which project4a.cpp always does with no more
\* consumers than producers and partone.cpp does when it is given a fifth
\* argument too, there is no race, and the queue is that buffer for good.
THEOREM IsFifo ==
  ASSUME NumCons <= NumProd, Program.joins \/ ArgQuit
  PROVE  Spec => ImplementsFifo
<1>1. (ArgQuit => quit = 1) /\ RacesAreMains => ~torn
  BY DEF RacesAreMains, AllJoined
<1>2. IInv /\ SlotAccounting /\ Counts /\ [Next]_vars /\ ~torn'
        => [Fifo!Next]_Contents
  BY NextFifo
<1> QED
  BY <1>1, <1>2, InitFifo, Invariance, SlotsConserved, AlwaysCounts,
     RacesAreLate, QuitKept, PTL
  DEF Spec, ImplementsFifo, Fifo!Spec
=============================================================================
