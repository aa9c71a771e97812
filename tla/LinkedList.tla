----------------------------- MODULE LinkedList -----------------------------
(***************************************************************************)
(* The doubly linked list of proj_03/partthree_ll.cpp, its operations on a *)
(* list that a caller gives nodes of.  The data in the nodes is left out:  *)
(* no operation but quick_sort(), which nothing calls, looks at it.        *)
(***************************************************************************)
EXTENDS Integers, Sequences, FiniteSets

CONSTANTS Nodes,    \* the addresses malloc can return
          NULL,
          MinSize   \* bound: how far below 0 size is followed

ASSUME NodesAssumption == NULL \notin Nodes /\ IsFiniteSet(Nodes)
ASSUME MinSizeAssumption == MinSize \in Int /\ MinSize <= 0

VARIABLES
  size, head, tail,     \* the fields of the List
  alloc,                \* the nodes that are allocated
  next, prev            \* the fields of the nodes

vars == <<size, head, tail, alloc, next, prev>>

Pointers == Nodes \cup {NULL}

Init ==
  /\ size = 0 /\ head = NULL /\ tail = NULL
  /\ alloc = {}
  /\ next \in [Nodes -> {NULL}] /\ prev \in [Nodes -> {NULL}]

-----------------------------------------------------------------------------
\* insert(list, n, data) with n the head or NULL.
InsertAtHead(n, t) ==
  /\ n \in {head, NULL}
  /\ head' = t
  /\ tail' = IF head = NULL THEN t ELSE tail
  /\ next' = [next EXCEPT ![t] = head]
  /\ prev' = [m \in Nodes |-> IF m = t THEN NULL
                              ELSE IF m = head THEN t ELSE prev[m]]
  /\ size' = size + 1

\* Mutant of InsertAtTail: the node that was last is not linked to the new one.
InsertAtTailUnlinked(n, t) ==
  /\ n \notin {head, NULL} /\ n = tail
  /\ next' = [next EXCEPT ![t] = NULL]
  /\ prev' = [prev EXCEPT ![t] = tail]
  /\ tail' = t
  /\ UNCHANGED <<head, size>>

\* With n the tail: the new node goes behind it, and size stays as it is.
InsertAtTail(n, t) ==
  /\ n \notin {head, NULL} /\ n = tail
  /\ next' = [next EXCEPT ![t] = NULL, ![tail] = t]
  /\ prev' = [prev EXCEPT ![t] = tail]
  /\ tail' = t
  /\ UNCHANGED <<head, size>>

\* With any other n: the new node goes before it, and size stays as it is.
InsertBefore(n, t) ==
  /\ n \notin {head, NULL, tail}
  /\ next' = [next EXCEPT ![t] = n, ![prev[n]] = t]
  /\ prev' = [prev EXCEPT ![t] = prev[n], ![n] = t]
  /\ UNCHANGED <<head, tail, size>>

Insert(n) ==
  \E t \in Nodes \ alloc :
    /\ alloc' = alloc \cup {t}
    /\ InsertAtHead(n, t) \/ InsertAtTail(n, t) \/ InsertBefore(n, t)

\* The nodes that remove() and print() come to from the head, in order.  (node
\* is NULL from the end of the list on.)
Walk ==
  LET node[i \in 1 .. Cardinality(Nodes)] ==
        IF i = 1 THEN head
        ELSE IF node[i - 1] = NULL THEN NULL ELSE next[node[i - 1]]
      length == Cardinality({i \in 1 .. Cardinality(Nodes) : node[i] # NULL})
  IN  [i \in 1 .. length |-> node[i]]

\* remove(list): every node is freed and counted; tail is left as it is.
remove ==
  /\ head # NULL
  /\ head' = NULL
  /\ alloc' = alloc \ {Walk[i] : i \in DOMAIN Walk}
  /\ size - Len(Walk) >= MinSize
  /\ size' = size - Len(Walk)
  /\ UNCHANGED <<tail, next, prev>>

\* get_nth_element(list, elementNum), counted from 0.  (The list is not empty:
\* the walk of an empty one dereferences NULL.)
get_nth_element(elementNum) ==
  IF elementNum = 0 THEN head
  ELSE IF elementNum = size THEN tail
  ELSE IF elementNum < 0 THEN head
  ELSE IF elementNum + 1 \in DOMAIN Walk THEN Walk[elementNum + 1] ELSE NULL

Next == remove \/ \E n \in alloc \cup {NULL} : Insert(n)

Spec == Init /\ [][Next]_vars

-----------------------------------------------------------------------------
(***************************************************************************)
(* Properties.                                                             *)
(***************************************************************************)
\* The links lead from head to tail through every allocated node, once, and
\* prev leads the same way back: no operation loses a node or links a freed
\* one, although remove() leaves tail dangling.
ChainIntact ==
  /\ Len(Walk) = Cardinality(alloc)
  /\ {Walk[i] : i \in DOMAIN Walk} = alloc
  /\ head # NULL =>
       /\ tail = Walk[Len(Walk)] /\ next[tail] = NULL /\ prev[head] = NULL
       /\ \A i \in 1 .. Len(Walk) - 1 : prev[Walk[i + 1]] = Walk[i]

\* print(list) follows size links from head and from tail.  size misses the
\* nodes inserted elsewhere than at the head, and goes below 0 when they are
\* removed, but it is never more than there are nodes: print() does not run
\* off the list.
PrintStaysInside == size <= Cardinality(alloc)

\* get_nth_element() finds every node of a list all of whose nodes were
\* inserted at the head, and of a list that has others too, every node but the
\* one size has the number of.
NthFound ==
  \A i \in 0 .. Len(Walk) - 1 : i # size \/ i = 0 =>
    get_nth_element(i) = Walk[i + 1]

\* The three of them, over any sequence of inserts and removals.
ListHolds == ChainIntact /\ PrintStaysInside /\ NthFound
=============================================================================
