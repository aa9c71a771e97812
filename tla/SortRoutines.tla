---------------------------- MODULE SortRoutines ----------------------------
(***************************************************************************)
(* The sorting and merging routines of proj_03/other.cpp, as operators on  *)
(* sequences: what each returns is what it leaves in the vector it is      *)
(* given.  Indices start at 1.  An index outside the vector, for which     *)
(* at() throws, is an evaluation error here.                               *)
(*                                                                         *)
(* Lists are not empty: doQuickSort and doSelectionSort compute size() - 1 *)
(* of an unsigned size; what becomes of a thread that does so is part of   *)
(* ThreadSort.                                                             *)
(***************************************************************************)
EXTENDS Integers, Sequences, SequencesExt

Swap(A, x, y) == [A EXCEPT ![x] = A[y], ![y] = A[x]]

\* What n turns make of s: turn k makes body[k][r] of r.  Where the code tests a
\* condition, n is a number of turns after which it has failed, and a turn that
\* finds it failed changes nothing.
Loop(body, s, n) ==
  LET after[k \in 0 .. n] == IF k = 0 THEN s ELSE body[k][after[k - 1]]
  IN  IF n > 0 THEN after[n] ELSE s

-----------------------------------------------------------------------------
Crossing == [list : Seq(Int), i : Int, j : Int]

\* The crossing of i and j around the pivot.
Cross(A, leftMost, rightMost) ==
  LET pivotVal == A[(leftMost + rightMost) \div 2]
      turn == [r \in Crossing |->
                 LET x == Min({y \in r.i .. Len(A) : r.list[y] >= pivotVal})
                     y == Max({z \in 1 .. r.j : r.list[z] <= pivotVal})
                 IN  IF r.i > r.j THEN r
                     ELSE IF x <= y
                     THEN [list |-> Swap(r.list, x, y), i |-> x + 1, j |-> y - 1]
                     ELSE [list |-> r.list, i |-> x, j |-> y]]
  IN  Loop([k \in 1 .. Len(A) |-> turn],
           [list |-> A, i |-> leftMost, j |-> rightMost], Len(A))

\* The parts of the lists of n numbers.
Parts(n) == {q \in [list : Seq(Int), left : 1 .. n, right : 1 .. n] :
               Len(q.list) = n /\ q.left <= q.right}

doQuickSort(A, leftMost, rightMost) ==
  LET sort[q \in Parts(Len(A))] ==
        LET c == Cross(q.list, q.left, q.right)
            B == IF q.left < c.j
                 THEN sort[[list |-> c.list, left |-> q.left, right |-> c.j]]
                 ELSE c.list
        IN  IF c.i < q.right
            THEN sort[[list |-> B, left |-> c.i, right |-> q.right]]
            ELSE B
  IN  sort[[list |-> A, left |-> leftMost, right |-> rightMost]]

\* The first of the least elements from i on.
MinIndex(A, i) == Min({x \in i .. Len(A) : \A y \in i .. Len(A) : A[x] <= A[y]})

doSelectionSort(A) ==
  Loop([i \in 1 .. Len(A) - 1 |-> [B \in Seq(Int) |-> Swap(B, i, MinIndex(B, i))]],
       A, Len(A) - 1)

Pass == [list : Seq(Int), newN : Int]

\* One pass of the bubble sort over the first n: newN is the last exchange.
Bubble(A, n) ==
  Loop([i \in 1 .. n - 1 |->
          [r \in Pass |-> IF r.list[i] > r.list[i + 1]
                          THEN [list |-> Swap(r.list, i, i + 1), newN |-> i]
                          ELSE r]],
       [list |-> A, newN |-> 0], n - 1)

\* Every pass is shorter than the last.
doBubbleSort(A) ==
  LET turn == [r \in Pass |-> IF r.newN > 0 THEN Bubble(r.list, r.newN) ELSE r]
  IN  Loop([k \in 1 .. Len(A) |-> turn],
           [list |-> A, newN |-> Len(A)], Len(A)).list

Hole == [list : Seq(Int), at : Int]

\* The number at j is taken out, the hole it leaves goes down in steps of gap,
\* past what is greater, and the number is put there.
Slide(A, j, gap) ==
  LET turn == [r \in Hole |->
                 IF r.at > gap /\ r.list[r.at - gap] > A[j]
                 THEN [list |-> [r.list EXCEPT ![r.at] = r.list[r.at - gap]],
                       at |-> r.at - gap]
                 ELSE r]
      end == Loop([k \in 1 .. j |-> turn], [list |-> A, at |-> j], j)
  IN  [end.list EXCEPT ![end.at] = A[j]]

SlideAll(A, gap) ==
  Loop([i \in 1 .. Len(A) - gap |-> [B \in Seq(Int) |-> Slide(B, i + gap, gap)]],
       A, Len(A) - gap)

gaps == <<701, 301, 132, 57, 23, 10, 4, 1>>

doShellSort(A) ==
  Loop([k \in 1 .. 8 |-> [B \in Seq(Int) |-> SlideAll(B, gaps[k])]], A, 8)

doInsertionSort(A) == SlideAll(A, 1)

Eating == [merged : Seq(Int), first : Seq(Int), second : Seq(Int)]

\* The lists are eaten from the front.
mergeUnsortedLists(firstList, secondList) ==
  LET n == Len(firstList) + Len(secondList)
      turn == [r \in Eating |->
                 IF r.first # <<>> /\ (r.second = <<>> \/ r.first[1] <= r.second[1])
                 THEN [merged |-> Append(r.merged, r.first[1]),
                       first |-> Tail(r.first), second |-> r.second]
                 ELSE [merged |-> Append(r.merged, r.second[1]),
                       first |-> r.first, second |-> Tail(r.second)]]
  IN  Loop([k \in 1 .. n |-> turn],
           [merged |-> <<>>, first |-> firstList, second |-> secondList], n).merged

doMergeSort(A) ==
  LET sort[s \in Seq(Int)] ==
        LET mMiddle == Len(s) \div 2
        IN  IF Len(s) > 1
            THEN mergeUnsortedLists(sort[SubSeq(s, 1, mMiddle)],
                                    sort[SubSeq(s, mMiddle + 1, Len(s))])
            ELSE s
  IN  sort[A]

Taking == [merged : Seq(Int), i : Int, j : Int]

\* i and j run over the lists until one of them is at its end.
RunOver(firstList, secondList) ==
  LET n == Len(firstList) + Len(secondList)
      turn == [r \in Taking |->
                 IF r.i > Len(firstList) \/ r.j > Len(secondList) THEN r
                 ELSE IF firstList[r.i] <= secondList[r.j]
                 THEN [merged |-> Append(r.merged, firstList[r.i]),
                       i |-> r.i + 1, j |-> r.j]
                 ELSE [merged |-> Append(r.merged, secondList[r.j]),
                       i |-> r.i, j |-> r.j + 1]]
  IN  Loop([k \in 1 .. n |-> turn], [merged |-> <<>>, i |-> 1, j |-> 1], n)

\* Mutant of mergeSortedLists: the rest of the first list is always taken.
mergeSortedListsFirst(firstList, secondList) ==
  LET r == RunOver(firstList, secondList)
  IN  r.merged \o SubSeq(firstList, r.i, Len(firstList))

\* The lists stay as they are; the rest of one of them is taken at the end.
mergeSortedLists(firstList, secondList) ==
  LET r == RunOver(firstList, secondList)
  IN  r.merged \o (IF r.i <= Len(firstList)
                   THEN SubSeq(firstList, r.i, Len(firstList))
                   ELSE SubSeq(secondList, r.j, Len(secondList)))

-----------------------------------------------------------------------------
\* The switch of performSortOnThread().
SortTypes == {"QUICK_SORT", "SELECTION_SORT", "MERGE_SORT", "BUBBLE_SORT",
              "SHELL_SORT", "INSERTION_SORT"}

SortOnThread(type, A) ==
  CASE type = "QUICK_SORT"     -> doQuickSort(A, 1, Len(A))
    [] type = "SELECTION_SORT" -> doSelectionSort(A)
    [] type = "MERGE_SORT"     -> doMergeSort(A)
    [] type = "BUBBLE_SORT"    -> doBubbleSort(A)
    [] type = "SHELL_SORT"     -> doShellSort(A)
    [] type = "INSERTION_SORT" -> doInsertionSort(A)

-----------------------------------------------------------------------------
Sorted(A) == IsSorted(A, <=)

\* A and B hold the same numbers, each as often.
SameNumbers(A, B) ==
  /\ Len(A) = Len(B)
  /\ \A x \in ToSet(A) : Cardinality({y \in DOMAIN A : A[y] = x}) =
                         Cardinality({y \in DOMAIN B : B[y] = x})
=============================================================================
