----------------------------- MODULE MergeSort -----------------------------
(***************************************************************************)
(* The sorting functions of project4b.cpp, on arrays indexed from 1.       *)
(***************************************************************************)
EXTENDS Integers, Sequences

Prefix(A, n)  == [i \in 1 .. n |-> A[i]]

(***************************************************************************)
(* merge(A, a, B, b, C): C is filled from position k = i + j on, from the  *)
(* front of A or of B; of two equal elements A's comes first.  The index   *)
(* of C is the pair of i and j.                                            *)
(***************************************************************************)
merge(A, B) ==
  LET C[p \in (1 .. Len(A) + 1) \X (1 .. Len(B) + 1)] ==
        LET i == p[1]
            j == p[2]
        IN  CASE i <= Len(A) /\ j <= Len(B) /\ A[i] <= B[j] ->
                   <<A[i]>> \o C[<<i + 1, j>>]
              [] i <= Len(A) /\ j <= Len(B) /\ A[i] > B[j] ->
                   <<B[j]>> \o C[<<i, j + 1>>]
              [] i > Len(A) -> SubSeq(B, j, Len(B))
              [] j > Len(B) -> SubSeq(A, i, Len(A))
  IN  C[<<1, 1>>]

(***************************************************************************)
(* merge_sort(A, n) splits the first n elements at n / 2, sorts copies of  *)
(* the halves and merges them back into A; the rest of A is left alone.    *)
(***************************************************************************)
merge_sort(A, n) ==
  LET sort[s \in Seq(Int)] ==
        LET n1 == Len(s) \div 2
        IN  IF Len(s) < 2
            THEN s
            ELSE merge(sort[SubSeq(s, 1, n1)], sort[SubSeq(s, n1 + 1, Len(s))])
      sorted == sort[Prefix(A, n)]
  IN  [i \in DOMAIN A |-> IF i <= n THEN sorted[i] ELSE A[i]]

(***************************************************************************)
(* selectionSort(temp, size): turn x exchanges element x and the first of  *)
(* the least elements from x on.                                           *)
(***************************************************************************)
minIndex(A, x) ==
  CHOOSE y \in x .. Len(A) :
    \A z \in x .. Len(A) : A[y] < A[z] \/ (A[y] = A[z] /\ y <= z)

selectionSort(temp, size) ==
  LET after[x \in 0 .. size] ==
        IF x = 0 THEN temp
        ELSE LET A == after[x - 1]
                 y == minIndex(A, x)
             IN  [A EXCEPT ![x] = A[y], ![y] = A[x]]
  IN  after[size]
=============================================================================
