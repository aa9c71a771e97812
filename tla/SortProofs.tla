-------------------------- MODULE SortProofs -------------------------------
(***************************************************************************)
(* Every sort of the two programs sorts every list of numbers, and their   *)
(* three merges return one and the same list: merge_sort, selectionSort    *)
(* and merge of project4b, which is what ForkSort assumes of them, and the *)
(* routines of proj_03/other.cpp, which is what ThreadSort does.           *)
(*                                                                         *)
(* For merge_sort, "sorted" means Drawn: a sequence is in order, and its   *)
(* elements are those of another one at different places of a set.  merge  *)
(* draws the elements of A \o B (MergeMerges): of what is left of A and of *)
(* B it takes the least and goes on with the rest.  For the routines of    *)
(* other.cpp it is SortedFrom: in order, and all of another one.           *)
(*                                                                         *)
(* A recursive function is a CHOOSE: it has the equation of its definition *)
(* only if some function has.  TableExists, SortExists, TurnsExist,        *)
(* LoopExists and QuickExists build one, by the number of elements still   *)
(* to be taken, by the length of the sequence or by the number of turns.   *)
(* What then holds of it everywhere is proved by the least such number for *)
(* which it would not hold (Least, of SumFacts).                           *)
(*                                                                         *)
(* The loops of other.cpp are all Loop(body, s, n): what is true of s and  *)
(* kept by every turn is true at the end (LoopKeeps).  What each keeps is  *)
(* PassAt (bubble sort), HoleAt (the slide of insertion sort and shell     *)
(* sort), Crossed (the crossing of quick sort), EatenAt and RunAt (the     *)
(* two merges).                                                            *)
(***************************************************************************)
EXTENDS MergeSort, SortRoutines, SumFacts, SequenceTheorems

-----------------------------------------------------------------------------
(* Sequences in order, and sequences drawn from others.                    *)

\* s is in order.
Ordered(s) == \A x, y \in 1 .. Len(s) : x <= y => s[x] <= s[y]

\* t is in order, and its elements are those of s at different places in R.
Drawn(t, s, R) ==
  /\ t \in Seq(Int) /\ Ordered(t)
  /\ \E f \in [1 .. Len(t) -> R] :
       /\ \A x, y \in 1 .. Len(t) : f[x] = f[y] => x = y
       /\ \A x \in 1 .. Len(t) : t[x] = s[f[x]]

\* The elements of a sequence with one more put in front.
LEMMA InFront ==
  ASSUME NEW e \in Int, NEW t \in Seq(Int)
  PROVE  LET u == <<e>> \o t IN
         /\ u \in Seq(Int) /\ Len(u) = Len(t) + 1 /\ Len(t) \in Nat
         /\ \A x \in 1 .. Len(u) :
              u[x] = IF x = 1 THEN e ELSE t[x - 1]
<1>1. <<e>> \in Seq(Int) /\ Len(<<e>>) = 1 /\ <<e>>[1] = e /\ Len(t) \in Nat
  OBVIOUS
<1> DEFINE u == <<e>> \o t
<1>2. /\ u \in Seq(Int) /\ Len(u) = 1 + Len(t)
      /\ \A x \in 1 .. 1 + Len(t) : u[x] = IF x <= 1 THEN <<e>>[x] ELSE t[x - 1]
  BY <1>1, ConcatProperties
<1> HIDE DEF u
<1>3. \A x \in 1 .. Len(u) : u[x] = IF x = 1 THEN e ELSE t[x - 1]
  BY <1>1, <1>2
<1> QED
  BY <1>1, <1>2, <1>3 DEF u

\* One more is drawn, and put in front.
LEMMA DrawOne ==
  ASSUME NEW s \in Seq(Int), NEW R \in SUBSET (1 .. Len(s)), NEW r \in 1 .. Len(s),
         r \notin R, \A k \in R : s[r] <= s[k],
         NEW t \in Seq(Int), Drawn(t, s, R)
  PROVE  /\ Drawn(<<s[r]>> \o t, s, R \cup {r})
         /\ Len(<<s[r]>> \o t) = Len(t) + 1
<1>1. s[r] \in Int /\ t \in Seq(Int)
  BY DEF Drawn
<1> DEFINE u == <<s[r]>> \o t
<1>2. /\ u \in Seq(Int) /\ Len(u) = Len(t) + 1 /\ Len(t) \in Nat
      /\ \A x \in 1 .. Len(u) : u[x] = IF x = 1 THEN s[r] ELSE t[x - 1]
  BY <1>1, InFront
<1> HIDE DEF u
<1>3. PICK f \in [1 .. Len(t) -> R] :
        /\ \A x, y \in 1 .. Len(t) : f[x] = f[y] => x = y
        /\ \A x \in 1 .. Len(t) : t[x] = s[f[x]]
  BY DEF Drawn
<1>4. \A x \in 1 .. Len(u) : x # 1 => x - 1 \in 1 .. Len(t)
  BY <1>2
<1>5. Ordered(u)
  <2> SUFFICES ASSUME NEW x \in 1 .. Len(u), NEW y \in 1 .. Len(u), x <= y
               PROVE  u[x] <= u[y]
    BY DEF Ordered
  <2>1. CASE x = 1 /\ y = 1
    BY <1>1, <1>2, <2>1
  <2>2. CASE x = 1 /\ y # 1
    <3>1. y - 1 \in 1 .. Len(t)
      BY <1>4, <2>2
    <3>2. t[y - 1] = s[f[y - 1]] /\ f[y - 1] \in R
      BY <1>3, <3>1
    <3> QED
      BY <1>2, <2>2, <3>2
  <2>3. CASE x # 1
    <3>1. x - 1 \in 1 .. Len(t) /\ y - 1 \in 1 .. Len(t) /\ x - 1 <= y - 1 /\ y # 1
      BY <1>2, <1>4, <2>3
    <3>2. t[x - 1] <= t[y - 1]
      BY <3>1 DEF Drawn, Ordered
    <3> QED
      BY <1>2, <2>3, <3>1, <3>2
  <2> QED
    BY <2>1, <2>2, <2>3
<1>6. PICK g : g = [x \in 1 .. Len(u) |-> IF x = 1 THEN r ELSE f[x - 1]]
  OBVIOUS
<1>7. g \in [1 .. Len(u) -> R \cup {r}]
  BY <1>3, <1>4, <1>6
<1>8. ASSUME NEW x \in 1 .. Len(u), NEW y \in 1 .. Len(u), g[x] = g[y]
      PROVE  x = y
  <2>1. \A z \in 1 .. Len(u) : z # 1 => g[z] = f[z - 1] /\ g[z] \in R
    BY <1>3, <1>4, <1>6
  <2>2. g[1] = r
    BY <1>2, <1>6
  <2>3. CASE x = 1 \/ y = 1
    BY <1>8, <2>1, <2>2, <2>3
  <2>4. CASE x # 1 /\ y # 1
    <3>1. x - 1 \in 1 .. Len(t) /\ y - 1 \in 1 .. Len(t) /\ f[x - 1] = f[y - 1]
      BY <1>4, <1>8, <2>1, <2>4
    <3>2. x - 1 = y - 1
      BY <1>3, <3>1
    <3> QED
      BY <3>2
  <2> QED
    BY <2>3, <2>4
<1>9. \A x \in 1 .. Len(u) : u[x] = s[g[x]]
  BY <1>2, <1>3, <1>4, <1>6
<1>10. Drawn(u, s, R \cup {r})
  BY <1>2, <1>5, <1>7, <1>8, <1>9 DEF Drawn
<1> QED
  BY <1>2, <1>10 DEF u

\* s is in order from a to b.
InOrder(s, a, b) == \A k, l \in a .. b : k <= l => s[k] <= s[l]

\* A part that is in order is drawn as it is.
LEMMA DrawRest ==
  ASSUME NEW s \in Seq(Int), NEW a \in Int, NEW b \in Int,
         \A k \in a .. b : k \in 1 .. Len(s), InOrder(s, a, b),
         NEW t \in Seq(Int), a <= b + 1, Len(t) = b - a + 1,
         \A x \in 1 .. Len(t) : t[x] = s[a + x - 1]
  PROVE  Drawn(t, s, a .. b)
<1>1. \A x \in 1 .. Len(t) : a + x - 1 \in a .. b
  OBVIOUS
<1>2. Ordered(t)
  BY <1>1 DEF Ordered, InOrder
<1>3. PICK f : f = [x \in 1 .. Len(t) |-> a + x - 1]
  OBVIOUS
<1>4. /\ f \in [1 .. Len(t) -> a .. b]
      /\ \A x, y \in 1 .. Len(t) : f[x] = f[y] => x = y
      /\ \A x \in 1 .. Len(t) : t[x] = s[f[x]]
  BY <1>1, <1>3
<1> QED
  BY <1>2, <1>4 DEF Drawn

\* The places from i to m and from m + j to m + n.
Rest(m, n, i, j) == (i .. m) \cup (m + j .. m + n)

-----------------------------------------------------------------------------
(* merge().                                                                *)

\* What C has at i and j, by what it has further on.
Turn(A, B, C, i, j) ==
  CASE i <= Len(A) /\ j <= Len(B) /\ A[i] <= B[j] ->
         <<A[i]>> \o C[<<i + 1, j>>]
    [] i <= Len(A) /\ j <= Len(B) /\ A[i] > B[j] ->
         <<B[j]>> \o C[<<i, j + 1>>]
    [] i > Len(A) -> SubSeq(B, j, Len(B))
    [] j > Len(B) -> SubSeq(A, i, Len(A))

\* The places of C.
Grid(A, B) == (1 .. Len(A) + 1) \X (1 .. Len(B) + 1)

\* How many elements are still to be taken at i and j.
ToTake(A, B, i, j) == (Len(A) + 1 - i) + (Len(B) + 1 - j)

\* t is A from i on and B from j on, merged.
Merged(t, A, B, i, j) ==
  Len(t) = ToTake(A, B, i, j) /\ Drawn(t, A \o B, Rest(Len(A), Len(B), i, j))

\* merge() looks one ahead.
LEMMA TurnLooksAhead ==
  ASSUME NEW A \in Seq(Int), NEW B \in Seq(Int), NEW C, NEW D,
         NEW i \in 1 .. Len(A) + 1, NEW j \in 1 .. Len(B) + 1,
         i <= Len(A) /\ j <= Len(B) =>
           /\ C[<<i + 1, j>>] = D[<<i + 1, j>>]
           /\ C[<<i, j + 1>>] = D[<<i, j + 1>>]
  PROVE  Turn(A, B, C, i, j) = Turn(A, B, D, i, j)
<1>1. CASE i <= Len(A) /\ j <= Len(B)
  <2>1. C[<<i + 1, j>>] = D[<<i + 1, j>>] /\ C[<<i, j + 1>>] = D[<<i, j + 1>>]
    BY <1>1
  <2> QED
    BY <2>1, Zenon DEF Turn
<1>2. CASE ~(i <= Len(A) /\ j <= Len(B))
  <2>1. ~(i <= Len(A) /\ j <= Len(B) /\ A[i] <= B[j])
    BY <1>2
  <2>2. ~(i <= Len(A) /\ j <= Len(B) /\ A[i] > B[j])
    BY <1>2
  <2> QED
    BY <2>1, <2>2, SMTT(60) DEF Turn
<1> QED
  BY <1>1, <1>2

\* There is such a C: it can be filled from the ends of A and B.
LEMMA TableExists ==
  ASSUME NEW A \in Seq(Int), NEW B \in Seq(Int)
  PROVE  \E C : C = [p \in Grid(A, B) |-> Turn(A, B, C, p[1], p[2])]
<1> DEFINE
    Left(p)  == ToTake(A, B, p[1], p[2])
    Small(n) == {p \in Grid(A, B) : Left(p) < n}
    Has(n)   == \E C : C = [p \in Small(n) |-> Turn(A, B, C, p[1], p[2])]
    Lacking  == {n \in Nat : ~Has(n)}
<1>1. Len(A) \in Nat /\ Len(B) \in Nat
  OBVIOUS
<1>2. \A p \in Grid(A, B) :
        /\ p = <<p[1], p[2]>>
        /\ p[1] \in 1 .. Len(A) + 1 /\ p[2] \in 1 .. Len(B) + 1
        /\ Left(p) \in Nat /\ Left(p) < Len(A) + Len(B) + 1
  BY <1>1 DEF Grid, ToTake
<1>3. Lacking = {}
  <2> SUFFICES ASSUME Lacking # {} PROVE FALSE
    OBVIOUS
  <2>1. PICK m \in Lacking : \A n \in Lacking : m <= n
    <3>1. Lacking \in SUBSET Nat
      OBVIOUS
    <3> HIDE DEF Lacking
    <3> QED
      BY <3>1, Least
  <2>2. m \in Nat /\ ~Has(m)
    BY <2>1
  <2>3. m # 0
    <3>1. Small(0) = {}
      BY <1>2
    <3>2. Has(0)
      BY <3>1
    <3> HIDE DEF Has
    <3> QED
      BY <2>2, <3>2
  <2>4. m - 1 \in Nat /\ Has(m - 1)
    <3> HIDE DEF Has
    <3> QED
      BY <2>1, <2>2, <2>3
  <2>5. PICK C : C = [p \in Small(m - 1) |-> Turn(A, B, C, p[1], p[2])]
    BY <2>4
  <2>6. PICK D : D = [p \in Small(m) |-> Turn(A, B, C, p[1], p[2])]
    OBVIOUS
  <2>7. ASSUME NEW p \in Small(m - 1) PROVE D[p] = C[p]
    <3>1. p \in Small(m)
      BY <1>2, <2>2
    <3> QED
      BY <2>5, <2>6, <3>1
  <2>8. ASSUME NEW p \in Small(m)
        PROVE  Turn(A, B, C, p[1], p[2]) = Turn(A, B, D, p[1], p[2])
    <3>1. PICK i \in 1 .. Len(A) + 1, j \in 1 .. Len(B) + 1 : p = <<i, j>>
      BY DEF Grid
    <3>2. ToTake(A, B, i, j) < m
      BY <3>1
    <3>3. ASSUME i <= Len(A), j <= Len(B)
          PROVE  <<i + 1, j>> \in Small(m - 1) /\ <<i, j + 1>> \in Small(m - 1)
      <4>1. /\ i + 1 \in 1 .. Len(A) + 1 /\ j + 1 \in 1 .. Len(B) + 1
            /\ ToTake(A, B, i + 1, j) < m - 1 /\ ToTake(A, B, i, j + 1) < m - 1
        BY <1>1, <2>2, <3>2, <3>3 DEF ToTake
      <4>2. <<i + 1, j>> \in Grid(A, B) /\ <<i, j + 1>> \in Grid(A, B)
        BY <4>1 DEF Grid
      <4> QED
        BY <4>1, <4>2
    <3>4. i <= Len(A) /\ j <= Len(B) =>
            /\ C[<<i + 1, j>>] = D[<<i + 1, j>>]
            /\ C[<<i, j + 1>>] = D[<<i, j + 1>>]
      BY <2>7, <3>3
    <3>5. Turn(A, B, C, i, j) = Turn(A, B, D, i, j)
      BY <3>4, TurnLooksAhead, SMTT(30)
    <3> QED
      BY <3>1, <3>5
  <2>9. D = [p \in Small(m) |-> Turn(A, B, D, p[1], p[2])]
    BY <2>6, <2>8
  <2> QED
    BY <2>2, <2>9
<1>4. Has(Len(A) + Len(B) + 1)
  <2>1. Len(A) + Len(B) + 1 \in Nat
    BY <1>1
  <2> HIDE DEF Has
  <2> QED
    BY <1>3, <2>1
<1>5. Small(Len(A) + Len(B) + 1) = Grid(A, B)
  BY <1>2
<1> QED
  BY <1>4, <1>5

\* s is A \o B, and what Merged says of it.
PartsOf(A, B, m, n, s) ==
  /\ m = Len(A) /\ n = Len(B) /\ Len(s) = m + n
  /\ \A k \in 1 .. m : s[k] = A[k] /\ A[k] \in Int
  /\ \A k \in 1 .. n : s[m + k] = B[k] /\ B[k] \in Int
  /\ InOrder(s, 1, m) /\ InOrder(s, m + 1, m + n)
  /\ \A a, b \in Int, u \in Seq(Int) :
       Merged(u, A, B, a, b) <=>
         /\ Len(u) = (m + 1 - a) + (n + 1 - b)
         /\ Drawn(u, s, Rest(m, n, a, b))

\* Two sequences in order have these parts.
LEMMA MergedParts ==
  ASSUME NEW A \in Seq(Int), NEW B \in Seq(Int), Ordered(A), Ordered(B)
  PROVE  \E m \in Nat, n \in Nat, s \in Seq(Int) : PartsOf(A, B, m, n, s)
<1>1. PICK m \in Nat : m = Len(A)
  OBVIOUS
<1>2. PICK n \in Nat : n = Len(B)
  OBVIOUS
<1>3. PICK s \in Seq(Int) : s = A \o B
  <2>1. A \o B \in Seq(Int)
    BY ConcatProperties
  <2> QED
    BY <2>1
<1>4. \A a, b \in Int, u \in Seq(Int) :
        Merged(u, A, B, a, b) <=>
          /\ Len(u) = (m + 1 - a) + (n + 1 - b)
          /\ Drawn(u, s, Rest(m, n, a, b))
  BY <1>1, <1>2, <1>3 DEF Merged, ToTake
<1>5. /\ Len(s) = m + n
      /\ \A k \in 1 .. m : s[k] = A[k] /\ A[k] \in Int
      /\ \A k \in 1 .. n : s[m + k] = B[k] /\ B[k] \in Int
      /\ InOrder(s, 1, m) /\ InOrder(s, m + 1, m + n)
  <2>1. /\ m \in Nat /\ n \in Nat /\ s \in Seq(Int) /\ Len(s) = m + n
        /\ \A k \in 1 .. m + n : s[k] = IF k <= m THEN A[k] ELSE B[k - m]
    BY <1>1, <1>2, <1>3, ConcatProperties
  <2>2. \A k \in 1 .. m : s[k] = A[k] /\ A[k] \in Int
    BY <2>1
  <2>3. ASSUME NEW k \in 1 .. n PROVE s[m + k] = B[k] /\ B[k] \in Int
    <3>1. m + k \in 1 .. m + n /\ ~(m + k <= m) /\ (m + k) - m = k
      BY <2>1
    <3>2. s[m + k] = B[k]
      BY <2>1, <3>1
    <3>3. B[k] \in Int
      BY <1>2
    <3> QED
      BY <3>2, <3>3
  <2>4. InOrder(s, 1, m)
    BY <1>1, <2>2 DEF Ordered, InOrder
  <2>5. ASSUME NEW k \in m + 1 .. m + n, NEW l \in m + 1 .. m + n, k <= l
        PROVE  s[k] <= s[l]
    <3>1. PICK x, y : x = k - m /\ y = l - m
      OBVIOUS
    <3>2. x \in 1 .. n /\ y \in 1 .. n /\ x <= y /\ m + x = k /\ m + y = l
      BY <2>1, <2>5, <3>1
    <3>3. B[x] <= B[y]
      BY <1>2, <3>2 DEF Ordered
    <3> QED
      BY <2>3, <3>2, <3>3
  <2> QED
    BY <2>1, <2>2, <2>3, <2>4, <2>5 DEF InOrder
<1>6. PartsOf(A, B, m, n, s)
  BY <1>1, <1>2, <1>4, <1>5 DEF PartsOf
<1> QED
  BY <1>6

\* The first of A goes in front if it is not greater than the first of B.
LEMMA FirstGoes ==
  ASSUME NEW A \in Seq(Int), NEW B \in Seq(Int), Ordered(A), Ordered(B),
         NEW i \in 1 .. Len(A), NEW j \in 1 .. Len(B), A[i] <= B[j],
         NEW t \in Seq(Int), Merged(t, A, B, i + 1, j)
  PROVE  Merged(<<A[i]>> \o t, A, B, i, j)
<1>1. PICK m \in Nat, n \in Nat, s \in Seq(Int) : PartsOf(A, B, m, n, s)
  BY MergedParts
<1>2. /\ m = Len(A) /\ n = Len(B) /\ Len(s) = m + n
      /\ \A k \in 1 .. m : s[k] = A[k] /\ A[k] \in Int
      /\ \A k \in 1 .. n : s[m + k] = B[k] /\ B[k] \in Int
      /\ InOrder(s, 1, m) /\ InOrder(s, m + 1, m + n)
      /\ \A a, b \in Int, u \in Seq(Int) :
           Merged(u, A, B, a, b) <=>
             /\ Len(u) = (m + 1 - a) + (n + 1 - b)
             /\ Drawn(u, s, Rest(m, n, a, b))
  BY <1>1 DEF PartsOf
<1>3. /\ m \in Nat /\ n \in Nat /\ i \in Nat /\ j \in Nat
      /\ i \in 1 .. m /\ j \in 1 .. n
  BY <1>1, <1>2
<1>4. s[i] = A[i] /\ s[i] <= s[m + j]
  BY <1>2, <1>3
<1>5. Len(t) = (m + 1 - (i + 1)) + (n + 1 - j) /\ Drawn(t, s, Rest(m, n, i + 1, j))
  <2>1. i + 1 \in Int /\ j \in Int
    BY <1>3
  <2>2. \A a, b \in Int, u \in Seq(Int) :
          Merged(u, A, B, a, b) =>
            /\ Len(u) = (m + 1 - a) + (n + 1 - b)
            /\ Drawn(u, s, Rest(m, n, a, b))
    BY <1>2
  <2> QED
    BY <2>1, <2>2
<1>6. PICK r \in Int : r = i
  BY <1>3
<1>7. \A k \in 1 .. Len(s) : s[k] \in Int
  BY ElementOfSeq
<1>8. PICK R : R = Rest(m, n, i + 1, j)
  OBVIOUS
<1>9. R \cup {r} = Rest(m, n, i, j) /\ r \notin R
  <2>1. i .. m = (i + 1 .. m) \cup {i} /\ i \notin i + 1 .. m /\ i \notin m + j .. m + n
    BY <1>3
  <2> QED
    BY <1>6, <1>8, <2>1 DEF Rest
<1>10. R \in SUBSET (1 .. Len(s)) /\ r \in 1 .. Len(s)
  <2>1. Len(s) = m + n
    BY <1>2
  <2>2. r \in 1 .. m + n
    BY <1>3, <1>6
  <2>3. ASSUME NEW k \in i + 1 .. m PROVE k \in 1 .. m + n
    BY <1>3
  <2>4. ASSUME NEW k \in m + j .. m + n PROVE k \in 1 .. m + n
    BY <1>3
  <2> QED
    BY <1>8, <2>1, <2>2, <2>3, <2>4 DEF Rest
<1>11. ASSUME NEW k \in R PROVE s[r] <= s[k]
  <2>1. CASE k \in i + 1 .. m
    <3>1. k \in 1 .. m /\ i <= k
      BY <1>3, <2>1
    <3> QED
      BY <1>2, <1>3, <1>6, <3>1 DEF InOrder
  <2>2. CASE k \in m + j .. m + n
    <3>1. PICK l \in Int : l = m + j
      BY <1>3
    <3>2. l \in m + 1 .. m + n /\ k \in m + 1 .. m + n /\ l <= k
      BY <1>3, <2>2, <3>1
    <3>3. s[l] <= s[k]
      BY <1>2, <3>2 DEF InOrder
    <3>4. s[r] <= s[l]
      BY <1>6, <1>4, <3>1
    <3>5. l \in 1 .. Len(s) /\ k \in 1 .. Len(s)
      BY <1>2, <1>3, <3>2
    <3> QED
      <4>1. s[l] \in Int /\ s[k] \in Int /\ s[r] \in Int
        BY <1>7, <1>10, <3>5, Zenon
      <4>2. \A x, y, z \in Int : x <= y /\ y <= z => x <= z
        OBVIOUS
      <4> QED
        BY <3>3, <3>4, <4>1, <4>2
  <2> QED
    BY <1>8, <1>11, <2>1, <2>2 DEF Rest
<1>12. Drawn(t, s, R)
  BY <1>5, <1>8
<1>13. /\ Drawn(<<s[r]>> \o t, s, R \cup {r})
       /\ Len(<<s[r]>> \o t) = Len(t) + 1
  BY <1>9, <1>10, <1>11, <1>12, DrawOne, Zenon
<1>14. PICK u : u = <<s[r]>> \o t
  OBVIOUS
<1>15. Drawn(u, s, Rest(m, n, i, j)) /\ Len(u) = Len(t) + 1
  BY <1>9, <1>13, <1>14
<1>16. Len(u) = (m + 1 - i) + (n + 1 - j) /\ u \in Seq(Int)
  BY <1>3, <1>5, <1>15 DEF Drawn
<1>17. Merged(u, A, B, i, j)
  BY <1>2, <1>3, <1>15, <1>16
<1> QED
  BY <1>4, <1>6, <1>14, <1>17

\* The first of B goes in front if it is less than the first of A.
LEMMA SecondGoes ==
  ASSUME NEW A \in Seq(Int), NEW B \in Seq(Int), Ordered(A), Ordered(B),
         NEW i \in 1 .. Len(A), NEW j \in 1 .. Len(B), A[i] > B[j],
         NEW t \in Seq(Int), Merged(t, A, B, i, j + 1)
  PROVE  Merged(<<B[j]>> \o t, A, B, i, j)
<1>1. PICK m \in Nat, n \in Nat, s \in Seq(Int) : PartsOf(A, B, m, n, s)
  BY MergedParts
<1>2. /\ m = Len(A) /\ n = Len(B) /\ Len(s) = m + n
      /\ \A k \in 1 .. m : s[k] = A[k] /\ A[k] \in Int
      /\ \A k \in 1 .. n : s[m + k] = B[k] /\ B[k] \in Int
      /\ InOrder(s, 1, m) /\ InOrder(s, m + 1, m + n)
      /\ \A a, b \in Int, u \in Seq(Int) :
           Merged(u, A, B, a, b) <=>
             /\ Len(u) = (m + 1 - a) + (n + 1 - b)
             /\ Drawn(u, s, Rest(m, n, a, b))
  BY <1>1 DEF PartsOf
<1>3. /\ m \in Nat /\ n \in Nat /\ i \in Nat /\ j \in Nat
      /\ i \in 1 .. m /\ j \in 1 .. n
  BY <1>1, <1>2
<1>4. s[m + j] = B[j] /\ s[m + j] < s[i]
  BY <1>2, <1>3
<1>5. Len(t) = (m + 1 - i) + (n + 1 - (j + 1)) /\ Drawn(t, s, Rest(m, n, i, j + 1))
  <2>1. i \in Int /\ j + 1 \in Int
    BY <1>3
  <2>2. \A a, b \in Int, u \in Seq(Int) :
          Merged(u, A, B, a, b) =>
            /\ Len(u) = (m + 1 - a) + (n + 1 - b)
            /\ Drawn(u, s, Rest(m, n, a, b))
    BY <1>2
  <2> QED
    BY <2>1, <2>2
<1>6. PICK r \in Int : r = m + j
  BY <1>3
<1>7. \A k \in 1 .. Len(s) : s[k] \in Int
  BY ElementOfSeq
<1>8. PICK R : R = Rest(m, n, i, j + 1)
  OBVIOUS
<1>9. R \cup {r} = Rest(m, n, i, j) /\ r \notin R
  <2>1. m + j .. m + n = (m + (j + 1) .. m + n) \cup {r}
    <3>1. ASSUME NEW k \in m + j .. m + n PROVE k \in m + (j + 1) .. m + n \/ k = r
      BY <1>3, <1>6
    <3>2. r \in m + j .. m + n
      BY <1>3, <1>6
    <3>3. ASSUME NEW k \in m + (j + 1) .. m + n PROVE k \in m + j .. m + n
      BY <1>3
    <3> QED
      BY <3>1, <3>2, <3>3
  <2>2. r \notin m + (j + 1) .. m + n /\ r \notin i .. m
    BY <1>3, <1>6
  <2> QED
    BY <1>6, <1>8, <2>1, <2>2 DEF Rest
<1>10. R \in SUBSET (1 .. Len(s)) /\ r \in 1 .. Len(s)
  <2>1. Len(s) = m + n
    BY <1>2
  <2>2. r \in 1 .. m + n
    BY <1>3, <1>6
  <2>3. ASSUME NEW k \in i .. m PROVE k \in 1 .. m + n
    BY <1>3
  <2>4. ASSUME NEW k \in m + (j + 1) .. m + n PROVE k \in 1 .. m + n
    BY <1>3
  <2> QED
    BY <1>8, <2>1, <2>2, <2>3, <2>4 DEF Rest
<1>11. ASSUME NEW k \in R PROVE s[r] <= s[k]
  <2>1. CASE k \in i .. m
    <3>1. k \in 1 .. m /\ i \in 1 .. m /\ i <= k
      BY <1>3, <2>1
    <3>2. s[i] <= s[k]
      BY <1>2, <3>1 DEF InOrder
    <3>3. s[r] < s[i]
      BY <1>6, <1>4
    <3>4. i \in 1 .. Len(s) /\ k \in 1 .. Len(s)
      BY <1>2, <1>3, <3>1
    <3> QED
      <4>1. s[i] \in Int /\ s[k] \in Int /\ s[r] \in Int
        BY <1>7, <1>10, <3>4, Zenon
      <4>2. \A x, y, z \in Int : x < y /\ y <= z => x <= z
        OBVIOUS
      <4> QED
        BY <3>2, <3>3, <4>1, <4>2
  <2>2. CASE k \in m + (j + 1) .. m + n
    <3>1. r \in m + 1 .. m + n /\ k \in m + 1 .. m + n /\ r <= k
      BY <1>3, <1>6, <2>2
    <3> QED
      BY <1>2, <3>1 DEF InOrder
  <2> QED
    BY <1>8, <1>11, <2>1, <2>2 DEF Rest
<1>12. Drawn(t, s, R)
  BY <1>5, <1>8
<1>13. /\ Drawn(<<s[r]>> \o t, s, R \cup {r})
       /\ Len(<<s[r]>> \o t) = Len(t) + 1
  BY <1>9, <1>10, <1>11, <1>12, DrawOne, Zenon
<1>14. PICK u : u = <<s[r]>> \o t
  OBVIOUS
<1>15. Drawn(u, s, Rest(m, n, i, j)) /\ Len(u) = Len(t) + 1
  BY <1>9, <1>13, <1>14
<1>16. Len(u) = (m + 1 - i) + (n + 1 - j) /\ u \in Seq(Int)
  BY <1>3, <1>5, <1>15 DEF Drawn
<1>17. Merged(u, A, B, i, j)
  BY <1>2, <1>3, <1>15, <1>16
<1> QED
  BY <1>4, <1>6, <1>14, <1>17

\* When A is used up, what is left of B stays as it is.
LEMMA SecondStays ==
  ASSUME NEW A \in Seq(Int), NEW B \in Seq(Int), Ordered(A), Ordered(B),
         NEW j \in 1 .. Len(B) + 1
  PROVE  Merged(SubSeq(B, j, Len(B)), A, B, Len(A) + 1, j)
<1>1. PICK m \in Nat, n \in Nat, s \in Seq(Int) : PartsOf(A, B, m, n, s)
  BY MergedParts
<1>2. /\ m = Len(A) /\ n = Len(B) /\ Len(s) = m + n
      /\ \A k \in 1 .. m : s[k] = A[k] /\ A[k] \in Int
      /\ \A k \in 1 .. n : s[m + k] = B[k] /\ B[k] \in Int
      /\ InOrder(s, 1, m) /\ InOrder(s, m + 1, m + n)
      /\ \A a, b \in Int, u \in Seq(Int) :
           Merged(u, A, B, a, b) <=>
             /\ Len(u) = (m + 1 - a) + (n + 1 - b)
             /\ Drawn(u, s, Rest(m, n, a, b))
  BY <1>1 DEF PartsOf
<1>3. PICK t, a, b : t = SubSeq(B, j, n) /\ a = m + j /\ b = m + n
  OBVIOUS
<1>4. j \in Nat /\ j \in 1 .. n + 1
  BY <1>2
<1>5. /\ t \in Seq(Int) /\ Len(t) = n - j + 1
      /\ \A x \in 1 .. n - j + 1 : t[x] = B[j + x - 1]
  <2>1. \A k \in j .. n : B[k] \in Int
    BY <1>2, <1>4
  <2>2. Len(t) = IF j <= n THEN n - j + 1 ELSE 0
    BY <1>3, <1>4, <2>1, SubSeqProperties
  <2>3. t \in Seq(Int) /\ \A x \in 1 .. n - j + 1 : t[x] = B[j + x - 1]
    BY <1>3, <1>4, <2>1, SubSeqProperties
  <2>4. Len(t) = n - j + 1
    BY <1>4, <2>2
  <2> QED
    BY <2>3, <2>4
<1>6. Rest(m, n, m + 1, j) = a .. b
  BY <1>3, <1>4 DEF Rest
<1>7. a \in Int /\ b \in Int /\ a <= b + 1 /\ Len(t) = b - a + 1
  <2>1. a = m + j /\ b = m + n
    BY <1>3
  <2>2. Len(t) = n - j + 1
    BY <1>5
  <2>3. m + j \in Int /\ m + n \in Int /\ m + j <= m + n + 1
    BY <1>4
  <2>4. n - j + 1 = (m + n) - (m + j) + 1
    BY <1>4
  <2> QED
    BY <2>1, <2>2, <2>3, <2>4, Zenon
<1>8. ASSUME NEW x \in 1 .. Len(t) PROVE t[x] = s[a + x - 1]
  <2>1. x \in 1 .. n - j + 1 /\ j + x - 1 \in 1 .. n
        /\ m + (j + x - 1) = a + x - 1
    BY <1>3, <1>4, <1>5
  <2>2. t[x] = B[j + x - 1]
    BY <1>5, <2>1, Zenon
  <2>3. s[m + (j + x - 1)] = B[j + x - 1]
    BY <1>2, <2>1, Zenon
  <2> QED
    BY <2>1, <2>2, <2>3, Zenon
<1>9. \A k \in a .. b : k \in 1 .. Len(s) /\ k \in m + 1 .. m + n
  BY <1>2, <1>3, <1>4
<1>10. InOrder(s, a, b)
  BY <1>2, <1>9 DEF InOrder
<1>11. Drawn(t, s, a .. b)
  BY <1>5, <1>7, <1>8, <1>9, <1>10, DrawRest
<1>12. Len(t) = (m + 1 - (m + 1)) + (n + 1 - j) /\ m + 1 \in Int /\ j \in Int
  BY <1>4, <1>5
<1>13. Merged(t, A, B, m + 1, j)
  BY <1>2, <1>5, <1>6, <1>11, <1>12
<1> QED
  BY <1>2, <1>3, <1>13

\* When B is used up, what is left of A stays as it is.
LEMMA FirstStays ==
  ASSUME NEW A \in Seq(Int), NEW B \in Seq(Int), Ordered(A), Ordered(B),
         NEW i \in 1 .. Len(A) + 1
  PROVE  Merged(SubSeq(A, i, Len(A)), A, B, i, Len(B) + 1)
<1>1. PICK m \in Nat, n \in Nat, s \in Seq(Int) : PartsOf(A, B, m, n, s)
  BY MergedParts
<1>2. /\ m = Len(A) /\ n = Len(B) /\ Len(s) = m + n
      /\ \A k \in 1 .. m : s[k] = A[k] /\ A[k] \in Int
      /\ \A k \in 1 .. n : s[m + k] = B[k] /\ B[k] \in Int
      /\ InOrder(s, 1, m) /\ InOrder(s, m + 1, m + n)
      /\ \A a, b \in Int, u \in Seq(Int) :
           Merged(u, A, B, a, b) <=>
             /\ Len(u) = (m + 1 - a) + (n + 1 - b)
             /\ Drawn(u, s, Rest(m, n, a, b))
  BY <1>1 DEF PartsOf
<1>3. PICK t : t = SubSeq(A, i, m)
  OBVIOUS
<1>4. i \in Nat /\ i \in 1 .. m + 1
  BY <1>2
<1>5. /\ t \in Seq(Int) /\ Len(t) = m - i + 1
      /\ \A x \in 1 .. m - i + 1 : t[x] = A[i + x - 1]
  <2>1. \A k \in i .. m : A[k] \in Int
    BY <1>2, <1>4
  <2>2. Len(t) = IF i <= m THEN m - i + 1 ELSE 0
    BY <1>3, <1>4, <2>1, SubSeqProperties
  <2>3. t \in Seq(Int) /\ \A x \in 1 .. m - i + 1 : t[x] = A[i + x - 1]
    BY <1>3, <1>4, <2>1, SubSeqProperties
  <2>4. Len(t) = m - i + 1
    BY <1>4, <2>2
  <2> QED
    BY <2>3, <2>4
<1>6. Rest(m, n, i, n + 1) = i .. m
  BY <1>4 DEF Rest
<1>7. ASSUME NEW x \in 1 .. Len(t) PROVE t[x] = s[i + x - 1]
  <2>1. x \in 1 .. m - i + 1 /\ i + x - 1 \in 1 .. m
    BY <1>4, <1>5
  <2> QED
    BY <1>2, <1>5, <2>1
<1>8. \A k \in i .. m : k \in 1 .. Len(s) /\ k \in 1 .. m
  BY <1>2, <1>4
<1>9. InOrder(s, i, m)
  BY <1>2, <1>8 DEF InOrder
<1>10. Drawn(t, s, i .. m)
  <2>1. i \in Int /\ m \in Int /\ i <= m + 1 /\ \A k \in i .. m : k \in 1 .. Len(s)
    BY <1>4, <1>8
  <2> QED
    BY <1>5, <1>7, <1>9, <2>1, DrawRest, Zenon
<1>11. Len(t) = (m + 1 - i) + (n + 1 - (n + 1)) /\ n + 1 \in Int /\ i \in Int
  BY <1>4, <1>5
<1>12. Merged(t, A, B, i, n + 1)
  BY <1>2, <1>5, <1>6, <1>10, <1>11
<1> QED
  BY <1>2, <1>3, <1>12

\* merge() takes the least of what is left, if it is right about what comes then.
LEMMA TurnMerges ==
  ASSUME NEW A \in Seq(Int), NEW B \in Seq(Int), Ordered(A), Ordered(B), NEW C,
         NEW i \in 1 .. Len(A) + 1, NEW j \in 1 .. Len(B) + 1,
         i <= Len(A) /\ j <= Len(B) =>
           /\ Merged(C[<<i + 1, j>>], A, B, i + 1, j)
           /\ Merged(C[<<i, j + 1>>], A, B, i, j + 1)
  PROVE  Merged(Turn(A, B, C, i, j), A, B, i, j)
<1>1. /\ Len(A) \in Nat /\ Len(B) \in Nat
      /\ i <= Len(A) => A[i] \in Int
      /\ j <= Len(B) => B[j] \in Int
  OBVIOUS
<1>2. ASSUME i <= Len(A), j <= Len(B), A[i] <= B[j]
      PROVE  Merged(Turn(A, B, C, i, j), A, B, i, j)
  <2>1. PICK t : t = C[<<i + 1, j>>]
    OBVIOUS
  <2>2. Merged(t, A, B, i + 1, j)
    BY <1>2, <2>1
  <2>3. t \in Seq(Int)
    BY <2>2 DEF Merged, Drawn
  <2>4. i \in 1 .. Len(A) /\ j \in 1 .. Len(B)
    BY <1>2
  <2>5. Merged(<<A[i]>> \o t, A, B, i, j)
    BY <1>2, <2>2, <2>3, <2>4, FirstGoes
  <2>6. Turn(A, B, C, i, j) = <<A[i]>> \o t
    <3>1. ~(i > Len(A)) /\ ~(j > Len(B)) /\ ~(A[i] > B[j])
      <4>1. \A x, y \in Int : (x <= y => ~(x > y)) /\ (x > y => ~(x <= y))
        OBVIOUS
      <4>2. i \in Int /\ j \in Int /\ Len(A) \in Int /\ Len(B) \in Int
        OBVIOUS
      <4> QED
        BY <1>1, <1>2, <4>1, <4>2, Zenon
    <3> QED
      BY <1>2, <2>1, <3>1, Zenon DEF Turn
  <2> QED
    BY <2>5, <2>6
<1>3. ASSUME i <= Len(A), j <= Len(B), A[i] > B[j]
      PROVE  Merged(Turn(A, B, C, i, j), A, B, i, j)
  <2>1. PICK t : t = C[<<i, j + 1>>]
    OBVIOUS
  <2>2. Merged(t, A, B, i, j + 1)
    BY <1>3, <2>1
  <2>3. t \in Seq(Int)
    BY <2>2 DEF Merged, Drawn
  <2>4. i \in 1 .. Len(A) /\ j \in 1 .. Len(B)
    BY <1>3
  <2>5. Merged(<<B[j]>> \o t, A, B, i, j)
    BY <1>3, <2>2, <2>3, <2>4, SecondGoes
  <2>6. Turn(A, B, C, i, j) = <<B[j]>> \o t
    <3>1. ~(i > Len(A)) /\ ~(j > Len(B)) /\ ~(A[i] <= B[j])
      <4>1. \A x, y \in Int : (x <= y => ~(x > y)) /\ (x > y => ~(x <= y))
        OBVIOUS
      <4>2. i \in Int /\ j \in Int /\ Len(A) \in Int /\ Len(B) \in Int
        OBVIOUS
      <4> QED
        BY <1>1, <1>3, <4>1, <4>2, Zenon
    <3> QED
      BY <1>3, <2>1, <3>1, Zenon DEF Turn
  <2> QED
    BY <2>5, <2>6
<1>4. ASSUME i > Len(A)
      PROVE  Merged(Turn(A, B, C, i, j), A, B, i, j)
  <2>1. i = Len(A) + 1
    BY <1>4
  <2>2. Turn(A, B, C, i, j) = SubSeq(B, j, Len(B))
    <3>1. ~(i <= Len(A))
      BY <1>1, <1>4
    <3>2. j > Len(B) => SubSeq(B, j, Len(B)) = SubSeq(A, i, Len(A))
      BY <1>1, <1>4, SubSeqEmpty
    <3> QED
      BY <1>4, <3>1, <3>2, Zenon DEF Turn
  <2> QED
    BY <2>1, <2>2, SecondStays
<1>5. ASSUME i <= Len(A), j > Len(B)
      PROVE  Merged(Turn(A, B, C, i, j), A, B, i, j)
  <2>1. j = Len(B) + 1
    BY <1>5
  <2>2. Turn(A, B, C, i, j) = SubSeq(A, i, Len(A))
    <3>1. ~(i > Len(A)) /\ ~(j <= Len(B))
      BY <1>1, <1>5
    <3> QED
      BY <1>5, <3>1, Zenon DEF Turn
  <2> QED
    BY <2>1, <2>2, FirstStays
<1>6. /\ i > Len(A) \/ i <= Len(A)
      /\ j > Len(B) \/ j <= Len(B)
      /\ i <= Len(A) /\ j <= Len(B) => A[i] <= B[j] \/ A[i] > B[j]
  <2>1. \A x, y \in Int : x <= y \/ x > y
    OBVIOUS
  <2>2. i \in Int /\ j \in Int /\ Len(A) \in Int /\ Len(B) \in Int
    OBVIOUS
  <2> QED
    BY <1>1, <2>1, <2>2, Zenon
<1> QED
  BY <1>2, <1>3, <1>4, <1>5, <1>6

\* What the whole of C holds.
LEMMA TableMerges ==
  ASSUME NEW A \in Seq(Int), NEW B \in Seq(Int), Ordered(A), Ordered(B), NEW C,
         \A i \in 1 .. Len(A) + 1, j \in 1 .. Len(B) + 1 :
           C[<<i, j>>] = Turn(A, B, C, i, j)
  PROVE  Merged(C[<<1, 1>>], A, B, 1, 1)
<1> DEFINE
    Good(i, j) == Merged(C[<<i, j>>], A, B, i, j)
    Bad == {n \in Nat : \E i \in 1 .. Len(A) + 1, j \in 1 .. Len(B) + 1 :
                          n = ToTake(A, B, i, j) /\ ~Good(i, j)}
<1>1. Len(A) \in Nat /\ Len(B) \in Nat
  OBVIOUS
<1>2. Bad = {}
  <2> SUFFICES ASSUME Bad # {} PROVE FALSE
    OBVIOUS
  <2>1. PICK n \in Bad : \A k \in Bad : n <= k
    <3>1. Bad \in SUBSET Nat
      OBVIOUS
    <3> HIDE DEF Bad
    <3> QED
      BY <3>1, Least
  <2>2. PICK i \in 1 .. Len(A) + 1, j \in 1 .. Len(B) + 1 :
          n = ToTake(A, B, i, j) /\ ~Good(i, j)
    BY <2>1
  <2>3. ASSUME NEW a \in 1 .. Len(A) + 1, NEW b \in 1 .. Len(B) + 1,
               ToTake(A, B, a, b) < n
        PROVE  Good(a, b)
    <3>1. ToTake(A, B, a, b) \in Nat
      BY <1>1 DEF ToTake
    <3>2. PICK k \in Nat : k = ToTake(A, B, a, b)
      BY <3>1
    <3>3. n \in Nat /\ k < n
      BY <2>1, <2>3, <3>2
    <3>4. k \notin Bad
      <4> HIDE DEF Bad
      <4> QED
        BY <2>1, <3>3
    <3> HIDE DEF Good
    <3> QED
      BY <3>2, <3>4
  <2>4. ASSUME i <= Len(A), j <= Len(B)
        PROVE  Good(i + 1, j) /\ Good(i, j + 1)
    <3>1. /\ i + 1 \in 1 .. Len(A) + 1 /\ j + 1 \in 1 .. Len(B) + 1
          /\ ToTake(A, B, i + 1, j) < n /\ ToTake(A, B, i, j + 1) < n
      BY <1>1, <2>2, <2>4 DEF ToTake
    <3> HIDE DEF Good
    <3> QED
      BY <2>3, <3>1
  <2>5. Merged(Turn(A, B, C, i, j), A, B, i, j)
    BY <2>4, TurnMerges
  <2>6. Good(i, j)
    BY <2>5
  <2> HIDE DEF Good
  <2> QED
    BY <2>2, <2>6
<1>3. ToTake(A, B, 1, 1) \in Nat /\ 1 \in 1 .. Len(A) + 1 /\ 1 \in 1 .. Len(B) + 1
  BY <1>1 DEF ToTake
<1>4. Good(1, 1)
  <2> HIDE DEF Good
  <2> QED
    BY <1>2, <1>3
<1> QED
  BY <1>4

\* merge(A, B) is A and B merged, when both are in order: in order, and made of
\* the elements of A \o B.
LEMMA MergeMerges ==
  ASSUME NEW A \in Seq(Int), NEW B \in Seq(Int), Ordered(A), Ordered(B)
  PROVE  Merged(merge(A, B), A, B, 1, 1)
<1> DEFINE Fix(g) == g = [p \in Grid(A, B) |-> Turn(A, B, g, p[1], p[2])]
           it == CHOOSE g : Fix(g)
<1>1. merge(A, B) = it[<<1, 1>>]
  BY Zenon DEF merge, Grid, Turn
<1>2. \E g : Fix(g)
  BY TableExists
<1>3. Fix(it)
  <2> HIDE DEF Fix
  <2> QED
    BY <1>2
<1>4. PICK C : C = it
  OBVIOUS
<1>5. Fix(C)
  <2> HIDE DEF Fix, it
  <2> QED
    BY <1>3, <1>4
<1>6. ASSUME NEW i \in 1 .. Len(A) + 1, NEW j \in 1 .. Len(B) + 1
      PROVE  C[<<i, j>>] = Turn(A, B, C, i, j)
  <2>1. <<i, j>> \in Grid(A, B)
    BY DEF Grid
  <2> QED
    BY <1>5, <2>1
<1> HIDE DEF it
<1>7. Merged(C[<<1, 1>>], A, B, 1, 1)
  BY <1>6, TableMerges
<1> QED
  BY <1>1, <1>4, <1>7
-----------------------------------------------------------------------------
(* merge_sort().                                                           *)

\* t is s, sorted.
Sorts(t, s) == Len(t) = Len(s) /\ Drawn(t, s, 1 .. Len(s))

\* The halves of s.
Middle(s) == Len(s) \div 2
Lower(s) == SubSeq(s, 1, Middle(s))
Upper(s) == SubSeq(s, Middle(s) + 1, Len(s))

\* What sort has at s, by what g has for the halves.
Round(g, s) == IF Len(s) < 2 THEN s ELSE merge(g[Lower(s)], g[Upper(s)])

\* The halves of a sequence of two or more are shorter.
LEMMA HalvesOf ==
  ASSUME NEW s \in Seq(Int), ~(Len(s) < 2)
  PROVE  /\ Lower(s) \in Seq(Int) /\ Upper(s) \in Seq(Int)
         /\ Len(Lower(s)) = Middle(s) /\ Len(Upper(s)) = Len(s) - Middle(s)
         /\ Middle(s) \in 1 .. Len(s) - 1
         /\ \A x \in 1 .. Middle(s) : Lower(s)[x] = s[x]
         /\ \A x \in 1 .. Len(s) - Middle(s) : Upper(s)[x] = s[Middle(s) + x]
<1>1. PICK L \in Nat, m \in Int : L = Len(s) /\ m = Middle(s)
  BY DEF Middle
<1>2. m = L \div 2 /\ L >= 2
  BY <1>1 DEF Middle
<1>3. m \in 1 .. L - 1
  BY <1>2
<1>4. \A x \in 1 .. L : s[x] \in Int
  BY <1>1, ElementOfSeq
<1>5. /\ SubSeq(s, 1, m) \in Seq(Int)
      /\ Len(SubSeq(s, 1, m)) = IF 1 <= m THEN m - 1 + 1 ELSE 0
      /\ \A x \in 1 .. m - 1 + 1 : SubSeq(s, 1, m)[x] = s[1 + x - 1]
  <2>1. \A x \in 1 .. m : s[x] \in Int
    BY <1>3, <1>4
  <2> QED
    BY <1>1, <2>1, SubSeqProperties
<1>6. /\ SubSeq(s, m + 1, L) \in Seq(Int)
      /\ Len(SubSeq(s, m + 1, L)) = IF m + 1 <= L THEN L - (m + 1) + 1 ELSE 0
      /\ \A x \in 1 .. L - (m + 1) + 1 : SubSeq(s, m + 1, L)[x] = s[(m + 1) + x - 1]
  <2>1. \A x \in m + 1 .. L : s[x] \in Int
    BY <1>3, <1>4
  <2>2. m + 1 \in Int /\ L \in Int
    BY <1>1
  <2> QED
    BY <2>1, <2>2, SubSeqProperties
<1>7. PICK u, v : u = SubSeq(s, 1, m) /\ v = SubSeq(s, m + 1, L)
  OBVIOUS
<1>8. /\ u \in Seq(Int) /\ Len(u) = m
      /\ \A x \in 1 .. m : u[x] = s[x]
  BY <1>3, <1>5, <1>7
<1>9. /\ v \in Seq(Int) /\ Len(v) = L - m
      /\ \A x \in 1 .. L - m : v[x] = s[m + x]
  <2>1. \A x \in Int : (m + 1) + x - 1 = m + x
    BY <1>1
  <2> QED
    BY <1>3, <1>6, <1>7, <2>1
<1>10. Lower(s) = u /\ Upper(s) = v
  BY <1>1, <1>7 DEF Lower, Upper
<1> QED
  BY <1>1, <1>3, <1>8, <1>9, <1>10

\* f puts the numbers from 1 to k in another order.
Shuffle(f, k) ==
  f \in [1 .. k -> 1 .. k] /\ \A x, y \in 1 .. k : f[x] = f[y] => x = y

\* h is f on the first m places, and g on the n places after them.
Joined(h, f, m, g, n) ==
  /\ \A x \in 1 .. m : h[x] = f[x]
  /\ \A x \in 1 .. n : h[m + x] = m + g[x]

\* Places in two parts are places in the whole.
LEMMA JoinPlaces ==
  ASSUME NEW m \in Nat, NEW n \in Nat, NEW L \in Nat, L = m + n,
         NEW f, Shuffle(f, m), NEW g, Shuffle(g, n)
  PROVE  \E h : Shuffle(h, L) /\ Joined(h, f, m, g, n)
<1>1. /\ L = m + n /\ f \in [1 .. m -> 1 .. m] /\ g \in [1 .. n -> 1 .. n]
      /\ \A x, y \in 1 .. m : f[x] = f[y] => x = y
      /\ \A x, y \in 1 .. n : g[x] = g[y] => x = y
  BY DEF Shuffle
<1>2. PICK h : h = [x \in 1 .. L |-> IF x <= m THEN f[x] ELSE m + g[x - m]]
  OBVIOUS
<1>3. ASSUME NEW x \in 1 .. L
      PROVE  /\ x <= m => /\ x \in 1 .. m /\ f[x] \in 1 .. m
                          /\ h[x] = f[x]
             /\ ~(x <= m) => /\ x - m \in 1 .. n /\ g[x - m] \in 1 .. n
                             /\ h[x] = m + g[x - m]
  BY <1>1, <1>2
<1>4. ASSUME NEW x \in 1 .. L
      PROVE  h[x] \in 1 .. L /\ (h[x] <= m <=> x <= m)
  <2>1. CASE x <= m
    BY <1>3, <2>1
  <2>2. CASE ~(x <= m)
    <3>1. PICK k \in 1 .. n : k = g[x - m]
      BY <1>3, <2>2
    <3>2. h[x] = m + k
      BY <1>3, <2>2, <3>1
    <3> QED
      BY <1>1, <2>2, <3>1, <3>2
  <2> QED
    BY <2>1, <2>2
<1>5. h \in [1 .. L -> 1 .. L]
  BY <1>2, <1>4
<1>6. ASSUME NEW x \in 1 .. L, NEW y \in 1 .. L, h[x] = h[y]
      PROVE  x = y
  <2>1. x <= m <=> y <= m
    BY <1>4, <1>6
  <2>2. CASE x <= m
    BY <1>1, <1>3, <1>6, <2>1, <2>2
  <2>3. CASE ~(x <= m)
    <3>1. /\ x - m \in 1 .. n /\ y - m \in 1 .. n
          /\ m + g[x - m] = m + g[y - m]
      BY <1>1, <1>3, <1>6, <2>1, <2>3
    <3>2. g[x - m] \in Int /\ g[y - m] \in Int
      BY <1>1, <3>1
    <3>3. g[x - m] = g[y - m]
      <4>1. PICK a \in Int, b \in Int : a = g[x - m] /\ b = g[y - m]
        BY <3>2
      <4>2. m + a = m + b
        BY <3>1, <4>1
      <4>3. a = b
        BY <4>2
      <4> QED
        BY <4>1, <4>3
    <3>4. x - m = y - m
      BY <1>1, <3>1, <3>3
    <3> QED
      BY <3>4
  <2> QED
    BY <2>2, <2>3
<1>7. \A x \in 1 .. m : h[x] = f[x]
  BY <1>2
<1>8. ASSUME NEW x \in 1 .. n PROVE h[m + x] = m + g[x]
  <2>1. m + x \in 1 .. L /\ ~(m + x <= m) /\ (m + x) - m = x
    BY <1>1
  <2> QED
    BY <1>2, <2>1
<1> QED
  BY <1>5, <1>6, <1>7, <1>8 DEF Shuffle, Joined

\* Where a sequence was drawn from.
From(t, s, f, k) == Shuffle(f, k) /\ \A x \in 1 .. k : t[x] = s[f[x]]

\* What is drawn from the whole of s was put in another order.
LEMMA DrawnFrom ==
  ASSUME NEW t, NEW s, NEW k, Drawn(t, s, 1 .. k), k = Len(t)
  PROVE  \E f : From(t, s, f, k)
BY DEF Drawn, Shuffle, From

\* Sorted halves, merged, are the whole, sorted.
LEMMA MergeSorts ==
  ASSUME NEW s \in Seq(Int), ~(Len(s) < 2),
         NEW A \in Seq(Int), NEW B \in Seq(Int), Sorts(A, Lower(s)), Sorts(B, Upper(s))
  PROVE  Sorts(merge(A, B), s)
<1>1. PICK L \in Nat, m \in Nat : L = Len(s) /\ m = Middle(s)
  BY HalvesOf
<1>2. PICK n \in Nat : n = L - m /\ L = m + n
  <2>1. m \in 1 .. L - 1
    BY <1>1, HalvesOf
  <2>2. L - m \in Nat /\ L = m + (L - m)
    BY <2>1
  <2> QED
    BY <2>2
<1>3. /\ m \in 1 .. L - 1
      /\ Len(Lower(s)) = m /\ Len(Upper(s)) = n
      /\ \A x \in 1 .. m : Lower(s)[x] = s[x]
      /\ \A x \in 1 .. n : Upper(s)[x] = s[m + x]
  BY <1>2, <1>1, HalvesOf
<1>4. /\ Len(A) = m /\ Ordered(A) /\ Drawn(A, Lower(s), 1 .. m)
      /\ Len(B) = n /\ Ordered(B) /\ Drawn(B, Upper(s), 1 .. n)
  BY <1>3 DEF Sorts, Drawn
<1>5. PICK f : Shuffle(f, m) /\ \A x \in 1 .. m : A[x] = Lower(s)[f[x]]
  <2>1. PICK f : From(A, Lower(s), f, m)
    BY <1>4, DrawnFrom
  <2>2. Shuffle(f, m) /\ \A x \in 1 .. m : A[x] = Lower(s)[f[x]]
    BY <2>1 DEF From
  <2> QED
    BY <2>2
<1>6. PICK g : Shuffle(g, n) /\ \A x \in 1 .. n : B[x] = Upper(s)[g[x]]
  <2>1. PICK g : From(B, Upper(s), g, n)
    BY <1>4, DrawnFrom
  <2>2. Shuffle(g, n) /\ \A x \in 1 .. n : B[x] = Upper(s)[g[x]]
    BY <2>1 DEF From
  <2> QED
    BY <2>2
<1>7. PICK h : Shuffle(h, L) /\ Joined(h, f, m, g, n)
  BY <1>2, <1>5, <1>6, JoinPlaces
<1>8. PICK u : u = A \o B
  OBVIOUS
<1>9. ASSUME NEW y \in 1 .. L PROVE u[y] = s[h[y]]
  <2>1. u[y] = IF y <= m THEN A[y] ELSE B[y - m]
    <3>1. Len(A) = m /\ Len(A) + Len(B) = L
      BY <1>2, <1>4
    <3>2. \A x \in 1 .. Len(A) + Len(B) :
            u[x] = IF x <= Len(A) THEN A[x] ELSE B[x - Len(A)]
      BY <1>8, ConcatProperties
    <3> QED
      BY <3>1, <3>2
  <2>2. CASE y <= m
    <3>1. y \in 1 .. m
      BY <2>2
    <3>2. f[y] \in 1 .. m /\ h[y] = f[y]
      BY <1>5, <1>7, <3>1 DEF Shuffle, Joined
    <3>3. u[y] = Lower(s)[f[y]]
      BY <1>5, <2>1, <2>2, <3>1
    <3> QED
      BY <1>3, <3>2, <3>3
  <2>3. CASE ~(y <= m)
    <3>1. PICK k \in 1 .. n : k = y - m
      BY <1>2, <2>3
    <3>2. m + k = y
      BY <3>1
    <3>3. g[k] \in 1 .. n /\ h[y] = m + g[k]
      BY <1>6, <1>7, <3>2 DEF Shuffle, Joined
    <3>4. u[y] = Upper(s)[g[k]]
      BY <1>6, <2>1, <2>3, <3>1
    <3> QED
      BY <1>3, <3>3, <3>4
  <2> QED
    BY <2>2, <2>3
<1>10. PICK t : t = merge(A, B)
  OBVIOUS
<1>11. Merged(t, A, B, 1, 1)
  BY <1>4, <1>10, MergeMerges
<1>12. Len(t) = L /\ Drawn(t, u, 1 .. L)
  <2>1. (m + 1 - 1) + (n + 1 - 1) = L
    BY <1>2
  <2>2. Rest(m, n, 1, 1) = 1 .. L
    <3>1. ASSUME NEW x \in 1 .. L PROVE x \in 1 .. m \/ x \in m + 1 .. m + n
      BY <1>2
    <3>2. ASSUME NEW x \in 1 .. m PROVE x \in 1 .. L
      BY <1>2
    <3>3. ASSUME NEW x \in m + 1 .. m + n PROVE x \in 1 .. L
      BY <1>2
    <3> QED
      BY <3>1, <3>2, <3>3 DEF Rest
  <2> QED
    BY <1>4, <1>8, <1>11, <2>1, <2>2 DEF Merged, ToTake
<1>13. PICK k : Shuffle(k, L) /\ \A x \in 1 .. L : t[x] = u[k[x]]
  <2>1. PICK k : From(t, u, k, L)
    BY <1>12, DrawnFrom
  <2>2. Shuffle(k, L) /\ \A x \in 1 .. L : t[x] = u[k[x]]
    BY <2>1 DEF From
  <2> QED
    BY <2>2
<1>14. PICK q : q = [x \in 1 .. L |-> h[k[x]]]
  OBVIOUS
<1>15. /\ q \in [1 .. L -> 1 .. L]
       /\ \A x, y \in 1 .. L : q[x] = q[y] => x = y
       /\ \A x \in 1 .. L : t[x] = s[q[x]]
  <2>1. /\ k \in [1 .. L -> 1 .. L] /\ \A x, y \in 1 .. L : k[x] = k[y] => x = y
        /\ \A x \in 1 .. L : t[x] = u[k[x]]
        /\ h \in [1 .. L -> 1 .. L] /\ \A x, y \in 1 .. L : h[x] = h[y] => x = y
        /\ \A y \in 1 .. L : u[y] = s[h[y]]
    BY <1>7, <1>9, <1>13 DEF Shuffle
  <2>2. \A x \in 1 .. L : q[x] = h[k[x]] /\ k[x] \in 1 .. L
    BY <1>14, <2>1, Zenon
  <2>3. \A x \in 1 .. L : q[x] \in 1 .. L
    BY <2>1, <2>2, Zenon
  <2>4. q \in [1 .. L -> 1 .. L]
    BY <1>14, <2>2, <2>3, Zenon
  <2>5. \A x, y \in 1 .. L : q[x] = q[y] => x = y
    <3> SUFFICES ASSUME NEW x \in 1 .. L, NEW y \in 1 .. L, q[x] = q[y] PROVE x = y
      OBVIOUS
    <3>1. h[k[x]] = h[k[y]]
      BY <2>2, Zenon
    <3>2. k[x] = k[y]
      BY <2>1, <2>2, <3>1, Zenon
    <3> QED
      BY <2>1, <3>2, Zenon
  <2>6. ASSUME NEW x \in 1 .. L PROVE t[x] = s[q[x]]
    <3>1. t[x] = u[k[x]] /\ q[x] = h[k[x]] /\ k[x] \in 1 .. L
      BY <2>1, <2>2
    <3>2. u[k[x]] = s[h[k[x]]]
      BY <2>1, <3>1
    <3> QED
      BY <3>1, <3>2
  <2> QED
    BY <2>4, <2>5, <2>6, Zenon
<1>16. t \in Seq(Int) /\ Ordered(t)
  BY <1>12 DEF Drawn
<1>17. Drawn(t, s, 1 .. L)
  <2>1. /\ \A x, y \in 1 .. Len(t) : q[x] = q[y] => x = y
        /\ \A x \in 1 .. Len(t) : t[x] = s[q[x]]
        /\ q \in [1 .. Len(t) -> 1 .. L]
    BY <1>12, <1>15
  <2> QED
    BY <1>16, <2>1, Zenon DEF Drawn
<1> QED
  BY <1>1, <1>10, <1>12, <1>17 DEF Sorts

\* A round calls sort with shorter sequences only.
LEMMA RoundLooksShorter ==
  ASSUME NEW s, NEW g, NEW h,
         ~(Len(s) < 2) => g[Lower(s)] = h[Lower(s)] /\ g[Upper(s)] = h[Upper(s)]
  PROVE  Round(g, s) = Round(h, s)
BY DEF Round

\* The sequences shorter than n, and the functions that are sort on them.
Shorter(n) == {s \in Seq(Int) : Len(s) < n}

Approx(h, n) == h = [s \in Shorter(n) |-> Round(h, s)]

\* The halves of a sequence shorter than n are shorter than n - 1, and than it.
LEMMA HalvesShorter ==
  ASSUME NEW n \in Int, NEW s \in Shorter(n), ~(Len(s) < 2)
  PROVE  /\ Lower(s) \in Shorter(n - 1) /\ Upper(s) \in Shorter(n - 1)
         /\ Lower(s) \in Shorter(Len(s)) /\ Upper(s) \in Shorter(Len(s))
<1>1. s \in Seq(Int) /\ Len(s) < n /\ Len(s) \in Nat
  BY DEF Shorter
<1>2. /\ Lower(s) \in Seq(Int) /\ Upper(s) \in Seq(Int)
      /\ Len(Lower(s)) < Len(s) /\ Len(Upper(s)) < Len(s)
  <2>1. PICK m \in Int : m = Middle(s)
    BY <1>1, HalvesOf
  <2>2. /\ Lower(s) \in Seq(Int) /\ Upper(s) \in Seq(Int)
        /\ Len(Lower(s)) = m /\ Len(Upper(s)) = Len(s) - m /\ m \in 1 .. Len(s) - 1
    BY <1>1, <2>1, HalvesOf
  <2> QED
    BY <1>1, <2>2
<1>3. /\ Len(Lower(s)) \in Nat /\ Len(Upper(s)) \in Nat
      /\ Len(Lower(s)) < n - 1 /\ Len(Upper(s)) < n - 1
  BY <1>1, <1>2
<1> QED
  BY <1>2, <1>3 DEF Shorter

\* For every length there is a function that is sort on the shorter sequences.
LEMMA ApproxExists == \A n \in Nat : \E h : Approx(h, n)
<1> DEFINE Has(n)  == \E h : Approx(h, n)
           Lacking == {n \in Nat : ~Has(n)}
<1> SUFFICES ASSUME Lacking # {} PROVE FALSE
  OBVIOUS
<1>1. PICK m \in Lacking : \A n \in Lacking : m <= n
  <2>1. Lacking \in SUBSET Nat
    OBVIOUS
  <2> HIDE DEF Lacking
  <2> QED
    BY <2>1, Least
<1>2. m \in Nat /\ ~Has(m)
  BY <1>1
<1>3. m # 0
  <2>1. Shorter(0) = {}
    BY DEF Shorter
  <2>2. Has(0)
    BY <2>1 DEF Approx
  <2> HIDE DEF Has
  <2> QED
    BY <1>2, <2>2
<1>4. m - 1 \in Nat /\ Has(m - 1)
  <2> HIDE DEF Has
  <2> QED
    BY <1>1, <1>2, <1>3
<1>5. PICK h : Approx(h, m - 1)
  BY <1>4
<1>6. PICK k : k = [s \in Shorter(m) |-> Round(h, s)]
  OBVIOUS
<1>7. ASSUME NEW s \in Shorter(m - 1) PROVE k[s] = h[s]
  <2>1. s \in Shorter(m)
    BY <1>2 DEF Shorter
  <2> QED
    BY <1>5, <1>6, <2>1 DEF Approx
<1>8. ASSUME NEW s \in Shorter(m) PROVE Round(h, s) = Round(k, s)
  <2>1. ~(Len(s) < 2) => h[Lower(s)] = k[Lower(s)] /\ h[Upper(s)] = k[Upper(s)]
    BY <1>2, <1>7, HalvesShorter
  <2> QED
    BY <2>1, RoundLooksShorter
<1>9. Approx(k, m)
  BY <1>6, <1>8 DEF Approx
<1> QED
  BY <1>2, <1>9

\* Two such functions are the same where both are defined.
LEMMA ApproxAgree ==
  ASSUME NEW m \in Nat, NEW h, Approx(h, m), NEW n \in Nat, NEW k, Approx(k, n)
  PROVE  \A s \in Shorter(m) : s \in Shorter(n) => h[s] = k[s]
<1> DEFINE Bad == {l \in Nat : \E s \in Shorter(m) :
                                s \in Shorter(n) /\ Len(s) = l /\ h[s] # k[s]}
<1>1. Bad = {}
  <2> SUFFICES ASSUME Bad # {} PROVE FALSE
    OBVIOUS
  <2>1. PICK l \in Bad : \A x \in Bad : l <= x
    <3>1. Bad \in SUBSET Nat
      OBVIOUS
    <3> HIDE DEF Bad
    <3> QED
      BY <3>1, Least
  <2>2. PICK s \in Shorter(m) : s \in Shorter(n) /\ Len(s) = l /\ h[s] # k[s]
    BY <2>1
  <2>3. ASSUME NEW u \in Shorter(m), u \in Shorter(n), Len(u) < l
        PROVE  h[u] = k[u]
    <3>1. Len(u) \in Nat
      BY DEF Shorter
    <3>2. Len(u) \notin Bad
      BY <2>1, <2>3, <3>1
    <3> QED
      BY <2>3, <3>1, <3>2
  <2>4. h[s] = Round(h, s) /\ k[s] = Round(k, s)
    BY <2>2 DEF Approx
  <2>5. ASSUME ~(Len(s) < 2)
        PROVE  h[Lower(s)] = k[Lower(s)] /\ h[Upper(s)] = k[Upper(s)]
    <3>1. /\ Lower(s) \in Shorter(m - 1) /\ Upper(s) \in Shorter(m - 1)
          /\ Lower(s) \in Shorter(Len(s)) /\ Upper(s) \in Shorter(Len(s))
      BY <2>2, <2>5, HalvesShorter
    <3>2. Lower(s) \in Shorter(n - 1) /\ Upper(s) \in Shorter(n - 1)
      BY <2>2, <2>5, HalvesShorter
    <3>3. PICK u, v : u = Lower(s) /\ v = Upper(s)
      OBVIOUS
    <3>4. /\ u \in Shorter(m) /\ u \in Shorter(n) /\ Len(u) < l
          /\ v \in Shorter(m) /\ v \in Shorter(n) /\ Len(v) < l
      BY <2>2, <3>1, <3>2, <3>3 DEF Shorter
    <3>5. h[u] = k[u] /\ h[v] = k[v]
      BY <2>3, <3>4
    <3> QED
      BY <3>3, <3>5
  <2> QED
    BY <2>2, <2>4, <2>5, RoundLooksShorter
<1> QED
  BY <1>1 DEF Shorter

\* There is such a sort: what it has at s it has by a finite number of rounds.
LEMMA SortExists == \E g : g = [s \in Seq(Int) |-> Round(g, s)]
<1>1. PICK H : H = [n \in Nat |-> CHOOSE h : Approx(h, n)]
  OBVIOUS
<1>2. \A n \in Nat : Approx(H[n], n)
  BY <1>1, ApproxExists
<1>3. PICK g : g = [s \in Seq(Int) |-> H[Len(s) + 1][s]]
  OBVIOUS
<1>4. ASSUME NEW s \in Seq(Int), NEW n \in Nat, s \in Shorter(n)
      PROVE  H[n][s] = g[s]
  <2>1. PICK m \in Nat : m = Len(s) + 1
    OBVIOUS
  <2>2. s \in Shorter(m)
    BY <2>1 DEF Shorter
  <2>3. g[s] = H[m][s]
    BY <1>3, <2>1
  <2> QED
    BY <1>2, <1>4, <2>2, <2>3, ApproxAgree
<1>5. ASSUME NEW s \in Seq(Int) PROVE g[s] = Round(g, s)
  <2>1. PICK m \in Nat : m = Len(s) + 1
    OBVIOUS
  <2>2. s \in Shorter(m)
    BY <2>1 DEF Shorter
  <2>3. PICK h : h = H[m]
    OBVIOUS
  <2>4. Approx(h, m)
    BY <1>2, <2>3
  <2>5. h[s] = Round(h, s)
    BY <2>2, <2>4 DEF Approx
  <2>6. ASSUME ~(Len(s) < 2)
        PROVE  h[Lower(s)] = g[Lower(s)] /\ h[Upper(s)] = g[Upper(s)]
    <3>1. Lower(s) \in Shorter(m - 1) /\ Upper(s) \in Shorter(m - 1)
      BY <2>2, <2>6, HalvesShorter
    <3>2. PICK u, v : u = Lower(s) /\ v = Upper(s)
      OBVIOUS
    <3>3. /\ u \in Shorter(m) /\ u \in Seq(Int)
          /\ v \in Shorter(m) /\ v \in Seq(Int)
      BY <3>1, <3>2 DEF Shorter
    <3>4. h[u] = g[u] /\ h[v] = g[v]
      BY <1>4, <2>3, <3>3
    <3> QED
      BY <3>2, <3>4
  <2>7. Round(h, s) = Round(g, s)
    BY <2>6, RoundLooksShorter
  <2>8. g[s] = h[s]
    BY <1>4, <2>2, <2>3
  <2> QED
    BY <2>5, <2>7, <2>8
<1>6. g = [s \in Seq(Int) |-> Round(g, s)]
  BY <1>3, <1>5
<1> QED
  BY <1>6

\* A sequence of fewer than two is sorted.
LEMMA ShortSorts ==
  ASSUME NEW s \in Seq(Int), Len(s) < 2
  PROVE  Sorts(s, s)
<1>1. PICK L \in Nat : L = Len(s)
  OBVIOUS
<1>2. PICK f : f = [x \in 1 .. L |-> x]
  OBVIOUS
<1>3. L < 2 /\ \A x \in 1 .. L : s[x] \in Int
  BY <1>1, ElementOfSeq
<1>4. Ordered(s)
  <2>1. ASSUME NEW x \in 1 .. L, NEW y \in 1 .. L PROVE s[x] <= s[y]
    <3>1. x = y
      BY <1>3
    <3>2. PICK a \in Int : a = s[x]
      BY <1>3
    <3> QED
      BY <3>1, <3>2
  <2> QED
    BY <1>1, <2>1 DEF Ordered
<1>5. /\ f \in [1 .. L -> 1 .. L]
      /\ \A x, y \in 1 .. L : f[x] = f[y] => x = y
      /\ \A x \in 1 .. L : s[x] = s[f[x]]
  BY <1>2
<1>6. Drawn(s, s, 1 .. L)
  BY <1>1, <1>4, <1>5 DEF Drawn
<1> QED
  BY <1>1, <1>6 DEF Sorts

\* Whatever sort is, it sorts: the shortest sequence it does not sort would have
\* halves it sorts.
LEMMA SortSorts ==
  ASSUME NEW g, g = [s \in Seq(Int) |-> Round(g, s)]
  PROVE  \A s \in Seq(Int) : Sorts(g[s], s)
<1> DEFINE Bad == {l \in Nat : \E s \in Seq(Int) : Len(s) = l /\ ~Sorts(g[s], s)}
<1>1. Bad = {}
  <2> SUFFICES ASSUME Bad # {} PROVE FALSE
    OBVIOUS
  <2>1. PICK l \in Bad : \A x \in Bad : l <= x
    <3>1. Bad \in SUBSET Nat
      OBVIOUS
    <3> HIDE DEF Bad
    <3> QED
      BY <3>1, Least
  <2>2. PICK s \in Seq(Int) : Len(s) = l /\ ~Sorts(g[s], s)
    BY <2>1
  <2>3. ASSUME NEW u \in Seq(Int), Len(u) < l
        PROVE  Sorts(g[u], u)
    <3>1. Len(u) \in Nat
      OBVIOUS
    <3>2. Len(u) \notin Bad
      BY <2>1, <2>3, <3>1
    <3> QED
      BY <3>1, <3>2
  <2>4. g[s] = Round(g, s)
    OBVIOUS
  <2>5. CASE Len(s) < 2
    BY <2>2, <2>4, <2>5, ShortSorts DEF Round
  <2>6. CASE ~(Len(s) < 2)
    <3>1. PICK m \in Int : m = Middle(s)
      BY <2>6, HalvesOf
    <3>2. PICK u, v : u = Lower(s) /\ v = Upper(s)
      OBVIOUS
    <3>3. /\ u \in Seq(Int) /\ v \in Seq(Int)
          /\ Len(u) = m /\ Len(v) = Len(s) - m /\ m \in 1 .. Len(s) - 1
      BY <2>6, <3>1, <3>2, HalvesOf
    <3>4. Len(u) < l /\ Len(v) < l
      BY <2>2, <3>3
    <3>5. PICK A, B : A = g[u] /\ B = g[v]
      OBVIOUS
    <3>6. Sorts(A, Lower(s)) /\ Sorts(B, Upper(s))
      BY <2>3, <3>2, <3>3, <3>4, <3>5
    <3>7. A \in Seq(Int) /\ B \in Seq(Int)
      BY <3>6 DEF Sorts, Drawn
    <3>8. Sorts(merge(A, B), s)
      BY <2>6, <3>6, <3>7, MergeSorts
    <3> QED
      BY <2>2, <2>4, <2>6, <3>2, <3>5, <3>8 DEF Round
  <2> QED
    BY <2>5, <2>6
<1> QED
  BY <1>1

-----------------------------------------------------------------------------
\* R is A, its first n elements in order and the others where they were.
FirstSorted(R, A, n, L, V) ==
  /\ R \in [1 .. L -> V]
  /\ \A x, y \in 1 .. n : x <= y => R[x] <= R[y]
  /\ \A x \in n + 1 .. L : R[x] = A[x]
  /\ \E p \in [1 .. L -> 1 .. L] :
       /\ \A x, y \in 1 .. L : p[x] = p[y] => x = y
       /\ \A x \in 1 .. L : R[x] = A[p[x]]

\* What the recursion of merge_sort() returns is put back in front of the rest.
LEMMA MergeSortPutsBack ==
  ASSUME NEW V \in SUBSET Int, NEW L \in Nat, NEW A \in [1 .. L -> V], NEW n \in 0 .. L
  PROVE  FirstSorted(merge_sort(A, n), A, n, L, V)
<1> DEFINE Fix(g) == g = [s \in Seq(Int) |-> Round(g, s)]
           it == CHOOSE g : Fix(g)
<1>1. merge_sort(A, n) = [i \in DOMAIN A |->
                            IF i <= n THEN it[Prefix(A, n)][i] ELSE A[i]]
  BY Zenon DEF merge_sort, Round, Middle, Lower, Upper
<1>2. \E g : Fix(g)
  BY SortExists
<1>3. Fix(it)
  <2> HIDE DEF Fix
  <2> QED
    BY <1>2
<1>4. PICK g : g = it
  OBVIOUS
<1>5. \A s \in Seq(Int) : Sorts(g[s], s)
  <2>1. Fix(g)
    <3> HIDE DEF Fix, it
    <3> QED
      BY <1>3, <1>4
  <2> QED
    BY <2>1, SortSorts
<1> HIDE DEF it
<1>6. PICK s : s = Prefix(A, n)
  OBVIOUS
<1>7. /\ s \in Seq(Int) /\ Len(s) = n
      /\ \A x \in 1 .. n : x \in 1 .. L /\ s[x] = A[x] /\ A[x] \in Int
  <2>1. s = [i \in 1 .. n |-> A[i]] /\ n \in Nat /\ \A x \in 1 .. n : x \in 1 .. L
    BY <1>6 DEF Prefix
  <2>2. \A x \in 1 .. n : A[x] \in Int
    BY <2>1
  <2> QED
    BY <2>1, <2>2
<1>8. PICK t : t = g[s]
  OBVIOUS
<1>9. Len(t) = n /\ Drawn(t, s, 1 .. n)
  BY <1>5, <1>7, <1>8 DEF Sorts
<1>10. PICK f : From(t, s, f, n)
  BY <1>9, DrawnFrom
<1>11. PICK R : R = merge_sort(A, n)
  OBVIOUS
<1>12. R = [i \in 1 .. L |-> IF i <= n THEN t[i] ELSE A[i]]
  BY <1>1, <1>4, <1>6, <1>8, <1>11
<1>13. PICK p : p = [i \in 1 .. L |-> IF i <= n THEN f[i] ELSE i]
  OBVIOUS
<1>14. /\ f \in [1 .. n -> 1 .. n]
       /\ \A x, y \in 1 .. n : f[x] = f[y] => x = y
       /\ \A x \in 1 .. n : t[x] = s[f[x]]
  BY <1>10 DEF From, Shuffle
<1>15. ASSUME NEW x \in 1 .. L
       PROVE  /\ x <= n => x \in 1 .. n /\ p[x] = f[x] /\ p[x] \in 1 .. n
              /\ ~(x <= n) => p[x] = x
              /\ p[x] \in 1 .. L
              /\ R[x] = A[p[x]]
  <2>1. CASE x <= n
    <3>1. x \in 1 .. n /\ p[x] = f[x]
      BY <1>13, <2>1
    <3>2. f[x] \in 1 .. n /\ R[x] = t[x]
      BY <1>12, <1>14, <2>1, <3>1
    <3>3. t[x] = A[f[x]] /\ f[x] \in 1 .. L
      BY <1>7, <1>14, <3>1, <3>2
    <3> QED
      BY <2>1, <3>1, <3>2, <3>3
  <2>2. CASE ~(x <= n)
    BY <1>12, <1>13, <2>2
  <2> QED
    BY <2>1, <2>2
<1>16. /\ p \in [1 .. L -> 1 .. L]
       /\ \A x \in 1 .. L : R[x] = A[p[x]]
  BY <1>13, <1>15
<1>17. ASSUME NEW x \in 1 .. L, NEW y \in 1 .. L, p[x] = p[y]
       PROVE  x = y
  <2>1. CASE x <= n /\ y <= n
    BY <1>14, <1>15, <1>17, <2>1
  <2>2. CASE ~(x <= n) /\ ~(y <= n)
    BY <1>15, <1>17, <2>2
  <2>3. CASE (x <= n) # (y <= n)
    BY <1>15, <1>17, <2>3
  <2> QED
    BY <2>1, <2>2, <2>3
<1>18. R \in [1 .. L -> V]
  BY <1>12, <1>15
<1>19. \A x, y \in 1 .. n : x <= y => R[x] <= R[y]
  <2>1. \A x \in 1 .. n : R[x] = t[x]
    BY <1>12
  <2> QED
    BY <1>9, <2>1 DEF Drawn, Ordered
<1>20. \A x \in n + 1 .. L : R[x] = A[x]
  BY <1>12
<1>21. FirstSorted(R, A, n, L, V)
  BY <1>16, <1>17, <1>18, <1>19, <1>20 DEF FirstSorted
<1> QED
  BY <1>11, <1>21

\* merge_sort() of project4b sorts the first n elements of any array, leaves the
\* others alone, and has each element as often as before: what ForkSort assumes
\* of it (SortAssumption), for every list of numbers of any set.
THEOREM MergeSortSorts ==
  ASSUME NEW V \in SUBSET Int, NEW L \in Nat, NEW A \in [1 .. L -> V], NEW n \in 0 .. L
  PROVE  /\ merge_sort(A, n) \in [1 .. L -> V]
         /\ \A x, y \in 1 .. n : x <= y => merge_sort(A, n)[x] <= merge_sort(A, n)[y]
         /\ \A x \in n + 1 .. L : merge_sort(A, n)[x] = A[x]
         /\ \E p \in [1 .. L -> 1 .. L] :
              /\ \A x, y \in 1 .. L : p[x] = p[y] => x = y
              /\ \A x \in 1 .. L : merge_sort(A, n)[x] = A[p[x]]
<1>1. FirstSorted(merge_sort(A, n), A, n, L, V)
  BY MergeSortPutsBack
<1> QED
  BY <1>1 DEF FirstSorted

-----------------------------------------------------------------------------
(* selectionSort().                                                        *)

\* From every place on there is a least element, and a first of them.
LEMMA MinExists ==
  ASSUME NEW A \in Seq(Int), NEW x \in 1 .. Len(A)
  PROVE  \E y \in x .. Len(A) :
           \A z \in x .. Len(A) : A[y] < A[z] \/ (A[y] = A[z] /\ y <= z)
<1>1. PICK n \in Nat : n = Len(A)
  OBVIOUS
<1>2. \A k \in 1 .. n : A[k] \in Int
  BY <1>1, ElementOfSeq
<1> DEFINE First(w, y) == \A z \in w .. n : A[y] < A[z] \/ (A[y] = A[z] /\ y <= z)
           Has(w)      == \E y \in w .. n : First(w, y)
           Lacking     == {d \in Nat : d < n /\ ~Has(n - d)}
<1>3. Lacking = {}
  <2> SUFFICES ASSUME Lacking # {} PROVE FALSE
    OBVIOUS
  <2>1. PICK d \in Lacking : \A e \in Lacking : d <= e
    <3>1. Lacking \in SUBSET Nat
      OBVIOUS
    <3> HIDE DEF Lacking
    <3> QED
      BY <3>1, Least
  <2>2. d \in Nat /\ d < n /\ ~Has(n - d)
    BY <2>1
  <2>3. PICK w \in 1 .. n : w = n - d
    <3>1. n - d \in 1 .. n
      BY <2>2
    <3> QED
      BY <3>1
  <2>4. d # 0
    <3>1. ASSUME w = n PROVE First(w, w)
      <4>1. ASSUME NEW z \in w .. n PROVE A[w] = A[z] /\ w <= z
        BY <2>3, <3>1
      <4> QED
        BY <4>1
    <3>2. d = 0 => w = n /\ w \in w .. n
      BY <1>1, <2>3
    <3> HIDE DEF First
    <3> QED
      BY <2>2, <2>3, <3>1, <3>2
  <2>5. d - 1 \in Nat /\ d - 1 < n /\ n - (d - 1) = w + 1 /\ ~(d <= d - 1)
    BY <2>2, <2>3, <2>4
  <2>6. Has(w + 1)
    <3>1. d - 1 \notin Lacking
      BY <2>1, <2>5
    <3> HIDE DEF Has
    <3> QED
      BY <2>5, <3>1
  <2>7. PICK y \in w + 1 .. n : First(w + 1, y)
    BY <2>6
  <2>8. y \in w .. n /\ w \in w .. n /\ y \in 1 .. n /\ A[y] \in Int /\ A[w] \in Int
    BY <1>2, <2>7, <2>3
  <2>9. ASSUME NEW z \in w .. n
        PROVE  /\ z \in Int /\ A[z] \in Int /\ w <= z
               /\ z # w => A[y] < A[z] \/ (A[y] = A[z] /\ y <= z)
    <3>1. z \in 1 .. n /\ (z # w => z \in w + 1 .. n)
      BY <2>3
    <3> QED
      BY <1>2, <2>7, <3>1
  <2>10. CASE A[w] <= A[y]
    <3>1. ASSUME NEW z \in w .. n
          PROVE  A[w] < A[z] \/ (A[w] = A[z] /\ w <= z)
      <4>1. /\ A[y] \in Int /\ A[w] \in Int /\ A[z] \in Int /\ w <= z /\ A[w] <= A[y]
            /\ z # w => A[y] < A[z] \/ A[y] = A[z]
        BY <2>8, <2>9, <2>10
      <4>2. \A a, b, c \in Int : a <= b /\ (b < c \/ b = c) => a < c \/ a = c
        OBVIOUS
      <4>3. z # w => A[w] < A[z] \/ A[w] = A[z]
        BY <4>1, <4>2
      <4> QED
        BY <4>1, <4>3, Zenon
    <3> QED
      BY <2>2, <2>3, <2>8, <3>1
  <2>11. CASE ~(A[w] <= A[y])
    <3>1. A[y] < A[w]
      <4>1. \A a, b \in Int : ~(a <= b) => b < a
        OBVIOUS
      <4> QED
        BY <2>8, <2>11, <4>1
    <3>2. ASSUME NEW z \in w .. n
          PROVE  A[y] < A[z] \/ (A[y] = A[z] /\ y <= z)
      BY <2>9, <3>1
    <3> QED
      BY <2>2, <2>3, <2>8, <3>2
  <2> QED
    BY <2>10, <2>11
<1>4. PICK d \in Nat : d < n /\ n - d = x
  <2>1. n - x \in Nat /\ n - x < n /\ n - (n - x) = x
    BY <1>1
  <2> QED
    BY <2>1
<1>5. Has(x)
  <2> HIDE DEF Has
  <2> QED
    BY <1>3, <1>4
<1> QED
  BY <1>1, <1>5

\* What minIndex is.
LEMMA MinIndexIs ==
  ASSUME NEW A \in Seq(Int), NEW x \in 1 .. Len(A)
  PROVE  /\ minIndex(A, x) \in x .. Len(A) /\ minIndex(A, x) \in 1 .. Len(A)
         /\ \A z \in x .. Len(A) : A[minIndex(A, x)] <= A[z]
<1> DEFINE First(y) == \A z \in x .. Len(A) : A[y] < A[z] \/ (A[y] = A[z] /\ y <= z)
<1>1. \E y \in x .. Len(A) : First(y)
  BY MinExists
<1>2. minIndex(A, x) = CHOOSE y \in x .. Len(A) : First(y)
  BY DEF minIndex
<1>3. PICK y : y = minIndex(A, x)
  OBVIOUS
<1>4. y \in x .. Len(A) /\ First(y)
  <2> HIDE DEF First
  <2> QED
    BY <1>1, <1>2, <1>3
<1>5. y \in 1 .. Len(A) /\ \A z \in x .. Len(A) : z \in 1 .. Len(A)
  BY <1>4
<1>6. ASSUME NEW z \in x .. Len(A) PROVE A[y] <= A[z]
  <2>1. A[y] \in Int /\ A[z] \in Int
    BY <1>5, ElementOfSeq
  <2> QED
    BY <1>4, <2>1
<1> QED
  BY <1>3, <1>4, <1>5, <1>6

\* C is A, with the elements at x and y exchanged.
IsExchanged(C, A, x, y) ==
  /\ C \in Seq(Int) /\ Len(C) = Len(A)
  /\ \A k \in 1 .. Len(A) :
       C[k] = IF k = y THEN A[x] ELSE IF k = x THEN A[y] ELSE A[k]

\* The exchange puts the two elements in each other's place.
LEMMA ExchangedIs ==
  ASSUME NEW A \in Seq(Int), NEW x \in 1 .. Len(A), NEW y \in 1 .. Len(A)
  PROVE  IsExchanged(Swap(A, x, y), A, x, y)
<1>1. PICK a \in Int, b \in Int : a = A[x] /\ b = A[y]
  BY ElementOfSeq
<1>2. PICK B : B = [A EXCEPT ![x] = b]
  OBVIOUS
<1>3. /\ B \in Seq(Int) /\ Len(B) = Len(A)
      /\ \A k \in 1 .. Len(A) : B[k] = IF k = x THEN b ELSE A[k]
  BY <1>1, <1>2, ExceptSeq
<1>4. PICK C : C = [B EXCEPT ![y] = a]
  OBVIOUS
<1>5. /\ C \in Seq(Int) /\ Len(C) = Len(B)
      /\ \A k \in 1 .. Len(B) : C[k] = IF k = y THEN a ELSE B[k]
  BY <1>1, <1>3, <1>4, ExceptSeq
<1>6. Swap(A, x, y) = C
  BY <1>1, <1>2, <1>4 DEF Swap
<1> QED
  BY <1>1, <1>3, <1>5, <1>6 DEF IsExchanged

\* One turn of selectionSort.
Selected(A, x) == Swap(A, x, minIndex(A, x))

\* What after has at x, by what it has before.
Turned(f, temp, x) == IF x = 0 THEN temp ELSE Selected(f[x - 1], x)

\* There is such an array of turns, for any number of them.
LEMMA TurnsExist ==
  ASSUME NEW temp, NEW size \in Nat
  PROVE  \E f : f = [x \in 0 .. size |-> Turned(f, temp, x)]
<1> DEFINE Has(n)  == \E f : f = [x \in 0 .. n |-> Turned(f, temp, x)]
           Lacking == {n \in Nat : ~Has(n)}
<1>1. Lacking = {}
  <2> SUFFICES ASSUME Lacking # {} PROVE FALSE
    OBVIOUS
  <2>1. PICK m \in Lacking : \A n \in Lacking : m <= n
    <3>1. Lacking \in SUBSET Nat
      OBVIOUS
    <3> HIDE DEF Lacking
    <3> QED
      BY <3>1, Least
  <2>2. m \in Nat /\ ~Has(m)
    BY <2>1
  <2>3. m # 0
    <3>1. PICK f : f = [x \in 0 .. 0 |-> temp]
      OBVIOUS
    <3>2. \A x \in 0 .. 0 : Turned(f, temp, x) = temp
      BY DEF Turned
    <3>3. f = [x \in 0 .. 0 |-> Turned(f, temp, x)]
      BY <3>1, <3>2
    <3>4. Has(0)
      BY <3>3
    <3> HIDE DEF Has
    <3> QED
      BY <2>2, <3>4
  <2>4. m - 1 \in Nat /\ Has(m - 1)
    <3> HIDE DEF Has
    <3> QED
      BY <2>1, <2>2, <2>3
  <2>5. PICK f : f = [x \in 0 .. m - 1 |-> Turned(f, temp, x)]
    BY <2>4
  <2>6. PICK g : g = [x \in 0 .. m |-> Turned(f, temp, x)]
    OBVIOUS
  <2>7. ASSUME NEW x \in 0 .. m PROVE Turned(f, temp, x) = Turned(g, temp, x)
    <3>1. CASE x = 0
      BY <3>1 DEF Turned
    <3>2. CASE x # 0
      <4>1. x - 1 \in 0 .. m - 1 /\ x - 1 \in 0 .. m
        BY <2>2, <3>2
      <4>2. f[x - 1] = g[x - 1]
        BY <2>5, <2>6, <4>1
      <4> QED
        BY <3>2, <4>2 DEF Turned
    <3> QED
      BY <3>1, <3>2
  <2>8. g = [x \in 0 .. m |-> Turned(g, temp, x)]
    BY <2>6, <2>7
  <2> QED
    BY <2>2, <2>8
<1>2. Has(size)
  <2> HIDE DEF Has
  <2> QED
    BY <1>1
<1> QED
  BY <1>2

\* After x turns A is s in another order, and no element up to x is greater than
\* one behind it.
SelectedUpTo(A, s, x) ==
  /\ A \in Seq(Int) /\ Len(A) = Len(s)
  /\ \E f : From(A, s, f, Len(s))
  /\ \A k \in 1 .. x, l \in 1 .. Len(s) : k <= l => A[k] <= A[l]

\* The next turn.
LEMMA OneTurn ==
  ASSUME NEW s \in Seq(Int), NEW x \in 1 .. Len(s), NEW A, SelectedUpTo(A, s, x - 1)
  PROVE  SelectedUpTo(Selected(A, x), s, x)
<1>1. PICK n \in Nat : n = Len(s)
  OBVIOUS
<1>2. /\ A \in Seq(Int) /\ Len(A) = n
      /\ \A k \in 1 .. x - 1, l \in 1 .. n : k <= l => A[k] <= A[l]
  BY <1>1 DEF SelectedUpTo
<1>3. PICK f : From(A, s, f, n)
  BY <1>1 DEF SelectedUpTo
<1>4. PICK y \in 1 .. n : /\ y = minIndex(A, x) /\ y \in x .. n
                          /\ \A z \in x .. n : A[y] <= A[z]
  BY <1>1, <1>2, MinIndexIs
<1>5. PICK B : B = Selected(A, x)
  OBVIOUS
<1>6. /\ B \in Seq(Int) /\ Len(B) = n
      /\ \A k \in 1 .. n : B[k] = IF k = y THEN A[x] ELSE IF k = x THEN A[y] ELSE A[k]
  <2>1. x \in 1 .. Len(A) /\ y \in 1 .. Len(A)
    BY <1>1, <1>2
  <2>2. B = Swap(A, x, y)
    BY <1>4, <1>5 DEF Selected
  <2>3. IsExchanged(B, A, x, y)
    BY <1>2, <2>1, <2>2, ExchangedIs
  <2> QED
    BY <1>2, <2>3 DEF IsExchanged
<1>7. \E g : From(B, s, g, n)
  <2>1. /\ f \in [1 .. n -> 1 .. n]
        /\ \A k, l \in 1 .. n : f[k] = f[l] => k = l
        /\ \A k \in 1 .. n : A[k] = s[f[k]]
    BY <1>3 DEF From, Shuffle
  <2>2. PICK g : g = [k \in 1 .. n |-> IF k = y THEN f[x] ELSE IF k = x THEN f[y] ELSE f[k]]
    OBVIOUS
  <2>3. x \in 1 .. n
    BY <1>1
  <2>4. g \in [1 .. n -> 1 .. n]
    BY <2>1, <2>2, <2>3
  <2>5. \A k, l \in 1 .. n : g[k] = g[l] => k = l
    BY <2>1, <2>2, <2>3
  <2>6. \A k \in 1 .. n : B[k] = s[g[k]]
    BY <1>6, <2>1, <2>2, <2>3
  <2> QED
    BY <2>4, <2>5, <2>6 DEF From, Shuffle
<1>8. ASSUME NEW k \in 1 .. x, NEW l \in 1 .. n, k <= l
      PROVE  B[k] <= B[l]
  <2>1. x \in 1 .. n /\ k \in 1 .. n
    BY <1>1
  <2>2. CASE k = x
    <3>1. B[k] = A[y]
      BY <1>6, <2>1, <2>2
    <3>2. l \in x .. n /\ x \in x .. n
      BY <1>8, <2>1, <2>2
    <3>3. B[l] = A[x] \/ B[l] = A[y] \/ B[l] = A[l]
      BY <1>6
    <3>4. A[y] <= A[x] /\ A[y] <= A[l] /\ A[y] <= A[y]
      BY <1>4, <3>2
    <3> QED
      BY <3>1, <3>3, <3>4
  <2>3. CASE k # x
    <3>1. k \in 1 .. x - 1 /\ k < x /\ k # y
      BY <1>4, <2>1, <2>3
    <3>2. B[k] = A[k]
      BY <1>6, <2>1, <3>1
    <3>3. k <= y
      BY <1>4, <3>1
    <3>4. A[k] <= A[x] /\ A[k] <= A[y] /\ A[k] <= A[l]
      BY <1>2, <1>4, <1>8, <2>1, <3>1, <3>3
    <3>5. B[l] = A[x] \/ B[l] = A[y] \/ B[l] = A[l]
      BY <1>6
    <3> QED
      BY <3>2, <3>4, <3>5
  <2> QED
    BY <2>2, <2>3
<1>9. SelectedUpTo(B, s, x)
  BY <1>1, <1>6, <1>7, <1>8 DEF SelectedUpTo
<1> QED
  BY <1>5, <1>9

\* Before the first turn.
LEMMA NoTurn ==
  ASSUME NEW s \in Seq(Int)
  PROVE  SelectedUpTo(s, s, 0)
<1>1. PICK n \in Nat : n = Len(s)
  OBVIOUS
<1>2. PICK f : f = [k \in 1 .. n |-> k]
  OBVIOUS
<1>3. From(s, s, f, n)
  BY <1>2 DEF From, Shuffle
<1> QED
  BY <1>1, <1>3 DEF SelectedUpTo

\* selectionSort() of project4b sorts every array of numbers: the elements are
\* in order, and they are those of the array in another order.
THEOREM SelectionSortSorts ==
  ASSUME NEW s \in Seq(Int)
  PROVE  LET sorted == selectionSort(s, Len(s)) IN
         /\ sorted \in Seq(Int) /\ Len(sorted) = Len(s)
         /\ \A x, y \in 1 .. Len(s) : x <= y => sorted[x] <= sorted[y]
         /\ \E p \in [1 .. Len(s) -> 1 .. Len(s)] :
              /\ \A x, y \in 1 .. Len(s) : p[x] = p[y] => x = y
              /\ \A x \in 1 .. Len(s) : sorted[x] = s[p[x]]
<1> DEFINE Fix(g) == g = [x \in 0 .. Len(s) |-> Turned(g, s, x)]
           it == CHOOSE g : Fix(g)
<1>1. selectionSort(s, Len(s)) = it[Len(s)]
  BY Zenon DEF selectionSort, Turned, Selected, Swap
<1>2. PICK n \in Nat : n = Len(s)
  OBVIOUS
<1>3. \E g : Fix(g)
  <2>1. Len(s) \in Nat
    OBVIOUS
  <2> QED
    BY <2>1, TurnsExist
<1>4. Fix(it)
  <2> HIDE DEF Fix
  <2> QED
    BY <1>3
<1>5. PICK g : g = it
  OBVIOUS
<1>6. g = [x \in 0 .. n |-> Turned(g, s, x)]
  <2>1. Fix(g)
    <3> HIDE DEF Fix, it
    <3> QED
      BY <1>4, <1>5
  <2> QED
    BY <1>2, <2>1
<1> HIDE DEF it
<1> DEFINE Wrong == {x \in Nat : x <= n /\ ~SelectedUpTo(g[x], s, x)}
<1>7. Wrong = {}
  <2> SUFFICES ASSUME Wrong # {} PROVE FALSE
    OBVIOUS
  <2>1. PICK x \in Wrong : \A z \in Wrong : x <= z
    <3>1. Wrong \in SUBSET Nat
      OBVIOUS
    <3> HIDE DEF Wrong
    <3> QED
      BY <3>1, Least
  <2>2. x \in Nat /\ x <= n /\ ~SelectedUpTo(g[x], s, x)
    BY <2>1
  <2>3. g[x] = Turned(g, s, x)
    BY <1>6, <2>2
  <2>4. CASE x = 0
    BY <2>2, <2>3, <2>4, NoTurn DEF Turned
  <2>5. CASE x # 0
    <3>1. x - 1 \in Nat /\ x - 1 <= n /\ ~(x <= x - 1) /\ x \in 1 .. n
      BY <2>2, <2>5
    <3>2. SelectedUpTo(g[x - 1], s, x - 1)
      <4>1. x - 1 \notin Wrong
        BY <2>1, <3>1
      <4> QED
        BY <3>1, <4>1
    <3>3. PICK A : A = g[x - 1]
      OBVIOUS
    <3>4. SelectedUpTo(Selected(A, x), s, x)
      BY <1>2, <3>1, <3>2, <3>3, OneTurn
    <3> QED
      BY <2>2, <2>3, <2>5, <3>3, <3>4 DEF Turned
  <2> QED
    BY <2>4, <2>5
<1>8. PICK t : t = g[n]
  OBVIOUS
<1>9. SelectedUpTo(t, s, n)
  BY <1>7, <1>8
<1>10. PICK p : From(t, s, p, n)
  BY <1>2, <1>9 DEF SelectedUpTo
<1>11. /\ p \in [1 .. n -> 1 .. n]
       /\ \A x, y \in 1 .. n : p[x] = p[y] => x = y
       /\ \A x \in 1 .. n : t[x] = s[p[x]]
  BY <1>10 DEF From, Shuffle
<1>12. t \in Seq(Int) /\ Len(t) = n /\ \A x, y \in 1 .. n : x <= y => t[x] <= t[y]
  BY <1>2, <1>9 DEF SelectedUpTo
<1>13. selectionSort(s, Len(s)) = t
  BY <1>1, <1>2, <1>5, <1>8
<1>14. \E q \in [1 .. n -> 1 .. n] :
         /\ \A x, y \in 1 .. n : q[x] = q[y] => x = y
         /\ \A x \in 1 .. n : t[x] = s[q[x]]
  BY <1>11
<1>15. t \in Seq(Int) /\ Len(t) = Len(s) /\ \A x, y \in 1 .. Len(s) : x <= y => t[x] <= t[y]
  BY <1>2, <1>12
<1>16. \E q \in [1 .. Len(s) -> 1 .. Len(s)] :
         /\ \A x, y \in 1 .. Len(s) : q[x] = q[y] => x = y
         /\ \A x \in 1 .. Len(s) : t[x] = s[q[x]]
  BY <1>2, <1>14
<1> QED
  BY <1>13, <1>15, <1>16, Zenon

-----------------------------------------------------------------------------
(* Loops.                                                                  *)

\* What a loop has after turn k, by what it has before.
Looped(f, body, s, k) == IF k = 0 THEN s ELSE body[k][f[k - 1]]

\* f is the function that Loop() takes its last turn from.
LoopIs(f, body, s, n) == f = [k \in 0 .. n |-> Looped(f, body, s, k)]

\* There is such an array of turns, for any number of them.
LEMMA LoopExists ==
  ASSUME NEW body, NEW s, NEW n \in Nat
  PROVE  \E f : LoopIs(f, body, s, n)
<1> DEFINE Has(m)  == \E f : LoopIs(f, body, s, m)
           Lacking == {m \in Nat : ~Has(m)}
<1>1. Lacking = {}
  <2> SUFFICES ASSUME Lacking # {} PROVE FALSE
    OBVIOUS
  <2>1. PICK m \in Lacking : \A l \in Lacking : m <= l
    <3>1. Lacking \in SUBSET Nat
      OBVIOUS
    <3> HIDE DEF Lacking
    <3> QED
      BY <3>1, Least
  <2>2. m \in Nat /\ ~Has(m)
    BY <2>1
  <2>3. m # 0
    <3>1. PICK f : f = [k \in 0 .. 0 |-> s]
      OBVIOUS
    <3>2. \A k \in 0 .. 0 : Looped(f, body, s, k) = s
      BY DEF Looped
    <3>3. f = [k \in 0 .. 0 |-> Looped(f, body, s, k)]
      BY <3>1, <3>2
    <3>4. Has(0)
      BY <3>3 DEF LoopIs
    <3> HIDE DEF Has
    <3> QED
      BY <2>2, <3>4
  <2>4. m - 1 \in Nat /\ Has(m - 1)
    <3> HIDE DEF Has
    <3> QED
      BY <2>1, <2>2, <2>3
  <2>5. PICK f : f = [k \in 0 .. m - 1 |-> Looped(f, body, s, k)]
    BY <2>4 DEF LoopIs
  <2>6. PICK g : g = [k \in 0 .. m |-> Looped(f, body, s, k)]
    OBVIOUS
  <2>7. ASSUME NEW k \in 0 .. m PROVE Looped(f, body, s, k) = Looped(g, body, s, k)
    <3>1. CASE k = 0
      BY <3>1 DEF Looped
    <3>2. CASE k # 0
      <4>1. k - 1 \in 0 .. m - 1 /\ k - 1 \in 0 .. m
        BY <2>2, <3>2
      <4>2. f[k - 1] = g[k - 1]
        BY <2>5, <2>6, <4>1
      <4> QED
        BY <3>2, <4>2 DEF Looped
    <3> QED
      BY <3>1, <3>2
  <2>8. g = [k \in 0 .. m |-> Looped(g, body, s, k)]
    BY <2>6, <2>7
  <2> QED
    BY <2>2, <2>8 DEF LoopIs
<1>2. Has(n)
  <2> HIDE DEF Has
  <2> QED
    BY <1>1
<1> QED
  BY <1>2

\* What every turn carries on holds after the last: I[k] are the values that
\* there may be after turn k.
LEMMA LoopKeeps ==
  ASSUME NEW body, NEW s, NEW n \in Nat, NEW I, s \in I[0],
         \A k \in 1 .. n : \A r \in I[k - 1] : body[k][r] \in I[k]
  PROVE  Loop(body, s, n) \in I[n]
<1> DEFINE Fix(g) == LoopIs(g, body, s, n)
           it == CHOOSE g : Fix(g)
<1>1. Loop(body, s, n) = IF n > 0 THEN it[n] ELSE s
  BY Zenon DEF Loop, Looped, LoopIs
<1>2. Fix(it)
  <2>1. \E g : Fix(g)
    BY LoopExists
  <2> HIDE DEF Fix
  <2> QED
    BY <2>1
<1>3. PICK g : g = it
  OBVIOUS
<1>4. g = [k \in 0 .. n |-> Looped(g, body, s, k)]
  <2>1. Fix(g)
    <3> HIDE DEF Fix, it
    <3> QED
      BY <1>2, <1>3
  <2> QED
    BY <2>1 DEF LoopIs
<1> HIDE DEF it
<1> DEFINE Wrong == {k \in Nat : k <= n /\ g[k] \notin I[k]}
<1>5. Wrong = {}
  <2> SUFFICES ASSUME Wrong # {} PROVE FALSE
    OBVIOUS
  <2>1. PICK k \in Wrong : \A l \in Wrong : k <= l
    <3>1. Wrong \in SUBSET Nat
      OBVIOUS
    <3> HIDE DEF Wrong
    <3> QED
      BY <3>1, Least
  <2>2. k \in Nat /\ k <= n /\ g[k] \notin I[k]
    BY <2>1
  <2>3. g[k] = Looped(g, body, s, k)
    BY <1>4, <2>2
  <2>4. CASE k = 0
    BY <2>2, <2>3, <2>4 DEF Looped
  <2>5. CASE k # 0
    <3>1. k - 1 \in Nat /\ k - 1 <= n /\ ~(k <= k - 1) /\ k \in 1 .. n
      BY <2>2, <2>5
    <3>2. g[k - 1] \in I[k - 1]
      <4>1. k - 1 \notin Wrong
        BY <2>1, <3>1
      <4> QED
        BY <3>1, <4>1
    <3> QED
      BY <2>2, <2>3, <2>5, <3>1, <3>2 DEF Looped
  <2> QED
    BY <2>4, <2>5
<1>6. g[n] \in I[n]
  BY <1>5
<1>7. n = 0 \/ n > 0
  OBVIOUS
<1>8. CASE n > 0
  BY <1>1, <1>3, <1>6, <1>8
<1>9. CASE n = 0
  <2>1. ~(n > 0)
    BY <1>9
  <2> QED
    BY <1>1, <1>9, <2>1
<1> QED
  BY <1>7, <1>8, <1>9

\* A loop that has no turn changes nothing.
LEMMA LoopNone ==
  ASSUME NEW body, NEW s, NEW n \in Int, n <= 0
  PROVE  Loop(body, s, n) = s
<1>1. ~(n > 0)
  OBVIOUS
<1> QED
  BY <1>1, Zenon DEF Loop

-----------------------------------------------------------------------------
(* Lists in another order.                                                 *)

\* t is s, with the numbers from l to r in another order.
Reordered(t, s, l, r) ==
  /\ t \in Seq(Int) /\ Len(t) = Len(s)
  /\ \E f : /\ From(t, s, f, Len(s))
            /\ \A x \in 1 .. Len(s) : x < l \/ x > r => f[x] = x

\* A list is one of its own orders.
LEMMA ReorderedSame ==
  ASSUME NEW s \in Seq(Int), NEW l \in Int, NEW r \in Int
  PROVE  Reordered(s, s, l, r)
<1>1. PICK n \in Nat : n = Len(s)
  OBVIOUS
<1>2. PICK f : f = [k \in 1 .. n |-> k]
  OBVIOUS
<1>3. From(s, s, f, n) /\ \A x \in 1 .. n : f[x] = x
  BY <1>2 DEF From, Shuffle
<1> QED
  BY <1>1, <1>3 DEF Reordered

\* The order of an order is one.
LEMMA ReorderedTwice ==
  ASSUME NEW s \in Seq(Int), NEW l \in Int, NEW r \in Int,
         NEW t, NEW u, Reordered(t, s, l, r), Reordered(u, t, l, r)
  PROVE  Reordered(u, s, l, r)
<1>1. PICK n \in Nat : n = Len(s)
  OBVIOUS
<1>2. t \in Seq(Int) /\ Len(t) = n /\ u \in Seq(Int) /\ Len(u) = n
  BY <1>1 DEF Reordered
<1>3. PICK f : From(t, s, f, n) /\ \A x \in 1 .. n : x < l \/ x > r => f[x] = x
  BY <1>1 DEF Reordered
<1>4. PICK g : From(u, t, g, n) /\ \A x \in 1 .. n : x < l \/ x > r => g[x] = x
  BY <1>2 DEF Reordered
<1>5. /\ f \in [1 .. n -> 1 .. n] /\ \A x, y \in 1 .. n : f[x] = f[y] => x = y
      /\ \A x \in 1 .. n : t[x] = s[f[x]]
  BY <1>3 DEF From, Shuffle
<1>6. /\ g \in [1 .. n -> 1 .. n] /\ \A x, y \in 1 .. n : g[x] = g[y] => x = y
      /\ \A x \in 1 .. n : u[x] = t[g[x]]
  BY <1>4 DEF From, Shuffle
<1>7. PICK h : h = [x \in 1 .. n |-> f[g[x]]]
  OBVIOUS
<1>8. /\ h \in [1 .. n -> 1 .. n] /\ \A x, y \in 1 .. n : h[x] = h[y] => x = y
      /\ \A x \in 1 .. n : u[x] = s[h[x]]
  <2>1. \A x \in 1 .. n : h[x] = f[g[x]] /\ g[x] \in 1 .. n
    BY <1>6, <1>7, Zenon
  <2>2. \A x \in 1 .. n : h[x] \in 1 .. n
    BY <1>5, <2>1, Zenon
  <2>3. h \in [1 .. n -> 1 .. n]
    BY <1>7, <2>1, <2>2, Zenon
  <2>4. \A x, y \in 1 .. n : h[x] = h[y] => x = y
    <3> SUFFICES ASSUME NEW x \in 1 .. n, NEW y \in 1 .. n, h[x] = h[y] PROVE x = y
      OBVIOUS
    <3>1. f[g[x]] = f[g[y]]
      BY <2>1, Zenon
    <3>2. g[x] = g[y]
      BY <1>5, <2>1, <3>1, Zenon
    <3> QED
      BY <1>6, <3>2, Zenon
  <2>5. ASSUME NEW x \in 1 .. n PROVE u[x] = s[h[x]]
    <3>1. u[x] = t[g[x]] /\ h[x] = f[g[x]] /\ g[x] \in 1 .. n
      BY <1>6, <2>1
    <3>2. t[g[x]] = s[f[g[x]]]
      BY <1>5, <3>1
    <3> QED
      BY <3>1, <3>2
  <2> QED
    BY <2>3, <2>4, <2>5, Zenon
<1>9. \A x \in 1 .. n : x < l \/ x > r => h[x] = x
  BY <1>3, <1>4, <1>7
<1>10. From(u, s, h, n)
  BY <1>8 DEF From, Shuffle
<1> QED
  BY <1>1, <1>2, <1>9, <1>10 DEF Reordered

\* So is an exchange.
LEMMA ReorderedSwap ==
  ASSUME NEW s \in Seq(Int), NEW l \in Int, NEW r \in Int,
         NEW x \in 1 .. Len(s), NEW y \in 1 .. Len(s), NEW t, IsExchanged(t, s, x, y),
         l <= x, x <= r, l <= y, y <= r
  PROVE  Reordered(t, s, l, r)
<1>1. PICK n \in Nat : n = Len(s)
  OBVIOUS
<1>2. /\ t \in Seq(Int) /\ Len(t) = n
      /\ \A k \in 1 .. n : t[k] = IF k = y THEN s[x] ELSE IF k = x THEN s[y] ELSE s[k]
  BY <1>1 DEF IsExchanged
<1>3. PICK f : f = [k \in 1 .. n |-> IF k = y THEN x ELSE IF k = x THEN y ELSE k]
  OBVIOUS
<1>4. x \in 1 .. n /\ y \in 1 .. n
  BY <1>1
<1>5. f \in [1 .. n -> 1 .. n] /\ \A k, m \in 1 .. n : f[k] = f[m] => k = m
  BY <1>3, <1>4
<1>6. \A k \in 1 .. n : t[k] = s[f[k]]
  BY <1>2, <1>3
<1>7. \A k \in 1 .. n : k < l \/ k > r => f[k] = k
  BY <1>3, <1>4
<1>8. From(t, s, f, n)
  BY <1>5, <1>6 DEF From, Shuffle
<1> QED
  BY <1>1, <1>2, <1>7, <1>8 DEF Reordered

\* What is an order of a part is one of any greater part.
LEMMA ReorderedWider ==
  ASSUME NEW s, NEW l \in Int, NEW r \in Int, NEW t, Reordered(t, s, l, r),
         NEW a \in Int, NEW b \in Int, a <= l, r <= b, s \in Seq(Int)
  PROVE  Reordered(t, s, a, b)
<1>1. PICK n \in Nat : n = Len(s)
  OBVIOUS
<1>2. PICK f : From(t, s, f, n) /\ \A x \in 1 .. n : x < l \/ x > r => f[x] = x
  BY <1>1 DEF Reordered
<1>3. \A x \in 1 .. n : x < a \/ x > b => f[x] = x
  BY <1>2
<1>4. t \in Seq(Int) /\ Len(t) = n
  BY <1>1 DEF Reordered
<1> QED
  BY <1>1, <1>2, <1>3, <1>4 DEF Reordered

\* Outside the part nothing changes, and what is in it comes from it.
LEMMA ReorderedFrom ==
  ASSUME NEW s \in Seq(Int), NEW l \in Int, NEW r \in Int,
         NEW t, Reordered(t, s, l, r)
  PROVE  /\ \A x \in 1 .. Len(s) : x < l \/ x > r => t[x] = s[x]
         /\ \A x \in 1 .. Len(s) : l <= x /\ x <= r =>
              \E y \in 1 .. Len(s) : l <= y /\ y <= r /\ t[x] = s[y]
<1>1. PICK n \in Nat : n = Len(s)
  OBVIOUS
<1>2. PICK f : From(t, s, f, n) /\ \A x \in 1 .. n : x < l \/ x > r => f[x] = x
  BY <1>1 DEF Reordered
<1>3. /\ f \in [1 .. n -> 1 .. n] /\ \A x, y \in 1 .. n : f[x] = f[y] => x = y
      /\ \A x \in 1 .. n : t[x] = s[f[x]]
  BY <1>2 DEF From, Shuffle
<1>4. \A x \in 1 .. n : x < l \/ x > r => t[x] = s[x]
  BY <1>2, <1>3
<1>5. ASSUME NEW x \in 1 .. n, l <= x, x <= r
      PROVE  \E y \in 1 .. n : l <= y /\ y <= r /\ t[x] = s[y]
  <2>1. PICK z \in 1 .. n : z = f[x]
    BY <1>3
  <2>2. z < l \/ z > r => f[z] = z
    BY <1>2
  <2>3. z < l \/ z > r => z = x
    BY <1>3, <2>1, <2>2
  <2>4. l <= z /\ z <= r
    BY <1>5, <2>3
  <2> QED
    BY <1>3, <2>1, <2>4
<1>6. \A x \in 1 .. n : l <= x /\ x <= r =>
              \E y \in 1 .. n : l <= y /\ y <= r /\ t[x] = s[y]
  BY <1>5
<1> QED
  BY <1>1, <1>4, <1>6

-----------------------------------------------------------------------------
(* doSelectionSort().                                                      *)

\* t is s in order.
SortedFrom(t, s) ==
  /\ t \in Seq(Int) /\ Len(t) = Len(s) /\ Ordered(t)
  /\ \E f : From(t, s, f, Len(s))

\* The two ways of writing the first of the least elements are one.
LEMMA MinIndexSame ==
  ASSUME NEW A \in Seq(Int), NEW x \in 1 .. Len(A)
  PROVE  MinIndex(A, x) = minIndex(A, x)
<1> DEFINE First(y) == \A z \in x .. Len(A) : A[y] < A[z] \/ (A[y] = A[z] /\ y <= z)
           S == {w \in x .. Len(A) : \A y \in x .. Len(A) : A[w] <= A[y]}
           Is(w) == w \in S /\ \A v \in S : w <= v
<1>1. \E y \in x .. Len(A) : First(y)
  BY MinExists
<1>2. minIndex(A, x) = CHOOSE y \in x .. Len(A) : First(y)
  BY DEF minIndex
<1>3. PICK y : y = minIndex(A, x)
  OBVIOUS
<1>4. y \in x .. Len(A) /\ First(y)
  <2> HIDE DEF First
  <2> QED
    BY <1>1, <1>2, <1>3
<1>5. \A z \in x .. Len(A) : z \in 1 .. Len(A) /\ A[z] \in Int
  <2> TAKE z \in x .. Len(A)
  <2>1. z \in 1 .. Len(A)
    OBVIOUS
  <2> QED
    BY <2>1, ElementOfSeq
<1>6. \A z \in x .. Len(A) : A[y] <= A[z]
  BY <1>4, <1>5
<1>7. y \in S
  BY <1>4, <1>6
<1>8. ASSUME NEW v \in S PROVE y <= v
  <2>1. v \in x .. Len(A) /\ A[v] <= A[y]
    BY <1>4
  <2>2. A[y] < A[v] \/ (A[y] = A[v] /\ y <= v)
    BY <1>4, <2>1
  <2>3. A[y] \in Int /\ A[v] \in Int
    BY <1>4, <1>5, <2>1
  <2>4. \A a, b \in Int : a <= b /\ b < a => FALSE
    OBVIOUS
  <2> QED
    BY <2>1, <2>2, <2>3, <2>4
<1>9. Is(y)
  BY <1>7, <1>8
<1>10. MinIndex(A, x) = CHOOSE w \in S : \A v \in S : w <= v
  BY DEF MinIndex, Min
<1>11. PICK w : w = MinIndex(A, x)
  OBVIOUS
<1>12. Is(w)
  <2>1. \E v \in S : \A z \in S : v <= z
    BY <1>9
  <2> HIDE DEF S
  <2> QED
    BY <1>10, <1>11, <2>1
<1>13. w <= y /\ y <= w /\ w \in Int /\ y \in Int
  BY <1>4, <1>9, <1>12
<1> QED
  BY <1>3, <1>11, <1>13

\* doSelectionSort() sorts every list that is not empty.
THEOREM DoSelectionSortSorts ==
  ASSUME NEW A \in Seq(Int), A # <<>>
  PROVE  SortedFrom(doSelectionSort(A), A)
<1>1. PICK n \in Nat : n = Len(A) - 1
  <2>1. Len(A) - 1 \in Nat
    BY EmptySeq
  <2> QED
    BY <2>1
<1> DEFINE body == [i \in 1 .. Len(A) - 1 |->
                      [B \in Seq(Int) |-> Swap(B, i, MinIndex(B, i))]]
           I == [k \in 0 .. n |-> {B \in Seq(Int) : SelectedUpTo(B, A, k)}]
<1>2. Len(A) = n + 1 /\ Len(A) \in Nat
  BY <1>1
<1>3. A \in I[0]
  BY <1>1, NoTurn
<1>4. ASSUME NEW k \in 1 .. n, NEW B \in I[k - 1] PROVE body[k][B] \in I[k]
  <2>1. k - 1 \in 0 .. n /\ k \in 0 .. n /\ k \in 1 .. Len(A) /\ k \in 1 .. Len(A) - 1
    BY <1>1, <1>2
  <2>2. B \in Seq(Int) /\ SelectedUpTo(B, A, k - 1)
    BY <1>4, <2>1
  <2>3. Len(B) = Len(A)
    BY <2>2 DEF SelectedUpTo
  <2>4. MinIndex(B, k) = minIndex(B, k)
    <3>1. k \in 1 .. Len(B)
      BY <2>1, <2>3
    <3> QED
      BY <2>2, <3>1, MinIndexSame
  <2>5. body[k][B] = Selected(B, k)
    BY <2>1, <2>2, <2>4 DEF Selected
  <2>6. SelectedUpTo(Selected(B, k), A, k)
    BY <2>1, <2>2, OneTurn
  <2>7. Selected(B, k) \in Seq(Int)
    BY <2>6 DEF SelectedUpTo
  <2> HIDE DEF body
  <2> QED
    BY <2>1, <2>5, <2>6, <2>7
<1>5. Loop(body, A, n) \in I[n]
  <2> HIDE DEF body, I
  <2> QED
    BY <1>3, <1>4, LoopKeeps
<1>6. PICK t : t = doSelectionSort(A)
  OBVIOUS
<1>7. t = Loop(body, A, n)
  BY <1>1, <1>6 DEF doSelectionSort
<1>8. SelectedUpTo(t, A, n)
  <2> HIDE DEF body
  <2> QED
    BY <1>5, <1>7
<1>9. /\ t \in Seq(Int) /\ Len(t) = Len(A) /\ \E f : From(t, A, f, Len(A))
      /\ \A x \in 1 .. n, y \in 1 .. Len(A) : x <= y => t[x] <= t[y]
  BY <1>8 DEF SelectedUpTo
<1>10. ASSUME NEW x \in 1 .. Len(t), NEW y \in 1 .. Len(t), x <= y
       PROVE  t[x] <= t[y]
  <2>1. t[x] \in Int
    BY <1>9, ElementOfSeq
  <2>2. CASE x = n + 1
    <3>1. y = x
      BY <1>2, <1>9, <1>10, <2>2
    <3>2. \A a \in Int : a <= a
      OBVIOUS
    <3> QED
      BY <2>1, <3>1, <3>2
  <2>3. CASE x # n + 1
    <3>1. x \in 1 .. n /\ y \in 1 .. Len(A)
      BY <1>2, <1>9, <2>3
    <3> QED
      BY <1>9, <1>10, <3>1
  <2> QED
    BY <2>2, <2>3
<1> QED
  BY <1>6, <1>9, <1>10 DEF SortedFrom, Ordered

-----------------------------------------------------------------------------
(* doBubbleSort().                                                         *)

\* Behind n every number is where it belongs.
TailDone(t, n) == \A x \in 1 .. Len(t), y \in n + 1 .. Len(t) : x <= y => t[x] <= t[y]

\* What a list that was put into order is.
LEMMA OrderedFrom ==
  ASSUME NEW s \in Seq(Int), NEW t, Reordered(t, s, 1, Len(s)), TailDone(t, 0)
  PROVE  SortedFrom(t, s)
<1>1. t \in Seq(Int) /\ Len(t) = Len(s) /\ \E f : From(t, s, f, Len(s))
  BY DEF Reordered
<1>2. Ordered(t)
  BY DEF TailDone, Ordered
<1> QED
  BY <1>1, <1>2 DEF SortedFrom

\* A pass over the first n of s after turn i: the numbers from the last exchange
\* to i + 1 are where they belong among the first i + 1.
PassAt(r, s, n, i) ==
  /\ r \in Pass /\ r.newN \in 0 .. i
  /\ Reordered(r.list, s, 1, Len(s)) /\ TailDone(r.list, n)
  /\ \A x \in 1 .. i + 1, y \in r.newN + 1 .. i + 1 : x <= y => r.list[x] <= r.list[y]

\* The turn that exchanges.
LEMMA BubbleExchanges ==
  ASSUME NEW s \in Seq(Int), NEW n \in 1 .. Len(s), NEW i \in 1 .. n - 1,
         NEW r, PassAt(r, s, n, i - 1), r.list[i] > r.list[i + 1]
  PROVE  PassAt([list |-> Swap(r.list, i, i + 1), newN |-> i], s, n, i)
<1>1. PICK L \in Nat : L = Len(s)
  OBVIOUS
<1>2. PICK A : A = r.list
  OBVIOUS
<1>3. /\ A \in Seq(Int) /\ Len(A) = L /\ r.newN \in 0 .. i - 1
      /\ \A x \in 1 .. L, y \in n + 1 .. L : x <= y => A[x] <= A[y]
      /\ \A x \in 1 .. i, y \in r.newN + 1 .. i : x <= y => A[x] <= A[y]
  <2>1. (i - 1) + 1 = i
    OBVIOUS
  <2> QED
    BY <1>1, <1>2, <2>1 DEF PassAt, Pass, Reordered, TailDone
<1>4. i \in 1 .. L /\ i + 1 \in 1 .. L /\ i + 1 <= n /\ n <= L /\ n \in Int /\ i \in Int
  BY <1>1
<1>5. PICK j \in 1 .. L : j = i + 1
  BY <1>4
<1>6. PICK B : B = Swap(A, i, j)
  OBVIOUS
<1>7. IsExchanged(B, A, i, j)
  <2>1. i \in 1 .. Len(A) /\ j \in 1 .. Len(A)
    BY <1>3, <1>4, <1>5
  <2> QED
    BY <1>3, <1>6, <2>1, ExchangedIs
<1>8. /\ B \in Seq(Int) /\ Len(B) = L
      /\ \A k \in 1 .. L : B[k] = IF k = j THEN A[i] ELSE IF k = i THEN A[j] ELSE A[k]
  BY <1>3, <1>7 DEF IsExchanged
<1>9. A[i] > A[j] /\ A[i] \in Int /\ A[j] \in Int
  BY <1>2, <1>3, <1>4, <1>5, ElementOfSeq
<1>10. Reordered(B, s, 1, L)
  <2>1. Reordered(A, s, 1, L)
    BY <1>1, <1>2 DEF PassAt
  <2>2. PICK l \in Int, h \in Int : l = 1 /\ h = L
    OBVIOUS
  <2>3. i \in 1 .. Len(A) /\ j \in 1 .. Len(A) /\ l <= i /\ i <= h /\ l <= j /\ j <= h
    BY <1>3, <1>4, <1>5, <2>2
  <2>4. Reordered(B, A, l, h)
    BY <1>3, <1>7, <2>3, ReorderedSwap
  <2>5. Reordered(A, s, l, h)
    BY <2>1, <2>2
  <2>6. Reordered(B, s, l, h)
    BY <2>4, <2>5, ReorderedTwice
  <2> QED
    BY <2>2, <2>6
<1>11. ASSUME NEW x \in 1 .. L, NEW y \in n + 1 .. L, x <= y PROVE B[x] <= B[y]
  <2>1. y \in 1 .. L /\ y # i /\ y # j /\ i <= y /\ j <= y
    BY <1>4, <1>5
  <2>2. B[y] = A[y]
    BY <1>8, <2>1
  <2>3. A[i] <= A[y] /\ A[j] <= A[y] /\ A[x] <= A[y]
    BY <1>3, <1>4, <1>5, <1>11, <2>1
  <2>4. B[x] = A[i] \/ B[x] = A[j] \/ B[x] = A[x]
    BY <1>8
  <2> QED
    BY <2>2, <2>3, <2>4
<1>12. ASSUME NEW x \in 1 .. i + 1, NEW y \in i + 1 .. i + 1, x <= y
       PROVE  B[x] <= B[y]
  <2>1. y = j /\ x \in 1 .. L /\ y \in 1 .. L
    BY <1>4, <1>5
  <2>2. B[y] = A[i]
    BY <1>8, <2>1
  <2>3. i \in 1 .. i /\ i \in r.newN + 1 .. i
    BY <1>3
  <2>4. \A a, b \in Int : a > b => b <= a /\ a <= a
    OBVIOUS
  <2>5. A[j] <= A[i] /\ A[i] <= A[i]
    BY <1>9, <2>4
  <2>6. CASE x = j
    BY <2>1, <2>2, <2>5, <2>6
  <2>7. CASE x = i
    <3>1. B[x] = A[j]
      BY <1>4, <1>5, <1>8, <2>1, <2>7
    <3> QED
      BY <2>2, <2>5, <3>1
  <2>8. CASE x # i /\ x # j
    <3>1. x \in 1 .. i /\ x <= i
      BY <1>5, <2>8
    <3>2. A[x] <= A[i]
      BY <1>3, <2>3, <3>1
    <3>3. B[x] = A[x]
      BY <1>8, <2>1, <2>8
    <3> QED
      BY <2>2, <3>2, <3>3
  <2> QED
    BY <2>6, <2>7, <2>8
<1>13. PICK q : q = [list |-> B, newN |-> i]
  OBVIOUS
<1>14. q \in Pass /\ q.list = B /\ q.newN = i
  BY <1>4, <1>8, <1>13 DEF Pass
<1>15. i \in 0 .. i
  BY <1>4
<1>16. TailDone(B, n)
  BY <1>8, <1>11 DEF TailDone
<1>17. PassAt(q, s, n, i)
  BY <1>1, <1>10, <1>12, <1>14, <1>15, <1>16 DEF PassAt
<1> QED
  BY <1>2, <1>5, <1>6, <1>13, <1>17

\* The turn that does not.
LEMMA BubbleStays ==
  ASSUME NEW s \in Seq(Int), NEW n \in 1 .. Len(s), NEW i \in 1 .. n - 1,
         NEW r, PassAt(r, s, n, i - 1), ~(r.list[i] > r.list[i + 1])
  PROVE  PassAt(r, s, n, i)
<1>1. PICK L \in Nat : L = Len(s)
  OBVIOUS
<1>2. PICK A : A = r.list
  OBVIOUS
<1>3. /\ A \in Seq(Int) /\ Len(A) = L /\ r.newN \in 0 .. i - 1
      /\ \A x \in 1 .. i, y \in r.newN + 1 .. i : x <= y => A[x] <= A[y]
  <2>1. (i - 1) + 1 = i
    OBVIOUS
  <2> QED
    BY <1>1, <1>2, <2>1 DEF PassAt, Pass, Reordered
<1>4. i \in 1 .. L /\ i + 1 \in 1 .. L /\ i \in Int
  BY <1>1
<1>5. PICK j \in 1 .. L : j = i + 1
  BY <1>4
<1>6. A[i] \in Int /\ A[j] \in Int
  BY <1>3, <1>4, ElementOfSeq
<1>7. A[i] <= A[j] /\ A[j] <= A[j]
  <2>1. \A a, b \in Int : ~(a > b) => a <= b /\ b <= b
    OBVIOUS
  <2>2. ~(A[i] > A[j])
    BY <1>2, <1>5
  <2> QED
    BY <1>6, <2>1, <2>2
<1>8. ASSUME NEW x \in 1 .. i + 1, NEW y \in r.newN + 1 .. i + 1, x <= y
      PROVE  A[x] <= A[y]
  <2>1. CASE y = j
    <3>1. CASE x = j
      BY <1>7, <2>1, <3>1
    <3>2. CASE x # j
      <4>1. x \in 1 .. i /\ x <= i /\ i \in r.newN + 1 .. i /\ x \in 1 .. L
        <5>1. x \in 1 .. i
          BY <1>4, <1>5, <3>2
        <5>2. i \in r.newN + 1 .. i
          <6>1. PICK b \in 0 .. i - 1 : b = r.newN
            BY <1>3
          <6>2. i \in b + 1 .. i
            BY <1>4
          <6> QED
            BY <6>1, <6>2
        <5> QED
          BY <1>4, <5>1, <5>2
      <4>2. A[x] <= A[i]
        BY <1>3, <4>1
      <4>3. A[x] \in Int
        BY <1>3, <4>1, ElementOfSeq
      <4>4. \A a, b, c \in Int : a <= b /\ b <= c => a <= c
        OBVIOUS
      <4> QED
        BY <1>6, <1>7, <2>1, <4>2, <4>3, <4>4
    <3> QED
      BY <3>1, <3>2
  <2>2. CASE y # j
    <3>1. y \in r.newN + 1 .. i /\ x \in 1 .. i
      BY <1>3, <1>5, <1>8, <2>2
    <3> QED
      BY <1>3, <1>8, <3>1
  <2> QED
    BY <2>1, <2>2
<1>9. r.newN \in 0 .. i
  BY <1>3
<1> QED
  BY <1>2, <1>8, <1>9 DEF PassAt

\* A pass leaves behind its last exchange what belongs there.
LEMMA BubbleEnds ==
  ASSUME NEW s \in Seq(Int), NEW n \in 1 .. Len(s), NEW A,
         Reordered(A, s, 1, Len(s)), TailDone(A, n)
  PROVE  LET r == Bubble(A, n) IN
         /\ r \in Pass /\ r.newN \in 0 .. n - 1
         /\ Reordered(r.list, s, 1, Len(s)) /\ TailDone(r.list, r.newN)
<1> DEFINE start == [list |-> A, newN |-> 0]
           body == [i \in 1 .. n - 1 |->
                      [r \in Pass |-> IF r.list[i] > r.list[i + 1]
                                      THEN [list |-> Swap(r.list, i, i + 1), newN |-> i]
                                      ELSE r]]
           I == [k \in 0 .. n - 1 |-> {r \in Pass : PassAt(r, s, n, k)}]
<1>1. A \in Seq(Int) /\ Len(A) = Len(s)
  BY DEF Reordered
<1>2. start \in I[0]
  <2>1. start \in Pass /\ start.list = A /\ start.newN = 0
    BY <1>1 DEF Pass
  <2>2. ASSUME NEW x \in 1 .. 0 + 1, NEW y \in 0 + 1 .. 0 + 1, x <= y
        PROVE  A[x] <= A[y]
    <3>1. x \in 1 .. Len(A) /\ x = y
      BY <1>1
    <3>2. A[x] \in Int
      BY <1>1, <3>1, ElementOfSeq
    <3> QED
      BY <3>1, <3>2
  <2>3. PassAt(start, s, n, 0)
    BY <2>1, <2>2 DEF PassAt
  <2>4. 0 \in 0 .. n - 1
    OBVIOUS
  <2> QED
    BY <2>1, <2>3, <2>4
<1>3. ASSUME NEW k \in 1 .. n - 1, NEW r \in I[k - 1] PROVE body[k][r] \in I[k]
  <2>1. k - 1 \in 0 .. n - 1 /\ k \in 0 .. n - 1
    OBVIOUS
  <2>2. r \in Pass /\ PassAt(r, s, n, k - 1)
    BY <1>3, <2>1
  <2>3. PICK q : q = body[k][r]
    OBVIOUS
  <2>4. CASE r.list[k] > r.list[k + 1]
    <3>1. q = [list |-> Swap(r.list, k, k + 1), newN |-> k]
      BY <2>2, <2>3, <2>4
    <3>2. PassAt(q, s, n, k)
      BY <2>2, <2>4, <3>1, BubbleExchanges
    <3> QED
      BY <2>1, <2>3, <3>2 DEF PassAt
  <2>5. CASE ~(r.list[k] > r.list[k + 1])
    <3>1. q = r
      BY <2>2, <2>3, <2>5
    <3>2. PassAt(q, s, n, k)
      BY <2>2, <2>5, <3>1, BubbleStays
    <3> QED
      BY <2>1, <2>3, <3>2 DEF PassAt
  <2> QED
    BY <2>4, <2>5
<1>4. PICK m \in Nat : m = n - 1
  OBVIOUS
<1>5. Loop(body, start, m) \in I[m]
  <2>1. \A k \in 1 .. m : \A r \in I[k - 1] : body[k][r] \in I[k]
    BY <1>3, <1>4
  <2> HIDE DEF body, I, start
  <2> QED
    BY <1>2, <2>1, LoopKeeps
<1>6. PICK r : r = Bubble(A, n)
  OBVIOUS
<1>7. r = Loop(body, start, m)
  BY <1>4, <1>6 DEF Bubble
<1>8. PassAt(r, s, n, m)
  <2> HIDE DEF body, start
  <2>1. m \in 0 .. n - 1
    BY <1>4
  <2> QED
    BY <1>5, <1>7, <2>1
<1>9. /\ r \in Pass /\ r.newN \in 0 .. n - 1
      /\ Reordered(r.list, s, 1, Len(s)) /\ TailDone(r.list, n)
      /\ \A x \in 1 .. n, y \in r.newN + 1 .. n : x <= y => r.list[x] <= r.list[y]
  <2>1. m + 1 = n
    BY <1>4
  <2> QED
    BY <1>4, <1>8, <2>1 DEF PassAt
<1>10. ASSUME NEW x \in 1 .. Len(r.list), NEW y \in r.newN + 1 .. Len(r.list), x <= y
       PROVE  r.list[x] <= r.list[y]
  <2>1. r.newN \in Int /\ n \in Int /\ Len(r.list) \in Int
    BY <1>9, SMTT(30) DEF Reordered
  <2>2. CASE y <= n
    <3>1. y \in r.newN + 1 .. n /\ x \in 1 .. n
      BY <1>9, <1>10, <2>1, <2>2
    <3> QED
      BY <1>9, <1>10, <3>1
  <2>3. CASE ~(y <= n)
    <3>1. y \in n + 1 .. Len(r.list)
      BY <2>1, <2>3
    <3> QED
      BY <1>9, <1>10, <3>1 DEF TailDone
  <2> QED
    BY <2>2, <2>3
<1>11. TailDone(r.list, r.newN)
  BY <1>10 DEF TailDone
<1> QED
  BY <1>6, <1>9, <1>11, Zenon

\* doBubbleSort() sorts every list.
THEOREM DoBubbleSortSorts ==
  ASSUME NEW A \in Seq(Int)
  PROVE  SortedFrom(doBubbleSort(A), A)
<1>1. PICK n \in Nat : n = Len(A)
  OBVIOUS
<1> DEFINE turn == [r \in Pass |-> IF r.newN > 0 THEN Bubble(r.list, r.newN) ELSE r]
           body == [k \in 1 .. Len(A) |-> turn]
           start == [list |-> A, newN |-> Len(A)]
           Good(r, k) == /\ r \in Pass /\ r.newN \in 0 .. n - k
                         /\ Reordered(r.list, A, 1, Len(A)) /\ TailDone(r.list, r.newN)
           I == [k \in 0 .. n |-> {r \in Pass : Good(r, k)}]
<1>2. start \in I[0]
  <2>1. start \in Pass /\ start.list = A /\ start.newN = n /\ n \in 0 .. n - 0
    BY <1>1 DEF Pass
  <2>2. TailDone(A, n)
    BY <1>1 DEF TailDone
  <2>3. Reordered(A, A, 1, Len(A))
    BY <1>1, ReorderedSame
  <2> QED
    BY <2>1, <2>2, <2>3
<1>3. ASSUME NEW k \in 1 .. n, NEW r \in I[k - 1] PROVE body[k][r] \in I[k]
  <2>1. k - 1 \in 0 .. n /\ k \in 0 .. n /\ k \in 1 .. Len(A)
    BY <1>1
  <2>2. /\ r \in Pass /\ r.newN \in 0 .. n - (k - 1)
        /\ Reordered(r.list, A, 1, Len(A)) /\ TailDone(r.list, r.newN)
    BY <1>3, <2>1
  <2>3. PICK q : q = body[k][r]
    OBVIOUS
  <2>4. CASE r.newN > 0
    <3>1. q = Bubble(r.list, r.newN)
      BY <2>1, <2>2, <2>3, <2>4
    <3>2. r.newN \in 1 .. Len(A) /\ r.newN - 1 <= n - k
      BY <1>1, <2>2, <2>4
    <3>3. PICK m \in 1 .. Len(A) : m = r.newN
      BY <3>2
    <3>8. PICK B : B = r.list
      OBVIOUS
    <3>4. Reordered(B, A, 1, Len(A)) /\ TailDone(B, m) /\ q = Bubble(B, m)
      BY <2>2, <3>1, <3>3, <3>8
    <3>5. /\ q \in Pass /\ q.newN \in 0 .. m - 1
          /\ Reordered(q.list, A, 1, Len(A)) /\ TailDone(q.list, q.newN)
      BY <3>4, BubbleEnds
    <3>6. q.newN \in 0 .. n - k
      BY <3>2, <3>3, <3>5
    <3>7. q \in I[k]
      BY <2>1, <3>5, <3>6
    <3> QED
      BY <2>3, <3>7
  <2>5. CASE ~(r.newN > 0)
    <3>1. q = r
      BY <2>1, <2>2, <2>3, <2>5
    <3>2. r.newN \in 0 .. n - k
      BY <2>2, <2>5
    <3>3. r \in I[k]
      BY <2>1, <2>2, <3>2
    <3> QED
      BY <2>3, <3>1, <3>3
  <2> QED
    BY <2>4, <2>5
<1>4. Loop(body, start, n) \in I[n]
  <2> HIDE DEF body, I, start
  <2> QED
    BY <1>2, <1>3, LoopKeeps
<1>5. PICK r : r = Loop(body, start, n)
  OBVIOUS
<1>6. doBubbleSort(A) = r.list
  BY <1>1, <1>5 DEF doBubbleSort
<1>7. Good(r, n)
  <2> HIDE DEF body, start, Good
  <2> QED
    BY <1>4, <1>5
<1>8. r.newN = 0
  BY <1>7
<1>9. Reordered(r.list, A, 1, Len(A)) /\ TailDone(r.list, 0)
  BY <1>7, <1>8
<1>10. PICK t : t = r.list
  OBVIOUS
<1> QED
  BY <1>6, <1>9, <1>10, OrderedFrom

-----------------------------------------------------------------------------
(* doInsertionSort() and doShellSort().                                    *)

\* The slide of the number at j of A after turn k: with the number in the hole
\* the list is A in another order, and the hole is where it stops or has gone
\* down k times.  If the numbers before j are in order and the gap is 1, those
\* beside the hole are in order and the ones above it are not less.
HoleAt(r, A, j, gap, k) ==
  /\ r \in Hole /\ Len(r.list) = Len(A) /\ r.at \in 1 .. j
  /\ Reordered([r.list EXCEPT ![r.at] = A[j]], A, 1, Len(A))
  /\ \/ ~(r.at > gap /\ r.list[r.at - gap] > A[j])
     \/ r.at <= j - k
  /\ gap = 1 /\ InOrder(A, 1, j - 1) =>
       /\ \A x, y \in 1 .. j : x <= y /\ x # r.at /\ y # r.at => r.list[x] <= r.list[y]
       /\ \A y \in r.at + 1 .. j : A[j] <= r.list[y]

\* The hole goes down.
LEMMA HoleGoes ==
  ASSUME NEW A \in Seq(Int), NEW gap \in Nat \ {0}, NEW j \in gap + 1 .. Len(A),
         NEW k \in 1 .. j, NEW r, HoleAt(r, A, j, gap, k - 1),
         r.at > gap, r.list[r.at - gap] > A[j]
  PROVE  HoleAt([list |-> [r.list EXCEPT ![r.at] = r.list[r.at - gap]],
                 at |-> r.at - gap], A, j, gap, k)
<1>1. PICK L \in Nat : L = Len(A)
  OBVIOUS
<1>2. PICK B : B = r.list
  OBVIOUS
<1>3. PICK h : h = r.at
  OBVIOUS
<1>4. /\ B \in Seq(Int) /\ Len(B) = L /\ h \in 1 .. j
      /\ Reordered([B EXCEPT ![h] = A[j]], A, 1, L)
      /\ h <= j - (k - 1)
      /\ gap = 1 /\ InOrder(A, 1, j - 1) =>
           /\ \A x, y \in 1 .. j : x <= y /\ x # h /\ y # h => B[x] <= B[y]
           /\ \A y \in h + 1 .. j : A[j] <= B[y]
  BY <1>1, <1>2, <1>3 DEF HoleAt, Hole
<1>24. gap \in Nat /\ gap >= 1 /\ j \in Int /\ j <= L
  <2>1. j \in gap + 1 .. L
    BY <1>1
  <2>2. gap \in Nat /\ gap >= 1
    OBVIOUS
  <2> QED
    BY <2>1, <2>2
<1>5. h \in 1 .. L /\ j \in 1 .. L /\ h > gap /\ B[h - gap] > A[j]
  <2>1. j \in 1 .. L
    <3>1. j \in gap + 1 .. L
      BY <1>1
    <3> QED
      BY <1>24, <3>1
  <2>2. h \in 1 .. L
    BY <1>4, <2>1
  <2> QED
    BY <1>2, <1>3, <2>1, <2>2
<1>6. PICK l \in 1 .. L : l = h - gap
  <2>1. h - gap \in 1 .. L
    BY <1>5
  <2> QED
    BY <2>1
<1>7. l < h /\ h \in Int /\ l \in Int
  BY <1>5, <1>6
<1>8. PICK v \in Int : v = A[j]
  BY <1>1, <1>5, ElementOfSeq
<1>9. PICK w \in Int : w = B[l]
  BY <1>4, <1>6, ElementOfSeq
<1>10. w > v
  BY <1>5, <1>6, <1>8, <1>9
<1>11. PICK C : C = [B EXCEPT ![h] = w]
  OBVIOUS
<1>12. /\ C \in Seq(Int) /\ Len(C) = L
       /\ \A x \in 1 .. L : C[x] = IF x = h THEN w ELSE B[x]
  <2>1. h \in 1 .. Len(B)
    BY <1>4, <1>5
  <2> QED
    BY <1>4, <1>11, <2>1, ExceptSeq
<1>13. PICK D : D = [B EXCEPT ![h] = v]
  OBVIOUS
<1>14. /\ D \in Seq(Int) /\ Len(D) = L
       /\ \A x \in 1 .. L : D[x] = IF x = h THEN v ELSE B[x]
  <2>1. h \in 1 .. Len(B)
    BY <1>4, <1>5
  <2> QED
    BY <1>4, <1>13, <2>1, ExceptSeq
<1>15. PICK E : E = [C EXCEPT ![l] = v]
  OBVIOUS
<1>16. /\ E \in Seq(Int) /\ Len(E) = L
       /\ \A x \in 1 .. L : E[x] = IF x = l THEN v ELSE C[x]
  <2>1. l \in 1 .. Len(C)
    BY <1>6, <1>12
  <2> QED
    BY <1>12, <1>15, <2>1, ExceptSeq
<1>17. IsExchanged(E, D, l, h)
  <2>1. ASSUME NEW x \in 1 .. Len(D)
        PROVE  E[x] = IF x = h THEN D[l] ELSE IF x = l THEN D[h] ELSE D[x]
    <3>1. x \in 1 .. L
      BY <1>14
    <3>2. D[l] = w /\ D[h] = v
      <4>1. l # h
        BY <1>7
      <4> QED
        BY <1>5, <1>6, <1>9, <1>14, <4>1, Zenon
    <3> QED
      BY <1>7, <1>12, <1>14, <1>16, <3>1, <3>2
  <2> QED
    BY <1>14, <1>16, <2>1 DEF IsExchanged
<1>18. Reordered(E, A, 1, L)
  <2>1. PICK o \in Int, n \in Int : o = 1 /\ n = L
    OBVIOUS
  <2>2. l \in 1 .. Len(D) /\ h \in 1 .. Len(D) /\ o <= l /\ l <= n /\ o <= h /\ h <= n
    BY <1>5, <1>6, <1>14, <2>1
  <2>3. Reordered(E, D, o, n)
    BY <1>14, <1>17, <2>2, ReorderedSwap
  <2>4. Reordered(D, A, o, n)
    <3>1. Reordered(D, A, 1, L)
      BY <1>4, <1>8, <1>13, Zenon
    <3> QED
      BY <2>1, <3>1
  <2>5. Reordered(E, A, o, n)
    BY <2>3, <2>4, ReorderedTwice
  <2> QED
    BY <2>1, <2>5
<1>19. PICK q : q = [list |-> C, at |-> l]
  OBVIOUS
<1>20. q \in Hole /\ q.list = C /\ q.at = l
  BY <1>12, <1>19 DEF Hole
<1>21. l \in 1 .. j /\ l <= j - k
  BY <1>4, <1>6, <1>7
<1>22. ASSUME gap = 1, InOrder(A, 1, j - 1)
       PROVE  /\ \A x, y \in 1 .. j : x <= y /\ x # l /\ y # l => C[x] <= C[y]
              /\ \A y \in l + 1 .. j : v <= C[y]
  <2>1. /\ \A x, y \in 1 .. j : x <= y /\ x # h /\ y # h => B[x] <= B[y]
        /\ \A y \in h + 1 .. j : v <= B[y]
    BY <1>4, <1>8, <1>22
  <2>2. h = l + 1 /\ l \in 1 .. j /\ j <= L /\ j \in Int
    BY <1>6, <1>7, <1>21, <1>22, <1>24
  <2>3. ASSUME NEW x \in 1 .. j, NEW y \in 1 .. j, x <= y, x # l, y # l
        PROVE  C[x] <= C[y]
    <3>1. x \in 1 .. L /\ y \in 1 .. L
      BY <2>2
    <3>2. C[x] \in Int
      BY <1>12, <3>1, ElementOfSeq
    <3>3. CASE x = y
      BY <3>2, <3>3
    <3>4. CASE x # y /\ x = h
      <4>1. C[x] = B[l] /\ C[y] = B[y] /\ y # h /\ l <= y /\ l # h
        <5>1. x = l + 1 /\ y >= x /\ l # h /\ x \in Int /\ y \in Int
          BY <1>7, <2>3, <2>2, <3>1, <3>4
        <5>2. y # h /\ l <= y
          BY <1>7, <3>4, <5>1
        <5> QED
          BY <1>9, <1>12, <3>1, <3>4, <5>1, <5>2
      <4> QED
        BY <2>1, <2>2, <4>1
    <3>5. CASE x # y /\ y = h
      <4>1. C[y] = B[l] /\ C[x] = B[x] /\ x # h /\ x <= l /\ l # h
        BY <1>7, <1>9, <1>12, <2>3, <2>2, <3>1, <3>5, SMTT(30)
      <4> QED
        BY <2>1, <2>2, <4>1
    <3>6. CASE x # h /\ y # h
      <4>1. C[x] = B[x] /\ C[y] = B[y]
        BY <1>12, <3>1, <3>6
      <4> QED
        BY <2>1, <2>3, <3>6, <4>1
    <3> QED
      BY <3>3, <3>4, <3>5, <3>6
  <2>4. ASSUME NEW y \in l + 1 .. j PROVE v <= C[y]
    <3>1. y \in 1 .. L /\ (y # h => y \in h + 1 .. j)
      BY <2>2
    <3>2. v <= w
      BY <1>10
    <3> QED
      BY <1>12, <2>1, <3>1, <3>2
  <2> QED
    BY <2>3, <2>4
<1>23. HoleAt(q, A, j, gap, k)
  BY <1>1, <1>8, <1>12, <1>15, <1>18, <1>20, <1>21, <1>22 DEF HoleAt
<1> QED
  BY <1>2, <1>3, <1>6, <1>9, <1>11, <1>19, <1>23

\* The slide loses nothing, and with a gap of 1 the number comes where it
\* belongs among those before it.
LEMMA SlideEnds ==
  ASSUME NEW A \in Seq(Int), NEW gap \in Nat \ {0}, NEW j \in gap + 1 .. Len(A)
  PROVE  /\ Reordered(Slide(A, j, gap), A, 1, Len(A))
         /\ gap = 1 /\ InOrder(A, 1, j - 1) => InOrder(Slide(A, j, gap), 1, j)
<1>1. PICK n \in Nat : n = j
  OBVIOUS
<1> DEFINE turn == [r \in Hole |->
                 IF r.at > gap /\ r.list[r.at - gap] > A[j]
                 THEN [list |-> [r.list EXCEPT ![r.at] = r.list[r.at - gap]],
                       at |-> r.at - gap]
                 ELSE r]
           body == [k \in 1 .. j |-> turn]
           start == [list |-> A, at |-> j]
           I == [k \in 0 .. n |-> {r \in Hole : HoleAt(r, A, j, gap, k)}]
<1>2. j \in 1 .. Len(A) /\ j \in Int /\ A[j] \in Int
  <2>1. j \in 1 .. Len(A)
    OBVIOUS
  <2> QED
    BY <2>1, ElementOfSeq
<1>3. start \in I[0]
  <2>1. start \in Hole /\ start.list = A /\ start.at = j
    BY <1>2 DEF Hole
  <2>2. [A EXCEPT ![j] = A[j]] = A
    OBVIOUS
  <2>3. Reordered(A, A, 1, Len(A))
    BY ReorderedSame
  <2>4. ASSUME InOrder(A, 1, j - 1)
        PROVE  \A x, y \in 1 .. j : x <= y /\ x # j /\ y # j => A[x] <= A[y]
    <3>1. \A x \in 1 .. j : x # j => x \in 1 .. j - 1
      BY <1>2
    <3> QED
      BY <2>4, <3>1 DEF InOrder
  <2>5. j \in 1 .. j /\ j <= j - 0 /\ \A y \in j + 1 .. j : FALSE
    BY <1>2
  <2>6. HoleAt(start, A, j, gap, 0)
    <3> HIDE DEF start
    <3> QED
      BY <2>1, <2>2, <2>3, <2>4, <2>5 DEF HoleAt
  <2> QED
    BY <2>1, <2>6
<1>4. ASSUME NEW k \in 1 .. n, NEW r \in I[k - 1] PROVE body[k][r] \in I[k]
  <2>1. k - 1 \in 0 .. n /\ k \in 0 .. n /\ k \in 1 .. j
    BY <1>1
  <2>2. r \in Hole /\ HoleAt(r, A, j, gap, k - 1)
    BY <1>4, <2>1
  <2>3. PICK q : q = body[k][r]
    OBVIOUS
  <2>4. CASE r.at > gap /\ r.list[r.at - gap] > A[j]
    <3>1. q = [list |-> [r.list EXCEPT ![r.at] = r.list[r.at - gap]],
               at |-> r.at - gap]
      BY <2>1, <2>2, <2>3, <2>4
    <3>2. HoleAt(q, A, j, gap, k)
      BY <2>1, <2>2, <2>4, <3>1, HoleGoes
    <3>3. q \in Hole
      BY <3>2 DEF HoleAt
    <3> QED
      BY <2>1, <2>3, <3>2, <3>3
  <2>5. CASE ~(r.at > gap /\ r.list[r.at - gap] > A[j])
    <3>1. q = r
      BY <2>1, <2>2, <2>3, <2>5
    <3>2. HoleAt(r, A, j, gap, k)
      BY <2>2, <2>5 DEF HoleAt
    <3> QED
      BY <2>1, <2>2, <2>3, <3>1, <3>2
  <2> QED
    BY <2>4, <2>5
<1>5. Loop(body, start, n) \in I[n]
  <2> HIDE DEF body, I, start
  <2> QED
    BY <1>3, <1>4, LoopKeeps
<1>6. PICK r : r = Loop(body, start, n)
  OBVIOUS
<1>7. HoleAt(r, A, j, gap, n)
  <2> HIDE DEF body, start
  <2> QED
    BY <1>5, <1>6
<1>8. PICK t : t = Slide(A, j, gap)
  OBVIOUS
<1>9. t = [r.list EXCEPT ![r.at] = A[j]]
  BY <1>1, <1>6, <1>8 DEF Slide
<1>10. PICK h : h = r.at
  OBVIOUS
<1>11. PICK B : B = r.list
  OBVIOUS
<1>12. /\ B \in Seq(Int) /\ Len(B) = Len(A) /\ h \in 1 .. j
       /\ Reordered(t, A, 1, Len(A))
       /\ ~(h > gap /\ B[h - gap] > A[j]) \/ h <= j - n
       /\ gap = 1 /\ InOrder(A, 1, j - 1) =>
            /\ \A x, y \in 1 .. j : x <= y /\ x # h /\ y # h => B[x] <= B[y]
            /\ \A y \in h + 1 .. j : A[j] <= B[y]
  BY <1>7, <1>9, <1>10, <1>11 DEF HoleAt, Hole
<1>13. ~(h > gap /\ B[h - gap] > A[j])
  BY <1>1, <1>2, <1>12
<1>14. ASSUME gap = 1, InOrder(A, 1, j - 1) PROVE InOrder(t, 1, j)
  <2>1. /\ \A x, y \in 1 .. j : x <= y /\ x # h /\ y # h => B[x] <= B[y]
        /\ \A y \in h + 1 .. j : A[j] <= B[y]
    BY <1>12, <1>14
  <2>2. h \in 1 .. Len(B) /\ h \in Int
    BY <1>2, <1>12
  <2>3. \A x \in 1 .. Len(B) : t[x] = IF x = h THEN A[j] ELSE B[x]
    <3>1. PICK v \in Int : v = A[j]
      BY <1>2
    <3>2. t = [B EXCEPT ![h] = v]
      BY <1>9, <1>10, <1>11, <3>1
    <3>3. \A x \in 1 .. Len(B) : [B EXCEPT ![h] = v][x] = IF x = h THEN v ELSE B[x]
      BY <1>12, <2>2, ExceptSeq, SMTT(30)
    <3> QED
      BY <3>1, <3>2, <3>3
  <2>4. ASSUME NEW x \in 1 .. j, NEW y \in 1 .. j, x <= y PROVE t[x] <= t[y]
    <3>1. x \in 1 .. Len(B) /\ y \in 1 .. Len(B)
      BY <1>2, <1>12
    <3>2. CASE x # h /\ y # h
      BY <2>1, <2>3, <2>4, <3>1, <3>2
    <3>3. CASE x = h /\ y = h
      BY <1>2, <2>3, <3>1, <3>3
    <3>4. CASE x = h /\ y # h
      <4>1. y \in h + 1 .. j
        BY <2>2, <2>4, <3>4
      <4> QED
        BY <2>1, <2>3, <3>1, <3>4, <4>1
    <3>5. CASE x # h /\ y = h
      <4>1. PICK g \in 1 .. j : g = h - 1
        <5>1. h - 1 \in 1 .. j
          BY <1>12, <2>2, <2>4, <3>5
        <5> QED
          BY <5>1
      <4>2. x <= g /\ g # h /\ h > gap /\ g \in 1 .. Len(B)
        BY <1>2, <1>12, <1>14, <2>2, <2>4, <3>5, <4>1
      <4>3. B[x] <= B[g]
        BY <2>1, <3>5, <4>2
      <4>4. ~(B[g] > A[j])
        BY <1>13, <1>14, <4>1, <4>2
      <4>5. B[x] \in Int /\ B[g] \in Int
        BY <1>12, <3>1, <4>2, ElementOfSeq
      <4>6. \A a, b, c \in Int : a <= b /\ ~(b > c) => a <= c
        OBVIOUS
      <4>7. B[x] <= A[j]
        BY <1>2, <4>3, <4>4, <4>5, <4>6
      <4> QED
        BY <2>3, <3>1, <3>5, <4>7
    <3> QED
      BY <3>2, <3>3, <3>4, <3>5
  <2> QED
    BY <2>4 DEF InOrder
<1> QED
  BY <1>8, <1>12, <1>14

\* One slide after the other loses nothing, and with a gap of 1 puts the list
\* into order.
LEMMA SlideAllEnds ==
  ASSUME NEW A \in Seq(Int), NEW gap \in Nat \ {0}
  PROVE  /\ Reordered(SlideAll(A, gap), A, 1, Len(A))
         /\ gap = 1 => InOrder(SlideAll(A, gap), 1, Len(A))
<1>1. PICK n \in Int : n = Len(A) - gap
  OBVIOUS
<1> DEFINE body == [i \in 1 .. Len(A) - gap |-> [B \in Seq(Int) |-> Slide(B, i + gap, gap)]]
           Good(B, k) == /\ B \in Seq(Int) /\ Reordered(B, A, 1, Len(A))
                         /\ gap = 1 => InOrder(B, 1, k + 1)
           I == [k \in 0 .. n |-> {B \in Seq(Int) : Good(B, k)}]
<1>2. gap \in Nat /\ gap >= 1 /\ Len(A) = n + gap /\ Len(A) \in Nat
  BY <1>1
<1>3. PICK t : t = SlideAll(A, gap)
  OBVIOUS
<1>4. t = Loop(body, A, n)
  BY <1>1, <1>3 DEF SlideAll
<1>5. Reordered(A, A, 1, Len(A))
  BY ReorderedSame
<1>6. CASE n <= 0
  <2>1. t = A
    <3> HIDE DEF body
    <3> QED
      BY <1>4, <1>6, LoopNone
  <2>2. ASSUME gap = 1 PROVE InOrder(A, 1, Len(A))
    <3>1. \A x, y \in 1 .. Len(A) : x = y
      BY <1>2, <1>6, <2>2
    <3>2. \A x \in 1 .. Len(A) : A[x] \in Int
      BY ElementOfSeq
    <3>3. \A x \in 1 .. Len(A) : A[x] <= A[x]
      BY <3>2
    <3> QED
      BY <3>1, <3>3 DEF InOrder
  <2> QED
    BY <1>3, <1>5, <2>1, <2>2
<1>7. CASE n \in Nat /\ n > 0
  <2>1. A \in I[0]
    <3>1. InOrder(A, 1, 0 + 1)
      <4>1. 1 \in 1 .. Len(A)
        BY <1>2, <1>7
      <4>2. A[1] \in Int
        BY <4>1, ElementOfSeq
      <4>3. \A x \in 1 .. 0 + 1 : x = 1
        OBVIOUS
      <4> QED
        BY <4>2, <4>3 DEF InOrder
    <3>2. Good(A, 0) /\ 0 \in 0 .. n
      BY <1>5, <1>7, <3>1
    <3> QED
      BY <3>2
  <2>2. ASSUME NEW k \in 1 .. n, NEW B \in I[k - 1] PROVE body[k][B] \in I[k]
    <3>1. k - 1 \in 0 .. n /\ k \in 0 .. n /\ k \in 1 .. Len(A) - gap /\ (k - 1) + 1 = k
      BY <1>1, <1>7
    <3>2. /\ B \in Seq(Int) /\ Reordered(B, A, 1, Len(A))
          /\ gap = 1 => InOrder(B, 1, k)
      BY <2>2, <3>1
    <3>3. Len(B) = Len(A)
      BY <3>2 DEF Reordered
    <3>4. PICK j \in gap + 1 .. Len(B) : j = k + gap
      <4>1. k + gap \in gap + 1 .. Len(B)
        BY <1>2, <3>1, <3>3
      <4> QED
        BY <4>1
    <3>5. PICK C : C = Slide(B, j, gap)
      OBVIOUS
    <3>6. body[k][B] = C
      BY <3>1, <3>2, <3>4, <3>5
    <3>7. /\ Reordered(C, B, 1, Len(B))
          /\ gap = 1 /\ InOrder(B, 1, j - 1) => InOrder(C, 1, j)
      BY <3>2, <3>5, SlideEnds
    <3>8. Reordered(C, A, 1, Len(A))
      <4>1. PICK o \in Int, L \in Int : o = 1 /\ L = Len(A)
        OBVIOUS
      <4>2. Reordered(C, B, o, L) /\ Reordered(B, A, o, L)
        BY <3>2, <3>3, <3>7, <4>1
      <4> QED
        BY <4>1, <4>2, ReorderedTwice
    <3>9. gap = 1 => j - 1 = k /\ j = k + 1
      BY <3>1, <3>4
    <3>10. C \in Seq(Int)
      BY <3>8 DEF Reordered
    <3>11. Good(C, k)
      BY <3>2, <3>7, <3>8, <3>9, <3>10
    <3> QED
      BY <3>1, <3>6, <3>10, <3>11
  <2>3. Loop(body, A, n) \in I[n]
    <3> HIDE DEF body, I
    <3> QED
      BY <1>7, <2>1, <2>2, LoopKeeps
  <2>4. Good(t, n)
    <3>1. n \in 0 .. n
      BY <1>7
    <3> HIDE DEF body, Good
    <3> QED
      BY <1>4, <2>3, <3>1
  <2>5. gap = 1 => n + 1 = Len(A)
    BY <1>2
  <2> QED
    BY <1>3, <2>4, <2>5
<1> QED
  BY <1>6, <1>7

\* doInsertionSort() sorts every list.
THEOREM DoInsertionSortSorts ==
  ASSUME NEW A \in Seq(Int)
  PROVE  SortedFrom(doInsertionSort(A), A)
<1>1. PICK t : t = SlideAll(A, 1)
  OBVIOUS
<1>2. Reordered(t, A, 1, Len(A)) /\ InOrder(t, 1, Len(A))
  <2>1. PICK g \in Nat \ {0} : g = 1
    OBVIOUS
  <2>2. Reordered(SlideAll(A, g), A, 1, Len(A)) /\ (g = 1 => InOrder(SlideAll(A, g), 1, Len(A)))
    BY SlideAllEnds
  <2> QED
    BY <1>1, <2>1, <2>2
<1>3. Ordered(t)
  BY <1>2 DEF InOrder, Ordered, Reordered
<1>4. SortedFrom(t, A)
  BY <1>2, <1>3 DEF SortedFrom, Reordered
<1> QED
  BY <1>1, <1>4 DEF doInsertionSort

\* doShellSort() sorts every list: the last of its gaps is 1.
THEOREM DoShellSortSorts ==
  ASSUME NEW A \in Seq(Int)
  PROVE  SortedFrom(doShellSort(A), A)
<1>1. PICK n \in Nat : n = 8
  OBVIOUS
<1> DEFINE body == [k \in 1 .. 8 |-> [B \in Seq(Int) |-> SlideAll(B, gaps[k])]]
           Good(B, k) == /\ Reordered(B, A, 1, Len(A))
                         /\ k = 8 => InOrder(B, 1, Len(A))
           I == [k \in 0 .. n |-> {B \in Seq(Int) : Good(B, k)}]
<1>2. \A k \in 1 .. 8 : gaps[k] \in Nat \ {0} /\ (k = 8 => gaps[k] = 1)
  <2>1. \A k \in 1 .. 8 : k = 1 \/ k = 2 \/ k = 3 \/ k = 4 \/ k = 5 \/ k = 6 \/ k = 7 \/ k = 8
    OBVIOUS
  <2> QED
    BY <2>1 DEF gaps
<1>3. A \in I[0]
  <2>1. Reordered(A, A, 1, Len(A))
    BY ReorderedSame
  <2>2. 0 \in 0 .. n /\ ~(0 = 8)
    BY <1>1
  <2> QED
    BY <2>1, <2>2
<1>4. ASSUME NEW k \in 1 .. n, NEW B \in I[k - 1] PROVE body[k][B] \in I[k]
  <2>1. k - 1 \in 0 .. n /\ k \in 0 .. n /\ k \in 1 .. 8
    BY <1>1
  <2>2. B \in Seq(Int) /\ Reordered(B, A, 1, Len(A))
    BY <1>4, <2>1
  <2>3. Len(B) = Len(A)
    BY <2>2 DEF Reordered
  <2>4. PICK g \in Nat \ {0} : g = gaps[k]
    BY <1>2, <2>1
  <2>5. PICK C : C = SlideAll(B, g)
    OBVIOUS
  <2>6. body[k][B] = C
    BY <2>1, <2>2, <2>4, <2>5
  <2>7. /\ Reordered(C, B, 1, Len(B))
        /\ g = 1 => InOrder(C, 1, Len(B))
    BY <2>2, <2>5, SlideAllEnds
  <2>8. Reordered(C, A, 1, Len(A))
    <3>1. PICK o \in Int, L \in Int : o = 1 /\ L = Len(A)
      OBVIOUS
    <3>2. Reordered(C, B, o, L) /\ Reordered(B, A, o, L)
      BY <2>2, <2>3, <2>7, <3>1
    <3> QED
      BY <3>1, <3>2, ReorderedTwice
  <2>9. C \in Seq(Int)
    BY <2>8 DEF Reordered
  <2>10. Good(C, k)
    BY <1>2, <2>1, <2>3, <2>4, <2>7, <2>8
  <2> QED
    BY <2>1, <2>6, <2>9, <2>10
<1>5. Loop(body, A, n) \in I[n]
  <2> HIDE DEF body, I
  <2> QED
    BY <1>3, <1>4, LoopKeeps
<1>6. PICK t : t = doShellSort(A)
  OBVIOUS
<1>7. t = Loop(body, A, n)
  BY <1>1, <1>6 DEF doShellSort
<1>8. Good(t, n)
  <2>1. n \in 0 .. n
    OBVIOUS
  <2> HIDE DEF body, Good
  <2> QED
    BY <1>5, <1>7, <2>1
<1>9. Reordered(t, A, 1, Len(A)) /\ InOrder(t, 1, Len(A))
  BY <1>1, <1>8
<1>10. Ordered(t)
  BY <1>9 DEF InOrder, Ordered, Reordered
<1>11. SortedFrom(t, A)
  BY <1>9, <1>10 DEF SortedFrom, Reordered
<1> QED
  BY <1>6, <1>11

-----------------------------------------------------------------------------
(* doQuickSort().                                                          *)

\* What Min and Max are.
LEMMA MinIs ==
  ASSUME NEW S \in SUBSET Nat, S # {}
  PROVE  Min(S) \in S /\ \A z \in S : Min(S) <= z
<1>1. \E x \in S : \A y \in S : x <= y
  BY Least
<1> QED
  BY <1>1 DEF Min

\* The greatest of the elements of a finite set, as Max returns it.
LEMMA MaxIs ==
  ASSUME NEW n \in Nat, NEW S \in SUBSET (1 .. n), S # {}
  PROVE  Max(S) \in S /\ \A z \in S : z <= Max(S)
<1> DEFINE T == {n - z : z \in S}
<1>1. T \in SUBSET Nat /\ T # {}
  OBVIOUS
<1>2. PICK t \in T : \A u \in T : t <= u
  <2> HIDE DEF T
  <2> QED
    BY <1>1, Least
<1>3. PICK x \in S : t = n - x
  BY <1>2
<1>4. \A z \in S : x >= z
  <2> TAKE z \in S
  <2>1. n - z \in T
    OBVIOUS
  <2>2. n - x <= n - z
    BY <1>2, <1>3, <2>1
  <2>3. x \in Int /\ z \in Int
    OBVIOUS
  <2> QED
    BY <2>2, <2>3
<1>5. PICK y : y = Max(S)
  OBVIOUS
<1>6. y \in S /\ \A z \in S : y >= z
  <2>1. y = CHOOSE w \in S : \A z \in S : w >= z
    BY <1>5 DEF Max
  <2>2. \E w \in S : \A z \in S : w >= z
    BY <1>4
  <2> QED
    BY <2>1, <2>2
<1>7. \A z \in S : z <= y
  BY <1>6
<1> QED
  BY <1>5, <1>6, <1>7

\* i and j on their way to each other from l and r, after k turns: what i has
\* passed is not greater than the pivot, what j has passed is not less.  Either
\* both have moved, or the pivot is between them.
Crossed(q, A, l, r, p, k) ==
  /\ q \in Crossing /\ Reordered(q.list, A, l, r)
  /\ q.i \in l .. r + 1 /\ q.j \in l - 1 .. r
  /\ \A x \in l .. q.i - 1 : q.list[x] <= p
  /\ \A x \in q.j + 1 .. r : p <= q.list[x]
  /\ (q.i > l /\ q.j < r) \/ \E m \in q.i .. q.j : q.list[m] = p
  /\ q.i > q.j \/ q.j - q.i <= (r - l) - k

\* Where the two searches stop.
Above(q, n, p) == Min({y \in q.i .. n : q.list[y] >= p})
Below(q, p)    == Max({z \in 1 .. q.j : q.list[z] <= p})

\* Both stop inside the part, and if the pivot is between i and j, before they
\* have passed each other.
LEMMA SearchesStop ==
  ASSUME NEW A \in Seq(Int), NEW r \in 1 .. Len(A), NEW l \in 1 .. r, NEW p \in Int,
         NEW k \in Int, NEW q, Crossed(q, A, l, r, p, k), ~(q.i > q.j)
  PROVE  /\ Above(q, Len(A), p) \in q.i .. r
         /\ q.list[Above(q, Len(A), p)] >= p
         /\ \A x \in l .. Above(q, Len(A), p) - 1 : q.list[x] <= p
         /\ Below(q, p) \in l .. q.j
         /\ q.list[Below(q, p)] <= p
         /\ \A x \in Below(q, p) + 1 .. r : p <= q.list[x]
         /\ Above(q, Len(A), p) > Below(q, p) => q.i > l /\ q.j < r
<1>1. PICK n \in Nat : n = Len(A)
  OBVIOUS
<1>2. PICK B : B = q.list
  OBVIOUS
<1>3. PICK i \in l .. r + 1 : i = q.i
  BY DEF Crossed
<1>4. PICK j \in l - 1 .. r : j = q.j
  BY DEF Crossed
<1>5. /\ B \in Seq(Int) /\ Len(B) = n
      /\ \A x \in l .. i - 1 : B[x] <= p
      /\ \A x \in j + 1 .. r : p <= B[x]
      /\ (i > l /\ j < r) \/ \E m \in i .. j : B[m] = p
  BY <1>1, <1>2, <1>3, <1>4 DEF Crossed, Reordered
<1>6. i <= j /\ r \in 1 .. n /\ i \in Int /\ j \in Int /\ l \in Int
  BY <1>1, <1>3, <1>4
<1>7. \A x \in 1 .. n : B[x] \in Int
  BY <1>5, ElementOfSeq
<1>8. \A a \in Int : (a >= p <=> p <= a) /\ (~(a >= p) => a <= p) /\ (~(a <= p) => p <= a)
                     /\ (a = p => a >= p /\ a <= p)
  OBVIOUS
<1> DEFINE S == {y \in i .. n : B[y] >= p}
           T == {z \in 1 .. j : B[z] <= p}
<1>9. \E y \in S : y <= r
  <2>1. CASE i > l /\ j < r
    <3>1. j + 1 \in i .. n /\ j + 1 \in 1 .. n /\ j + 1 \in j + 1 .. r /\ j + 1 <= r
      BY <1>6, <2>1
    <3>2. B[j + 1] >= p
      BY <1>5, <1>7, <1>8, <3>1
    <3> QED
      BY <3>1, <3>2
  <2>2. ASSUME NEW m \in i .. j, B[m] = p PROVE \E y \in S : y <= r
    <3>1. m \in i .. n /\ m \in 1 .. n /\ m <= r
      BY <1>6
    <3>2. B[m] >= p
      BY <1>7, <1>8, <2>2, <3>1
    <3> QED
      BY <3>1, <3>2
  <2> QED
    BY <1>5, <2>1, <2>2
<1>10. \E z \in T : z >= l
  <2>1. CASE i > l /\ j < r
    <3>1. i - 1 \in 1 .. j /\ i - 1 \in l .. i - 1 /\ i - 1 >= l
      BY <1>6, <2>1
    <3>2. B[i - 1] <= p
      BY <1>5, <3>1
    <3> QED
      BY <3>1, <3>2
  <2>2. ASSUME NEW m \in i .. j, B[m] = p PROVE \E z \in T : z >= l
    <3>1. m \in 1 .. j /\ m \in 1 .. n /\ m >= l
      BY <1>6
    <3>2. B[m] <= p
      BY <1>7, <1>8, <2>2, <3>1
    <3> QED
      BY <3>1, <3>2
  <2> QED
    BY <1>5, <2>1, <2>2
<1>11. PICK x : x = Above(q, Len(A), p)
  OBVIOUS
<1>12. PICK y : y = Below(q, p)
  OBVIOUS
<1>13. x \in S /\ \A z \in S : x <= z
  <2>1. x = Min(S)
    BY <1>1, <1>2, <1>3, <1>11 DEF Above
  <2>2. S \in SUBSET Nat
    <3>1. i >= 1
      BY <1>3
    <3>2. \A z \in i .. n : z \in Nat
      BY <1>6, <3>1
    <3> QED
      BY <3>2
  <2>3. S # {}
    BY <1>9
  <2> HIDE DEF S
  <2> QED
    BY <2>1, <2>2, <2>3, MinIs
<1>14. y \in T /\ \A z \in T : z <= y
  <2>1. y = Max(T)
    BY <1>2, <1>4, <1>12 DEF Below
  <2>2. T \in SUBSET (1 .. n) /\ T # {}
    BY <1>6, <1>10
  <2> HIDE DEF T
  <2> QED
    BY <2>1, <2>2, MaxIs
<1>15. x \in i .. r /\ x \in Int /\ y \in l .. j /\ y \in Int
  <2>1. PICK w \in S : w <= r
    BY <1>9
  <2>2. PICK z \in T : z >= l
    BY <1>10
  <2>3. x <= w /\ z <= y
    BY <1>13, <1>14, <2>1, <2>2
  <2>4. x \in i .. n /\ y \in 1 .. j /\ w \in Int /\ z \in Int
    BY <1>13, <1>14, <2>1, <2>2
  <2> QED
    BY <1>6, <2>1, <2>2, <2>3, <2>4
<1>16. B[x] >= p /\ B[y] <= p
  BY <1>13, <1>14
<1>17. ASSUME NEW w \in l .. x - 1 PROVE B[w] <= p
  <2>1. CASE w < i
    <3>1. w \in l .. i - 1
      BY <1>6, <2>1
    <3> QED
      BY <1>5, <3>1
  <2>2. CASE ~(w < i)
    <3>1. w \in i .. n /\ w \in 1 .. n /\ ~(x <= w)
      BY <1>6, <1>15, <2>2
    <3>2. ~(B[w] >= p)
      BY <1>13, <3>1
    <3> QED
      BY <1>7, <1>8, <3>1, <3>2
  <2> QED
    BY <2>1, <2>2
<1>18. ASSUME NEW w \in y + 1 .. r PROVE p <= B[w]
  <2>1. CASE w > j
    <3>1. w \in j + 1 .. r
      BY <1>6, <2>1
    <3> QED
      BY <1>5, <3>1
  <2>2. CASE ~(w > j)
    <3>1. w \in 1 .. j /\ w \in 1 .. n /\ ~(w <= y)
      BY <1>6, <1>15, <2>2
    <3>2. ~(B[w] <= p)
      BY <1>14, <3>1
    <3> QED
      BY <1>7, <1>8, <3>1, <3>2
  <2> QED
    BY <2>1, <2>2
<1>19. ASSUME x > y PROVE i > l /\ j < r
  <2>1. ASSUME NEW m \in i .. j, B[m] = p PROVE FALSE
    <3>1. m \in i .. n /\ m \in 1 .. j /\ m \in 1 .. n /\ m \in Int
      BY <1>6
    <3>2. B[m] >= p /\ B[m] <= p
      BY <1>7, <1>8, <2>1, <3>1
    <3>3. x <= m /\ m <= y
      BY <1>13, <1>14, <3>1, <3>2
    <3> QED
      BY <1>15, <1>19, <3>1, <3>3
  <2> QED
    BY <1>5, <2>1
<1>20. /\ x \in q.i .. r /\ q.list[x] >= p
       /\ \A w \in l .. x - 1 : q.list[w] <= p
       /\ y \in l .. q.j /\ q.list[y] <= p
       /\ \A w \in y + 1 .. r : p <= q.list[w]
       /\ x > y => q.i > l /\ q.j < r
  BY <1>2, <1>3, <1>4, <1>15, <1>16, <1>17, <1>18, <1>19
<1> QED
  BY <1>11, <1>12, <1>20

\* One turn: i and j stop and what they stop at is exchanged.
CrossTurn(q, n, p) ==
  LET x == Above(q, n, p)
      y == Below(q, p)
  IN  IF q.i > q.j THEN q
      ELSE IF x <= y
      THEN [list |-> Swap(q.list, x, y), i |-> x + 1, j |-> y - 1]
      ELSE [list |-> q.list, i |-> x, j |-> y]

\* Where i and j are, as long as they have not passed each other.
LEMMA StillApart ==
  ASSUME NEW q, NEW A, NEW l, NEW r, NEW p, NEW k, Crossed(q, A, l, r, p, k), ~(q.i > q.j)
  PROVE  /\ q.i \in l .. r + 1 /\ q.j \in l - 1 .. r /\ q.j - q.i <= (r - l) - k
         /\ q.list \in Seq(Int) /\ Len(q.list) = Len(A) /\ Reordered(q.list, A, l, r)
BY Zenon DEF Crossed, Reordered

\* An exchange brings i and j closer.
LEMMA Closer ==
  ASSUME NEW a \in Int, NEW b \in Int, NEW c \in Int, NEW d \in Int, NEW e \in Int,
         NEW f \in Int, NEW g \in Int,
         a - b <= (c - d) - (e - 1), b <= f, g <= a
  PROVE  (g - 1) - (f + 1) <= (c - d) - e
OBVIOUS

\* After it they are still where they may be.
LEMMA StillThere ==
  ASSUME NEW l \in Int, NEW r \in Int, NEW x \in Int, NEW y \in Int,
         l <= x, x <= r, l <= y, y <= r
  PROVE  x + 1 \in l .. r + 1 /\ y - 1 \in l - 1 .. r /\ x + 1 > l /\ y - 1 < r
OBVIOUS

\* The turn that exchanges.
LEMMA CrossExchanges ==
  ASSUME NEW A \in Seq(Int), NEW r \in 1 .. Len(A), NEW l \in 1 .. r, NEW p \in Int,
         NEW k \in Nat, NEW q, Crossed(q, A, l, r, p, k - 1), ~(q.i > q.j),
         NEW x \in q.i .. r, NEW y \in l .. q.j, x <= y,
         q.list[x] >= p, q.list[y] <= p,
         \A w \in l .. x - 1 : q.list[w] <= p,
         \A w \in y + 1 .. r : p <= q.list[w]
  PROVE  Crossed([list |-> Swap(q.list, x, y), i |-> x + 1, j |-> y - 1],
                 A, l, r, p, k)
<1>1. PICK n \in Nat : n = Len(A)
  OBVIOUS
<1>2. PICK B : B = q.list
  OBVIOUS
<1>3. PICK i \in l .. r + 1, j \in l - 1 .. r : i = q.i /\ j = q.j
  BY StillApart
<1>4. /\ B \in Seq(Int) /\ Len(B) = n /\ Reordered(B, A, l, r)
      /\ j - i <= (r - l) - (k - 1)
  <2>1. /\ q.list \in Seq(Int) /\ Len(q.list) = Len(A) /\ Reordered(q.list, A, l, r)
        /\ q.j - q.i <= (r - l) - (k - 1)
    BY StillApart, Zenon
  <2> QED
    BY <1>1, <1>2, <1>3, <2>1, Zenon
<1>5. r \in 1 .. n /\ l \in 1 .. r /\ l \in 1 .. n
  BY <1>1
<1>6. i \in Int /\ j \in Int /\ x \in i .. r /\ y \in l .. j /\ i <= j
  BY <1>3, <1>5
<1>7. /\ x \in Int /\ y \in Int /\ l <= i /\ j <= r /\ i <= x /\ y <= j /\ l <= y /\ x <= r
      /\ 1 <= l /\ r <= n /\ l <= x /\ y <= r /\ l \in Int /\ r \in Int
  BY <1>3, <1>5, <1>6
<1>8. x \in 1 .. n /\ y \in 1 .. n
  BY <1>7
<1>9. PICK C : C = Swap(B, x, y)
  OBVIOUS
<1>10. IsExchanged(C, B, x, y)
  <2>1. x \in 1 .. Len(B) /\ y \in 1 .. Len(B)
    BY <1>4, <1>8
  <2> QED
    BY <1>4, <1>9, <2>1, ExchangedIs
<1>11. /\ C \in Seq(Int) /\ Len(C) = n
       /\ \A w \in 1 .. n : C[w] = IF w = y THEN B[x] ELSE IF w = x THEN B[y] ELSE B[w]
  BY <1>4, <1>10 DEF IsExchanged
<1>12. Reordered(C, A, l, r)
  <2>1. x \in 1 .. Len(B) /\ y \in 1 .. Len(B)
    BY <1>4, <1>8
  <2>2. Reordered(C, B, l, r)
    BY <1>4, <1>7, <1>10, <2>1, ReorderedSwap
  <2> QED
    BY <1>4, <1>7, <2>2, ReorderedTwice
<1>13. B[x] \in Int /\ p <= B[x] /\ B[y] <= p
  <2>1. B[x] \in Int
    BY <1>4, <1>8, ElementOfSeq
  <2>2. \A a \in Int : a >= p => p <= a
    OBVIOUS
  <2> QED
    BY <1>2, <2>1, <2>2
<1>14. ASSUME NEW w \in l .. (x + 1) - 1 PROVE C[w] <= p
  <2>1. w \in 1 .. n /\ w <= x
    BY <1>7
  <2>2. CASE w = x
    <3>1. C[w] = B[y]
      <4>1. CASE x = y
        BY <1>11, <2>1, <2>2, <4>1
      <4>2. CASE x # y
        BY <1>11, <2>1, <2>2, <4>2
      <4> QED
        BY <4>1, <4>2
    <3> QED
      BY <1>13, <3>1
  <2>3. CASE w # x
    <3>1. w \in l .. x - 1 /\ w # y
      BY <1>7, <2>1, <2>3
    <3> QED
      BY <1>2, <1>11, <2>1, <2>3, <3>1
  <2> QED
    BY <2>2, <2>3
<1>15. ASSUME NEW w \in (y - 1) + 1 .. r PROVE p <= C[w]
  <2>1. w \in 1 .. n /\ y <= w
    BY <1>7
  <2>2. CASE w = y
    <3>1. C[w] = B[x]
      BY <1>11, <2>1, <2>2, Zenon
    <3> QED
      BY <1>13, <3>1
  <2>3. CASE w # y
    <3>1. w \in y + 1 .. r /\ w # x
      BY <1>7, <2>1, <2>3, SMTT(30)
    <3> QED
      BY <1>2, <1>11, <2>1, <2>3, <3>1
  <2> QED
    BY <2>2, <2>3
<1>16. PICK u : u = [list |-> C, i |-> x + 1, j |-> y - 1]
  OBVIOUS
<1>17. u \in Crossing /\ u.list = C /\ u.i = x + 1 /\ u.j = y - 1
  BY <1>7, <1>11, <1>16 DEF Crossing
<1>18. /\ x + 1 \in l .. r + 1 /\ y - 1 \in l - 1 .. r /\ x + 1 > l /\ y - 1 < r
       /\ (y - 1) - (x + 1) <= (r - l) - k
  <2>1. x + 1 \in l .. r + 1 /\ y - 1 \in l - 1 .. r /\ x + 1 > l /\ y - 1 < r
    BY <1>7, StillThere, Zenon
  <2>2. k \in Int /\ i \in Int /\ j \in Int /\ j - i <= (r - l) - (k - 1)
    BY <1>4, <1>6
  <2>3. PICK e \in Int : e = k
    BY <2>2
  <2>4. j - i <= (r - l) - (e - 1) /\ i <= x /\ y <= j
    BY <1>7, <2>2, <2>3
  <2>5. (y - 1) - (x + 1) <= (r - l) - e
    BY <1>6, <1>7, <2>4, Closer, Zenon
  <2>6. (y - 1) - (x + 1) <= (r - l) - k
    BY <2>3, <2>5
  <2> QED
    BY <2>1, <2>6
<1>19. Crossed(u, A, l, r, p, k)
  BY <1>12, <1>14, <1>15, <1>17, <1>18 DEF Crossed
<1> QED
  BY <1>2, <1>9, <1>16, <1>19

\* The turn after which they have passed each other.
LEMMA CrossPasses ==
  ASSUME NEW A \in Seq(Int), NEW r \in 1 .. Len(A), NEW l \in 1 .. r, NEW p \in Int,
         NEW k \in Nat, NEW q, Crossed(q, A, l, r, p, k - 1),
         NEW x \in q.i .. r, NEW y \in l .. q.j, ~(x <= y), q.i > l, q.j < r,
         \A w \in l .. x - 1 : q.list[w] <= p,
         \A w \in y + 1 .. r : p <= q.list[w]
  PROVE  Crossed([list |-> q.list, i |-> x, j |-> y], A, l, r, p, k)
<1>1. PICK i \in l .. r + 1 : i = q.i
  BY DEF Crossed
<1>2. PICK j \in l - 1 .. r : j = q.j
  BY DEF Crossed
<1>3. PICK B : B = q.list
  OBVIOUS
<1>4. B \in Seq(Int) /\ Reordered(B, A, l, r)
  BY <1>3 DEF Crossed, Reordered
<1>5. x \in i .. r /\ y \in l .. j /\ i > l /\ j < r /\ l \in Int /\ r \in Int
  BY <1>1, <1>2
<1>6. /\ x \in Int /\ y \in Int /\ x > y /\ x \in l .. r + 1 /\ y \in l - 1 .. r
      /\ x > l /\ y < r
  BY <1>1, <1>2, <1>5
<1>7. PICK u : u = [list |-> B, i |-> x, j |-> y]
  OBVIOUS
<1>8. u \in Crossing /\ u.list = B /\ u.i = x /\ u.j = y
  BY <1>4, <1>6, <1>7 DEF Crossing
<1>9. Crossed(u, A, l, r, p, k)
  BY <1>3, <1>4, <1>6, <1>8 DEF Crossed
<1> QED
  BY <1>3, <1>7, <1>9

\* Either way, and when nothing is left to do.
LEMMA CrossTurns ==
  ASSUME NEW A \in Seq(Int), NEW r \in 1 .. Len(A), NEW l \in 1 .. r, NEW p \in Int,
         NEW k \in Nat, NEW q, Crossed(q, A, l, r, p, k - 1)
  PROVE  Crossed(CrossTurn(q, Len(A), p), A, l, r, p, k)
<1>1. CASE q.i > q.j
  <2>1. CrossTurn(q, Len(A), p) = q
    BY <1>1 DEF CrossTurn
  <2>2. Crossed(q, A, l, r, p, k)
    BY <1>1 DEF Crossed
  <2> QED
    BY <2>1, <2>2
<1>2. CASE ~(q.i > q.j)
  <2>1. PICK x : x = Above(q, Len(A), p)
    OBVIOUS
  <2>2. PICK y : y = Below(q, p)
    OBVIOUS
  <2>3. PICK m \in Int : m = k - 1
    OBVIOUS
  <2>4. Crossed(q, A, l, r, p, m)
    BY <2>3
  <2>5. /\ x \in q.i .. r /\ q.list[x] >= p
        /\ \A w \in l .. x - 1 : q.list[w] <= p
        /\ y \in l .. q.j /\ q.list[y] <= p
        /\ \A w \in y + 1 .. r : p <= q.list[w]
        /\ x > y => q.i > l /\ q.j < r
    BY <1>2, <2>1, <2>2, <2>4, SearchesStop
  <2>6. PICK u : u = CrossTurn(q, Len(A), p)
    OBVIOUS
  <2>7. CASE x <= y
    <3>1. u = [list |-> Swap(q.list, x, y), i |-> x + 1, j |-> y - 1]
      BY <1>2, <2>1, <2>2, <2>6, <2>7 DEF CrossTurn
    <3>2. Crossed(u, A, l, r, p, k)
      BY <1>2, <2>5, <2>7, <3>1, CrossExchanges
    <3> QED
      BY <2>6, <3>2
  <2>8. CASE ~(x <= y)
    <3>1. u = [list |-> q.list, i |-> x, j |-> y]
      BY <1>2, <2>1, <2>2, <2>6, <2>8 DEF CrossTurn
    <3>2. q.i > l /\ q.j < r
      <4>1. x \in Int /\ y \in Int
        BY <2>5 DEF Crossed
      <4> QED
        BY <2>5, <2>8, <4>1
    <3>3. Crossed(u, A, l, r, p, k)
      BY <2>5, <2>8, <3>1, <3>2, CrossPasses
    <3> QED
      BY <2>6, <3>3
  <2> QED
    BY <2>7, <2>8
<1> QED
  BY <1>1, <1>2

\* What Cross leaves: i and j have passed each other and neither is where it
\* began.
Parted(c, A, l, r) ==
  /\ c \in Crossing /\ Reordered(c.list, A, l, r)
  /\ c.i \in l + 1 .. r + 1 /\ c.j \in l - 1 .. r - 1 /\ c.j < c.i
  /\ \E p \in Int : /\ \A x \in l .. c.i - 1 : c.list[x] <= p
                    /\ \A x \in c.j + 1 .. r : p <= c.list[x]

\* i and j pass each other: what is left of i is at most the pivot, what is right
\* of j at least.
LEMMA CrossEnds ==
  ASSUME NEW A \in Seq(Int), NEW r \in 1 .. Len(A), NEW l \in 1 .. r
  PROVE  Parted(Cross(A, l, r), A, l, r)
<1>1. PICK n \in Nat : n = Len(A)
  OBVIOUS
<1>2. PICK m \in l .. r : m = (l + r) \div 2
  <2>1. (l + r) \div 2 \in l .. r
    OBVIOUS
  <2> QED
    BY <2>1
<1>3. /\ m \in 1 .. Len(A) /\ m \in Int /\ l \in Int /\ r \in Int /\ l <= r
      /\ 1 <= l /\ r <= n
  BY <1>1
<1>4. PICK p \in Int : p = A[m]
  BY <1>3, ElementOfSeq
<1> DEFINE turn == [q \in Crossing |->
                 LET x == Min({y \in q.i .. Len(A) : q.list[y] >= p})
                     y == Max({z \in 1 .. q.j : q.list[z] <= p})
                 IN  IF q.i > q.j THEN q
                     ELSE IF x <= y
                     THEN [list |-> Swap(q.list, x, y), i |-> x + 1, j |-> y - 1]
                     ELSE [list |-> q.list, i |-> x, j |-> y]]
           body == [k \in 1 .. Len(A) |-> turn]
           start == [list |-> A, i |-> l, j |-> r]
           I == [k \in 0 .. n |-> {q \in Crossing : Crossed(q, A, l, r, p, k)}]
<1>5. PICK c : c = Cross(A, l, r)
  OBVIOUS
<1>6. c = Loop(body, start, n)
  BY <1>1, <1>2, <1>4, <1>5 DEF Cross
<1>7. start \in I[0]
  <2>1. start \in Crossing /\ start.list = A /\ start.i = l /\ start.j = r
    BY <1>3 DEF Crossing
  <2>2. Reordered(A, A, l, r)
    BY <1>3, ReorderedSame
  <2>3. /\ l \in l .. r + 1 /\ r \in l - 1 .. r /\ r - l <= (r - l) - 0
        /\ \A x \in l .. l - 1 : FALSE
        /\ \A x \in r + 1 .. r : FALSE
    BY <1>3
  <2>4. \E w \in l .. r : A[w] = p
    BY <1>4
  <2>5. Crossed(start, A, l, r, p, 0)
    <3> HIDE DEF start
    <3> QED
      BY <2>1, <2>2, <2>3, <2>4 DEF Crossed
  <2> QED
    BY <2>1, <2>5
<1>8. ASSUME NEW k \in 1 .. n, NEW q \in I[k - 1] PROVE body[k][q] \in I[k]
  <2>1. k - 1 \in 0 .. n /\ k \in 0 .. n /\ k \in 1 .. Len(A) /\ k \in Nat
    BY <1>1
  <2>2. q \in Crossing /\ Crossed(q, A, l, r, p, k - 1)
    BY <1>8, <2>1
  <2>3. PICK u : u = body[k][q]
    OBVIOUS
  <2>4. u = CrossTurn(q, Len(A), p)
    BY <2>1, <2>2, <2>3 DEF CrossTurn, Above, Below
  <2>5. Crossed(u, A, l, r, p, k)
    BY <2>1, <2>2, <2>4, CrossTurns
  <2>6. u \in Crossing
    BY <2>5 DEF Crossed
  <2> HIDE DEF body
  <2> QED
    BY <2>1, <2>3, <2>5, <2>6
<1>9. Loop(body, start, n) \in I[n]
  <2> HIDE DEF body, I, start
  <2> QED
    BY <1>7, <1>8, LoopKeeps
<1>10. Crossed(c, A, l, r, p, n)
  <2>1. n \in 0 .. n
    OBVIOUS
  <2> HIDE DEF body, start
  <2> QED
    BY <1>6, <1>9, <2>1
<1>11. PICK i \in l .. r + 1 : i = c.i
  BY <1>10 DEF Crossed
<1>12. PICK j \in l - 1 .. r : j = c.j
  BY <1>10 DEF Crossed
<1>13. i > j /\ i \in Int /\ j \in Int
  <2>1. i > j \/ j - i <= (r - l) - n
    BY <1>10, <1>11, <1>12 DEF Crossed
  <2> QED
    BY <1>3, <1>11, <1>12, <2>1
<1>14. i > l /\ j < r
  <2>1. (i > l /\ j < r) \/ \E w \in i .. j : c.list[w] = p
    BY <1>10, <1>11, <1>12 DEF Crossed
  <2>2. ~ \E w \in i .. j : c.list[w] = p
    BY <1>13
  <2> QED
    BY <2>1, <2>2
<1>15. c.i \in l + 1 .. r + 1 /\ c.j \in l - 1 .. r - 1 /\ c.j < c.i
  BY <1>3, <1>11, <1>12, <1>13, <1>14
<1>16. Parted(c, A, l, r)
  BY <1>10, <1>15 DEF Crossed, Parted
<1> QED
  BY <1>5, <1>16

\* The part of s from l to r is sorted in t, and nothing else is changed.
PartSorted(t, s, l, r) == Reordered(t, s, l, r) /\ InOrder(t, l, r)

\* A part of at most one number is sorted.
LEMMA ShortPart ==
  ASSUME NEW s \in Seq(Int), NEW l \in 1 .. Len(s), NEW r \in Int, r <= Len(s), r <= l
  PROVE  PartSorted(s, s, l, r)
<1>1. l \in Int /\ Reordered(s, s, l, r)
  BY ReorderedSame
<1>2. ASSUME NEW x \in l .. r, NEW y \in l .. r, x <= y PROVE s[x] <= s[y]
  <2>1. x = l /\ y = l
    BY <1>1
  <2>2. s[l] \in Int
    BY ElementOfSeq
  <2> QED
    BY <2>1, <2>2
<1> QED
  BY <1>1, <1>2 DEF PartSorted, InOrder

\* When both sides of a parted list are sorted, it is.
LEMMA SidesSorted ==
  ASSUME NEW A \in Seq(Int), NEW r \in 1 .. Len(A), NEW l \in 1 .. r,
         NEW c, Parted(c, A, l, r),
         NEW B, PartSorted(B, c.list, l, c.j), NEW D, PartSorted(D, B, c.i, r)
  PROVE  PartSorted(D, A, l, r)
<1>1. PICK n \in Nat : n = Len(A)
  OBVIOUS
<1>2. PICK C : C = c.list
  OBVIOUS
<1>3. PICK i \in l + 1 .. r + 1 : i = c.i
  BY DEF Parted
<1>4. PICK j \in l - 1 .. r - 1 : j = c.j
  BY DEF Parted
<1>5. PICK p \in Int : /\ \A x \in l .. i - 1 : C[x] <= p
                       /\ \A x \in j + 1 .. r : p <= C[x]
  BY <1>2, <1>3, <1>4 DEF Parted
<1>6. /\ l \in Int /\ r \in Int /\ i \in Int /\ j \in Int /\ j < i
      /\ 1 <= l /\ l < i /\ i <= r + 1 /\ j < r /\ r <= n /\ l <= r
  BY <1>1, <1>3, <1>4 DEF Parted
<1>7. /\ Reordered(C, A, l, r) /\ Reordered(B, C, l, j) /\ Reordered(D, B, i, r)
      /\ InOrder(B, l, j) /\ InOrder(D, i, r)
  BY <1>2, <1>3, <1>4 DEF Parted, PartSorted
<1>8. /\ C \in Seq(Int) /\ Len(C) = n /\ B \in Seq(Int) /\ Len(B) = n
      /\ D \in Seq(Int) /\ Len(D) = n
  BY <1>1, <1>7 DEF Reordered
<1>9. Reordered(D, A, l, r)
  <2>1. Reordered(B, C, l, r)
    BY <1>6, <1>7, <1>8, ReorderedWider
  <2>2. Reordered(D, B, l, r)
    BY <1>6, <1>7, <1>8, ReorderedWider
  <2>3. Reordered(B, A, l, r)
    BY <1>6, <1>7, <2>1, ReorderedTwice
  <2> QED
    BY <1>6, <2>2, <2>3, ReorderedTwice
<1>10. /\ \A x \in 1 .. n : x < l \/ x > j => B[x] = C[x]
       /\ \A x \in 1 .. n : l <= x /\ x <= j =>
            \E y \in 1 .. n : l <= y /\ y <= j /\ B[x] = C[y]
  <2>2. /\ \A x \in 1 .. Len(C) : x < l \/ x > j => B[x] = C[x]
        /\ \A x \in 1 .. Len(C) : l <= x /\ x <= j =>
             \E y \in 1 .. Len(C) : l <= y /\ y <= j /\ B[x] = C[y]
    <3>1. C \in Seq(Int) /\ l \in Int /\ j \in Int /\ Reordered(B, C, l, j)
      BY <1>6, <1>7, <1>8
    <3> QED
      BY <3>1, ReorderedFrom
  <2> QED
    BY <1>8, <2>2
<1>11. /\ \A x \in 1 .. n : x < i \/ x > r => D[x] = B[x]
       /\ \A x \in 1 .. n : i <= x /\ x <= r =>
            \E y \in 1 .. n : i <= y /\ y <= r /\ D[x] = B[y]
  <2>1. /\ \A x \in 1 .. Len(B) : x < i \/ x > r => D[x] = B[x]
        /\ \A x \in 1 .. Len(B) : i <= x /\ x <= r =>
             \E y \in 1 .. Len(B) : i <= y /\ y <= r /\ D[x] = B[y]
    <3>1. B \in Seq(Int) /\ i \in Int /\ r \in Int /\ Reordered(D, B, i, r)
      BY <1>6, <1>7, <1>8
    <3> QED
      BY <3>1, ReorderedFrom
  <2> QED
    BY <1>8, <2>1
<1>12. ASSUME NEW x \in l .. i - 1 PROVE x \in 1 .. n /\ D[x] = B[x] /\ D[x] <= p
  <2>1. x \in 1 .. n /\ x < i /\ x \in Int
    BY <1>6
  <2>2. D[x] = B[x]
    BY <1>11, <2>1
  <2>3. CASE x <= j
    <3>1. l <= x
      BY <1>6
    <3>2. PICK y \in 1 .. n : l <= y /\ y <= j /\ B[x] = C[y]
      BY <1>10, <2>1, <2>3, <3>1
    <3>3. y \in l .. i - 1
      BY <1>6, <3>2
    <3> QED
      BY <1>5, <2>1, <2>2, <3>2, <3>3
  <2>4. CASE ~(x <= j)
    <3>1. x > j
      BY <1>6, <2>1, <2>4
    <3>2. B[x] = C[x]
      BY <1>10, <2>1, <3>1
    <3> QED
      BY <1>5, <2>1, <2>2, <3>2
  <2> QED
    BY <2>3, <2>4
<1>13. ASSUME NEW x \in i .. r PROVE x \in 1 .. n /\ p <= D[x]
  <2>1. x \in 1 .. n /\ i <= x /\ x <= r
    BY <1>6
  <2>2. PICK y \in 1 .. n : i <= y /\ y <= r /\ D[x] = B[y]
    BY <1>11, <2>1
  <2>3. y > j /\ y \in j + 1 .. r
    BY <1>6, <2>2, SMTT(30)
  <2>4. B[y] = C[y]
    BY <1>10, <2>3
  <2> QED
    BY <1>5, <2>1, <2>2, <2>3, <2>4
<1>14. ASSUME NEW x \in j + 1 .. i - 1, l <= x PROVE p <= D[x]
  <2>1. x \in l .. i - 1 /\ x > j /\ x \in j + 1 .. r
    BY <1>6, <1>14
  <2>2. x \in 1 .. n /\ D[x] = B[x]
    BY <1>12, <2>1
  <2>3. B[x] = C[x]
    BY <1>10, <2>1, <2>2
  <2> QED
    BY <1>5, <2>1, <2>2, <2>3
<1>15. \A x \in 1 .. n : D[x] \in Int
  BY <1>8, ElementOfSeq
<1>16. \A a, b \in Int : a <= p /\ p <= b => a <= b
  OBVIOUS
<1>17. ASSUME NEW x \in l .. r, NEW y \in l .. r, x <= y PROVE D[x] <= D[y]
  <2>1. x \in 1 .. n /\ y \in 1 .. n /\ x \in Int /\ y \in Int /\ l <= x /\ l <= y
    BY <1>6
  <2>2. CASE y <= j
    <3>1. x \in l .. j /\ y \in l .. j /\ x \in l .. i - 1 /\ y \in l .. i - 1
      BY <1>6, <1>17, <2>1, <2>2
    <3>2. B[x] <= B[y]
      BY <1>7, <1>17, <3>1 DEF InOrder
    <3> QED
      BY <1>12, <3>1, <3>2
  <2>3. CASE ~(y <= j) /\ y < i
    <3>1. x \in l .. i - 1 /\ y \in j + 1 .. i - 1
      BY <1>6, <1>17, <2>1, <2>3
    <3>2. D[x] <= p /\ p <= D[y]
      BY <1>12, <1>14, <2>1, <3>1
    <3> QED
      BY <1>15, <1>16, <2>1, <3>2
  <2>4. CASE ~(y < i) /\ x < i
    <3>1. x \in l .. i - 1 /\ y \in i .. r
      BY <1>6, <1>17, <2>1, <2>4
    <3>2. D[x] <= p /\ p <= D[y]
      BY <1>12, <1>13, <3>1
    <3> QED
      BY <1>15, <1>16, <2>1, <3>2
  <2>5. CASE ~(y < i) /\ ~(x < i)
    <3>1. x \in i .. r /\ y \in i .. r
      BY <1>6, <2>1, <2>5
    <3> QED
      BY <1>7, <1>17, <3>1 DEF InOrder
  <2> QED
    BY <2>2, <2>3, <2>4, <2>5
<1> QED
  BY <1>9, <1>17 DEF PartSorted, InOrder

\* The part of s from l to r.
Part(s, l, r) == [list |-> s, left |-> l, right |-> r]

\* One call of doQuickSort(), by what the calls it makes return.
QuickStep(g, q) ==
  LET c == Cross(q.list, q.left, q.right)
      B == IF q.left < c.j THEN g[Part(c.list, q.left, c.j)] ELSE c.list
  IN  IF c.i < q.right THEN g[Part(B, c.i, q.right)] ELSE B

\* What a call is to return.
QuickGood(t, q) == PartSorted(t, q.list, q.left, q.right)

\* The parts of less than d + 1 numbers.
SmallParts(n, d) == {q \in Parts(n) : q.right - q.left < d}

\* What a part is.
LEMMA PartIs ==
  ASSUME NEW n \in Nat, NEW q \in Parts(n)
  PROVE  /\ q.list \in Seq(Int) /\ Len(q.list) = n /\ q.left \in 1 .. n /\ q.right \in 1 .. n
         /\ q.left <= q.right /\ q.right \in 1 .. Len(q.list) /\ q.left \in 1 .. q.right
BY DEF Parts

\* The left side is a shorter part, and so is the right side.
LEMMA SidesAreParts ==
  ASSUME NEW n \in Nat, NEW q \in Parts(n), NEW d \in Int, q.right - q.left <= d,
         NEW c, Parted(c, q.list, q.left, q.right), NEW s \in Seq(Int), Len(s) = n
  PROVE  /\ q.left < c.j => Part(s, q.left, c.j) \in SmallParts(n, d)
         /\ c.i < q.right => Part(s, c.i, q.right) \in SmallParts(n, d)
<1>1. PICK l \in 1 .. n : l = q.left
  BY PartIs
<1>2. PICK r \in 1 .. n : r = q.right
  BY PartIs
<1>3. PICK i \in l + 1 .. r + 1 : i = c.i
  BY <1>1, <1>2 DEF Parted
<1>4. PICK j \in l - 1 .. r - 1 : j = c.j
  BY <1>1, <1>2 DEF Parted
<1>5. i \in Int /\ j \in Int /\ r - l <= d
  BY <1>1, <1>2, <1>3, <1>4
<1>6. ASSUME l < j PROVE Part(s, l, j) \in SmallParts(n, d)
  <2>1. j \in 1 .. n /\ l <= j /\ j - l < d
    BY <1>4, <1>5, <1>6
  <2> QED
    BY <2>1 DEF Part, SmallParts, Parts
<1>7. ASSUME i < r PROVE Part(s, i, r) \in SmallParts(n, d)
  <2>1. i \in 1 .. n /\ i <= r /\ r - i < d
    BY <1>3, <1>5, <1>7
  <2> QED
    BY <2>1 DEF Part, SmallParts, Parts
<1> QED
  BY <1>1, <1>2, <1>3, <1>4, <1>6, <1>7

\* A call sorts its part if the calls for shorter parts do.
LEMMA QuickStepSorts ==
  ASSUME NEW n \in Nat, NEW q \in Parts(n), NEW g,
         \A u \in SmallParts(n, q.right - q.left) : QuickGood(g[u], u)
  PROVE  QuickGood(QuickStep(g, q), q)
<1>1. PICK A \in Seq(Int) : A = q.list /\ Len(A) = n
  BY PartIs
<1>2. PICK l \in 1 .. n : l = q.left
  BY PartIs
<1>3. PICK r \in 1 .. n : r = q.right
  BY PartIs
<1>4. l <= r /\ l \in Int /\ r \in Int /\ r \in 1 .. Len(A) /\ l \in 1 .. r
  BY <1>1, <1>2, <1>3, PartIs
<1>5. PICK d \in Int : d = r - l
  BY <1>4
<1>6. \A u \in SmallParts(n, d) : QuickGood(g[u], u)
  BY <1>2, <1>3, <1>5
<1>7. PICK c : c = Cross(A, l, r)
  OBVIOUS
<1>8. Parted(c, A, l, r)
  BY <1>4, <1>7, CrossEnds
<1>9. PICK C : C = c.list
  OBVIOUS
<1>10. C \in Seq(Int) /\ Len(C) = n
  BY <1>1, <1>8, <1>9 DEF Parted, Reordered
<1>11. /\ c.i \in l + 1 .. r + 1 /\ c.j \in l - 1 .. r - 1 /\ c.i \in Int /\ c.j \in Int
       /\ c.j < c.i
  BY <1>4, <1>8 DEF Parted
<1>12. \A s \in Seq(Int) : Len(s) = n =>
         /\ l < c.j => Part(s, l, c.j) \in SmallParts(n, d)
         /\ c.i < r => Part(s, c.i, r) \in SmallParts(n, d)
  <2>1. q.right - q.left <= d /\ Parted(c, q.list, q.left, q.right)
    BY <1>1, <1>2, <1>3, <1>4, <1>5, <1>8
  <2>2. \A s \in Seq(Int) : Len(s) = n =>
         /\ q.left < c.j => Part(s, q.left, c.j) \in SmallParts(n, d)
         /\ c.i < q.right => Part(s, c.i, q.right) \in SmallParts(n, d)
    BY <2>1, SidesAreParts
  <2> QED
    BY <1>2, <1>3, <2>2
<1>13. \A s, a, b : Part(s, a, b).list = s /\ Part(s, a, b).left = a /\ Part(s, a, b).right = b
  BY DEF Part
<1>14. PICK B : B = IF l < c.j THEN g[Part(C, l, c.j)] ELSE C
  OBVIOUS
<1>15. PartSorted(B, C, l, c.j)
  <2>1. CASE l < c.j
    <3>1. QuickGood(g[Part(C, l, c.j)], Part(C, l, c.j))
      BY <1>6, <1>10, <1>12, <2>1
    <3> QED
      BY <1>13, <1>14, <2>1, <3>1 DEF QuickGood
  <2>2. CASE ~(l < c.j)
    <3>1. B = C
      BY <1>14, <2>2
    <3>2. PICK j \in Int : j = c.j
      BY <1>11
    <3>3. l \in 1 .. Len(C) /\ j <= Len(C) /\ j <= l
      BY <1>4, <1>10, <1>11, <2>2, <3>2, SMTT(30)
    <3> QED
      BY <1>10, <3>1, <3>2, <3>3, ShortPart
  <2> QED
    BY <2>1, <2>2
<1>16. B \in Seq(Int) /\ Len(B) = n
  BY <1>10, <1>15 DEF PartSorted, Reordered
<1>17. PICK D : D = IF c.i < r THEN g[Part(B, c.i, r)] ELSE B
  OBVIOUS
<1>18. PartSorted(D, B, c.i, r)
  <2>1. CASE c.i < r
    <3>1. QuickGood(g[Part(B, c.i, r)], Part(B, c.i, r))
      BY <1>6, <1>12, <1>16, <2>1
    <3> QED
      BY <1>13, <1>17, <2>1, <3>1 DEF QuickGood
  <2>2. CASE ~(c.i < r)
    <3>1. D = B
      BY <1>17, <2>2
    <3>2. PICK i \in Int : i = c.i
      BY <1>11
    <3>3. i >= r /\ i >= 1
      BY <1>4, <1>11, <2>2, <3>2
    <3>4. CASE i = r
      <4>1. i \in 1 .. Len(B) /\ r <= Len(B) /\ r <= i
        BY <1>4, <1>16, <3>4
      <4> QED
        BY <1>4, <1>16, <3>1, <3>2, <4>1, ShortPart
    <3>5. CASE i # r
      <4>1. \A x \in i .. r : FALSE
        BY <1>4, <3>3, <3>5
      <4>2. Reordered(B, B, i, r)
        BY <1>4, <1>16, ReorderedSame
      <4> QED
        BY <3>1, <3>2, <4>1, <4>2 DEF PartSorted, InOrder
    <3> QED
      BY <3>4, <3>5
  <2> QED
    BY <2>1, <2>2
<1>19. PartSorted(D, A, l, r)
  BY <1>4, <1>8, <1>9, <1>15, <1>18, SidesSorted
<1>20. QuickStep(g, q) = D
  BY <1>1, <1>2, <1>3, <1>7, <1>9, <1>14, <1>17, Zenon DEF QuickStep
<1> QED
  BY <1>1, <1>2, <1>3, <1>19, <1>20 DEF QuickGood

\* A call only asks for shorter parts.
LEMMA QuickStepLooksShorter ==
  ASSUME NEW n \in Nat, NEW q \in Parts(n), NEW d \in Int, q.right - q.left <= d,
         NEW g, NEW h,
         \A u \in SmallParts(n, d) : h[u] = g[u] /\ QuickGood(g[u], u)
  PROVE  QuickStep(g, q) = QuickStep(h, q)
<1>1. PICK A \in Seq(Int) : A = q.list /\ Len(A) = n
  BY PartIs
<1>2. PICK l \in 1 .. n : l = q.left
  BY PartIs
<1>3. PICK r \in 1 .. n : r = q.right
  BY PartIs
<1>4. r \in 1 .. Len(A) /\ l \in 1 .. r
  BY <1>1, <1>2, <1>3, PartIs
<1>5. PICK c : c = Cross(A, l, r)
  OBVIOUS
<1>6. Parted(c, A, l, r)
  BY <1>4, <1>5, CrossEnds
<1>7. PICK C : C = c.list
  OBVIOUS
<1>8. C \in Seq(Int) /\ Len(C) = n
  BY <1>1, <1>6, <1>7 DEF Parted, Reordered
<1>9. \A s \in Seq(Int) : Len(s) = n =>
         /\ l < c.j => Part(s, l, c.j) \in SmallParts(n, d)
         /\ c.i < r => Part(s, c.i, r) \in SmallParts(n, d)
  <2>1. Parted(c, q.list, q.left, q.right)
    BY <1>1, <1>2, <1>3, <1>6
  <2>2. \A s \in Seq(Int) : Len(s) = n =>
         /\ q.left < c.j => Part(s, q.left, c.j) \in SmallParts(n, d)
         /\ c.i < q.right => Part(s, c.i, q.right) \in SmallParts(n, d)
    BY <2>1, SidesAreParts
  <2> QED
    BY <1>2, <1>3, <2>2
<1>10. PICK B : B = IF l < c.j THEN g[Part(C, l, c.j)] ELSE C
  OBVIOUS
<1>11. B = IF l < c.j THEN h[Part(C, l, c.j)] ELSE C
  BY <1>8, <1>9, <1>10
<1>12. B \in Seq(Int) /\ Len(B) = n
  <2>1. CASE l < c.j
    <3>1. QuickGood(g[Part(C, l, c.j)], Part(C, l, c.j))
      BY <1>8, <1>9, <2>1
    <3>2. Part(C, l, c.j).list = C
      BY DEF Part
    <3> QED
      BY <1>8, <1>10, <2>1, <3>1, <3>2 DEF QuickGood, PartSorted, Reordered
  <2>2. CASE ~(l < c.j)
    BY <1>8, <1>10, <2>2
  <2> QED
    BY <2>1, <2>2
<1>13. PICK D : D = IF c.i < r THEN g[Part(B, c.i, r)] ELSE B
  OBVIOUS
<1>14. D = IF c.i < r THEN h[Part(B, c.i, r)] ELSE B
  BY <1>9, <1>12, <1>13
<1>15. QuickStep(g, q) = D
  BY <1>1, <1>2, <1>3, <1>5, <1>7, <1>10, <1>13, Zenon DEF QuickStep
<1>16. QuickStep(h, q) = D
  BY <1>1, <1>2, <1>3, <1>5, <1>7, <1>11, <1>14, Zenon DEF QuickStep
<1> QED
  BY <1>15, <1>16

\* h has what the calls for the small parts return.
QuickIs(h, n, d) == h = [q \in SmallParts(n, d) |-> QuickStep(h, q)]

\* A small part and a smaller one.
LEMMA SmallerParts ==
  ASSUME NEW n \in Nat, NEW d \in Int, NEW q \in SmallParts(n, d)
  PROVE  /\ q \in Parts(n) /\ q.right - q.left \in Nat /\ q.right - q.left < d
         /\ \A u \in SmallParts(n, q.right - q.left) :
              u \in SmallParts(n, d) /\ u.right - u.left < q.right - q.left
<1>1. q \in Parts(n) /\ q.right - q.left < d
  BY DEF SmallParts
<1>2. PICK e \in Int : e = q.right - q.left
  BY <1>1, PartIs
<1>3. e \in Nat
  BY <1>1, <1>2, PartIs
<1>4. ASSUME NEW u \in SmallParts(n, e) PROVE u \in SmallParts(n, d) /\ u.right - u.left < e
  <2>1. u \in Parts(n) /\ u.right - u.left < e
    BY DEF SmallParts
  <2>2. u.right - u.left \in Int
    BY <2>1, PartIs
  <2>3. u.right - u.left < d
    BY <1>1, <1>2, <2>1, <2>2
  <2> QED
    BY <2>1, <2>3 DEF SmallParts
<1> QED
  BY <1>1, <1>2, <1>3, <1>4

\* Every call sorts its part: the least part for which one did not would have
\* been sorted.
LEMMA QuickSorts ==
  ASSUME NEW n \in Nat, NEW d \in Nat, NEW h, QuickIs(h, n, d)
  PROVE  \A q \in SmallParts(n, d) : QuickGood(h[q], q)
<1> DEFINE Bad == {e \in Nat : \E q \in SmallParts(n, d) :
                                 q.right - q.left = e /\ ~QuickGood(h[q], q)}
<1>1. Bad = {}
  <2> SUFFICES ASSUME Bad # {} PROVE FALSE
    OBVIOUS
  <2>1. PICK e \in Bad : \A f \in Bad : e <= f
    <3>1. Bad \in SUBSET Nat
      OBVIOUS
    <3> HIDE DEF Bad
    <3> QED
      BY <3>1, Least
  <2>2. PICK q \in SmallParts(n, d) : q.right - q.left = e /\ ~QuickGood(h[q], q)
    BY <2>1
  <2>3. q \in Parts(n)
    BY SmallerParts
  <2>4. ASSUME NEW u \in SmallParts(n, q.right - q.left) PROVE QuickGood(h[u], u)
    <3>1. u \in SmallParts(n, d) /\ u.right - u.left < q.right - q.left
      BY SmallerParts
    <3>2. PICK f \in Nat : f = u.right - u.left
      BY <3>1, SmallerParts
    <3>3. ~(e <= f)
      BY <2>1, <2>2, <3>1, <3>2
    <3>4. f \notin Bad
      <4> HIDE DEF Bad
      <4> QED
        BY <2>1, <3>3
    <3> QED
      BY <3>1, <3>2, <3>4
  <2>5. QuickGood(QuickStep(h, q), q)
    BY <2>3, <2>4, QuickStepSorts
  <2>6. h[q] = QuickStep(h, q)
    BY DEF QuickIs
  <2> QED
    BY <2>2, <2>5, <2>6
<1>2. ASSUME NEW q \in SmallParts(n, d) PROVE QuickGood(h[q], q)
  <2>1. q.right - q.left \in Nat
    BY SmallerParts
  <2> QED
    BY <1>1, <2>1
<1> QED
  BY <1>2

\* There are such calls, for parts of any size.
LEMMA QuickExists ==
  ASSUME NEW n \in Nat
  PROVE  \A d \in Nat : \E h : QuickIs(h, n, d)
<1> DEFINE Has(d)  == \E h : QuickIs(h, n, d)
           Lacking == {d \in Nat : ~Has(d)}
<1>1. Lacking = {}
  <2> SUFFICES ASSUME Lacking # {} PROVE FALSE
    OBVIOUS
  <2>1. PICK d \in Lacking : \A e \in Lacking : d <= e
    <3>1. Lacking \in SUBSET Nat
      OBVIOUS
    <3> HIDE DEF Lacking
    <3> QED
      BY <3>1, Least
  <2>2. d \in Nat /\ ~Has(d)
    BY <2>1
  <2>3. d # 0
    <3>1. \A q \in SmallParts(n, 0) : FALSE
      <4> SUFFICES ASSUME NEW q \in SmallParts(n, 0) PROVE FALSE
        OBVIOUS
      <4>1. q.right - q.left \in Nat /\ q.right - q.left < 0
        BY SmallerParts
      <4>2. \A e \in Nat : ~(e < 0)
        OBVIOUS
      <4> QED
        BY <4>1, <4>2
    <3>2. PICK h : h = [q \in SmallParts(n, 0) |-> 0]
      OBVIOUS
    <3>3. QuickIs(h, n, 0)
      BY <3>1, <3>2 DEF QuickIs
    <3>4. Has(0)
      BY <3>3
    <3> HIDE DEF Has
    <3> QED
      BY <2>2, <3>4
  <2>4. PICK e \in Nat : d = e + 1
    <3>1. d - 1 \in Nat /\ d = (d - 1) + 1
      BY <2>2, <2>3
    <3> QED
      BY <3>1
  <2>5. Has(e)
    <3>1. e \notin Lacking
      <4>1. ~(d <= e)
        BY <2>4
      <4> QED
        BY <2>1, <4>1
    <3> HIDE DEF Has
    <3> QED
      BY <3>1
  <2>6. PICK g : QuickIs(g, n, e)
    BY <2>5
  <2>7. PICK h : h = [q \in SmallParts(n, d) |-> QuickStep(g, q)]
    OBVIOUS
  <2>8. \A u \in SmallParts(n, e) : QuickGood(g[u], u)
    BY <2>6, QuickSorts
  <2>9. ASSUME NEW u \in SmallParts(n, e) PROVE h[u] = g[u]
    <3>1. u \in Parts(n) /\ u.right - u.left < e /\ u.right - u.left \in Nat
      BY SmallerParts
    <3>2. u.right - u.left < d
      BY <2>4, <3>1
    <3>3. u \in SmallParts(n, d)
      BY <3>1, <3>2 DEF SmallParts
    <3> QED
      BY <2>6, <2>7, <3>3 DEF QuickIs
  <2>10. ASSUME NEW q \in SmallParts(n, d) PROVE QuickStep(g, q) = QuickStep(h, q)
    <3>1. q \in Parts(n) /\ q.right - q.left < d /\ q.right - q.left \in Nat
      BY <2>2, SmallerParts
    <3>2. q.right - q.left <= e
      BY <2>4, <3>1
    <3> QED
      BY <2>8, <2>9, <3>1, <3>2, QuickStepLooksShorter
  <2>11. QuickIs(h, n, d)
    BY <2>7, <2>10 DEF QuickIs
  <2> QED
    BY <2>2, <2>11
<1> HIDE DEF Has
<1>2. \A d \in Nat : Has(d)
  BY <1>1
<1> QED
  BY <1>2 DEF Has

\* doQuickSort() sorts every list that is not empty, and any part of one.
THEOREM DoQuickSortSorts ==
  ASSUME NEW A \in Seq(Int), NEW r \in 1 .. Len(A), NEW l \in 1 .. r
  PROVE  PartSorted(doQuickSort(A, l, r), A, l, r)
<1>1. PICK n \in Nat : n = Len(A)
  OBVIOUS
<1> DEFINE Fix(g) == g = [q \in Parts(n) |-> QuickStep(g, q)]
           it == CHOOSE g : Fix(g)
<1>2. doQuickSort(A, l, r) = it[Part(A, l, r)]
  BY <1>1, Zenon DEF doQuickSort, QuickStep, Part
<1>3. SmallParts(n, n) = Parts(n)
  <2>1. ASSUME NEW q \in Parts(n) PROVE q \in SmallParts(n, n)
    <3>1. q.left \in 1 .. n /\ q.right \in 1 .. n
      BY PartIs
    <3>2. q.right - q.left < n
      BY <3>1
    <3> QED
      BY <3>2 DEF SmallParts
  <2> QED
    BY <2>1 DEF SmallParts
<1>4. \A g : Fix(g) <=> QuickIs(g, n, n)
  BY <1>3 DEF QuickIs
<1>5. Fix(it)
  <2>1. \E g : Fix(g)
    BY <1>4, QuickExists
  <2> HIDE DEF Fix
  <2> QED
    BY <2>1
<1>6. PICK g : g = it
  OBVIOUS
<1>7. QuickIs(g, n, n)
  <2> HIDE DEF Fix, it
  <2> QED
    BY <1>4, <1>5, <1>6
<1>8. PICK u : u = Part(A, l, r)
  OBVIOUS
<1>9. u \in SmallParts(n, n) /\ u.list = A /\ u.left = l /\ u.right = r
  <2>1. l \in 1 .. n /\ r \in 1 .. n /\ l <= r
    BY <1>1
  <2>2. u \in Parts(n)
    BY <1>1, <1>8, <2>1 DEF Parts, Part
  <2> QED
    BY <1>3, <1>8, <2>2 DEF Part
<1>10. QuickGood(g[u], u)
  BY <1>7, <1>9, QuickSorts
<1> HIDE DEF it
<1> QED
  BY <1>2, <1>6, <1>8, <1>9, <1>10 DEF QuickGood

-----------------------------------------------------------------------------
(* The merges of other.cpp.                                                *)

\* s from i on.
Onwards(s, i) == SubSeq(s, i, Len(s))

\* Its front is s[i], unless i is behind the end.
LEMMA OnwardsIs ==
  ASSUME NEW s \in Seq(Int), NEW i \in 1 .. Len(s) + 1
  PROVE  /\ Onwards(s, i) \in Seq(Int)
         /\ i > Len(s) => Onwards(s, i) = <<>>
         /\ i <= Len(s) => /\ i + 1 \in 1 .. Len(s) + 1 /\ s[i] \in Int
                           /\ Onwards(s, i) # <<>> /\ Onwards(s, i)[1] = s[i]
                           /\ Tail(Onwards(s, i)) = Onwards(s, i + 1)
                           /\ Onwards(s, i) = <<s[i]>> \o Onwards(s, i + 1)
<1>1. PICK n \in Nat : n = Len(s)
  OBVIOUS
<1>2. PICK t : t = SubSeq(s, i, n)
  OBVIOUS
<1>3. i \in Int /\ n \in Int /\ \A x \in i .. n : s[x] \in Int
  <2>1. \A x \in i .. n : x \in 1 .. Len(s)
    BY <1>1
  <2> QED
    BY <1>1, <2>1, ElementOfSeq
<1>4. /\ t \in Seq(Int) /\ Len(t) = IF i <= n THEN n - i + 1 ELSE 0
      /\ \A x \in 1 .. n - i + 1 : t[x] = s[i + x - 1]
  BY <1>2, <1>3, SubSeqProperties
<1>5. ASSUME i > n PROVE t = <<>>
  BY <1>2, <1>3, <1>5, SubSeqEmpty
<1>6. ASSUME i <= n
      PROVE  /\ i + 1 \in 1 .. n + 1 /\ s[i] \in Int
             /\ t # <<>> /\ t[1] = s[i]
             /\ Tail(t) = SubSeq(s, i + 1, n)
             /\ t = <<s[i]>> \o SubSeq(s, i + 1, n)
  <2>1. i + 1 \in 1 .. n + 1 /\ s[i] \in Int
    BY <1>3, <1>6
  <2>2. Len(t) # 0
    BY <1>3, <1>4, <1>6
  <2>3. t # <<>>
    BY <2>2
  <2>4. 1 \in 1 .. n - i + 1 /\ i + 1 - 1 = i
    BY <1>3, <1>6
  <2>5. t[1] = s[i]
    BY <1>4, <2>4
  <2>6. i \in 1 .. Len(s) /\ n \in i .. Len(s)
    BY <1>1, <1>6
  <2>7. Tail(t) = SubSeq(s, i + 1, n)
    BY <1>2, <2>6, HeadTailOfSubSeq
  <2>8. t = <<s[i]>> \o SubSeq(s, i + 1, n)
    BY <1>2, <2>6, SubSeqRecursiveFirst
  <2> QED
    BY <2>1, <2>3, <2>5, <2>7, <2>8
<1> QED
  BY <1>1, <1>2, <1>4, <1>5, <1>6 DEF Onwards

\* A number appended behind m is a number in front of what follows m.
LEMMA AppendMoves ==
  ASSUME NEW m \in Seq(Int), NEW e \in Int, NEW t \in Seq(Int)
  PROVE  Append(m, e) \in Seq(Int) /\ Append(m, e) \o t = m \o (<<e>> \o t)
<1>0. <<e>> \in Seq(Int)
  OBVIOUS
<1>1. PICK o \in Seq(Int) : o = <<e>>
  BY <1>0
<1>2. Append(m, e) = m \o o
  BY <1>1, AppendIsConcat
<1>3. (m \o o) \o t = m \o (o \o t)
  BY ConcatAssociative
<1> QED
  BY <1>1, <1>2, <1>3, AppendProperties

\* C is the table that merge() fills.
TableIs(C, A, B) ==
  \A i \in 1 .. Len(A) + 1, j \in 1 .. Len(B) + 1 : C[<<i, j>>] = Turn(A, B, C, i, j)

\* merge() is the first entry of such a table.
LEMMA MergeTable ==
  ASSUME NEW A \in Seq(Int), NEW B \in Seq(Int)
  PROVE  \E C : merge(A, B) = C[<<1, 1>>] /\ TableIs(C, A, B)
<1> DEFINE Fix(g) == g = [p \in Grid(A, B) |-> Turn(A, B, g, p[1], p[2])]
           it == CHOOSE g : Fix(g)
<1>1. merge(A, B) = it[<<1, 1>>]
  BY Zenon DEF merge, Grid, Turn
<1>2. \E g : Fix(g)
  BY TableExists
<1>3. Fix(it)
  <2> HIDE DEF Fix
  <2> QED
    BY <1>2
<1>4. PICK C : C = it
  OBVIOUS
<1>5. Fix(C)
  <2> HIDE DEF Fix, it
  <2> QED
    BY <1>3, <1>4
<1>6. ASSUME NEW i \in 1 .. Len(A) + 1, NEW j \in 1 .. Len(B) + 1
      PROVE  C[<<i, j>>] = Turn(A, B, C, i, j)
  <2>1. <<i, j>> \in Grid(A, B)
    BY DEF Grid
  <2> QED
    BY <1>5, <2>1
<1> HIDE DEF it
<1>7. TableIs(C, A, B)
  BY <1>6 DEF TableIs
<1> QED
  BY <1>1, <1>4, <1>7

\* The four cases of a turn.
TurnCases(A, B, C, i, j) ==
  /\ i <= Len(A) /\ j <= Len(B) /\ A[i] <= B[j] =>
       C[<<i, j>>] = <<A[i]>> \o C[<<i + 1, j>>]
  /\ i <= Len(A) /\ j <= Len(B) /\ ~(A[i] <= B[j]) =>
       C[<<i, j>>] = <<B[j]>> \o C[<<i, j + 1>>]
  /\ i > Len(A) => C[<<i, j>>] = Onwards(B, j)
  /\ j > Len(B) => C[<<i, j>>] = Onwards(A, i)

\* There is no other.
LEMMA TurnIs ==
  ASSUME NEW A \in Seq(Int), NEW B \in Seq(Int), NEW C, TableIs(C, A, B),
         NEW i \in 1 .. Len(A) + 1, NEW j \in 1 .. Len(B) + 1
  PROVE  TurnCases(A, B, C, i, j)
<1>1. C[<<i, j>>] = Turn(A, B, C, i, j)
  BY DEF TableIs
<1>2. /\ i <= Len(A) <=> ~(i > Len(A))
      /\ j <= Len(B) <=> ~(j > Len(B))
  OBVIOUS
<1>3. i <= Len(A) /\ j <= Len(B) => (A[i] <= B[j] <=> ~(A[i] > B[j]))
  <2>1. ASSUME i <= Len(A), j <= Len(B) PROVE A[i] <= B[j] <=> ~(A[i] > B[j])
    <3>1. A[i] \in Int /\ B[j] \in Int
      BY <2>1, OnwardsIs
    <3>2. \A a, b \in Int : a <= b <=> ~(a > b)
      OBVIOUS
    <3> QED
      BY <3>1, <3>2
  <2> QED
    BY <2>1
<1>4. i > Len(A) /\ j > Len(B) => Onwards(A, i) = Onwards(B, j)
  BY OnwardsIs
<1>5. ASSUME i <= Len(A), j <= Len(B), A[i] <= B[j]
      PROVE  C[<<i, j>>] = <<A[i]>> \o C[<<i + 1, j>>]
  BY <1>1, <1>2, <1>3, <1>5, Zenon DEF Turn
<1>6. ASSUME i <= Len(A), j <= Len(B), ~(A[i] <= B[j])
      PROVE  C[<<i, j>>] = <<B[j]>> \o C[<<i, j + 1>>]
  BY <1>1, <1>2, <1>3, <1>6, Zenon DEF Turn
<1>7. ASSUME i > Len(A) PROVE C[<<i, j>>] = Onwards(B, j)
  BY <1>1, <1>2, <1>4, <1>7, Zenon DEF Turn, Onwards
<1>8. ASSUME j > Len(B) PROVE C[<<i, j>>] = Onwards(A, i)
  BY <1>1, <1>2, <1>4, <1>8, Zenon DEF Turn, Onwards
<1> QED
  BY <1>5, <1>6, <1>7, <1>8, Zenon DEF TurnCases

\* The entries are sequences.
LEMMA TableSeq ==
  ASSUME NEW A \in Seq(Int), NEW B \in Seq(Int), NEW C, TableIs(C, A, B)
  PROVE  \A i \in 1 .. Len(A) + 1, j \in 1 .. Len(B) + 1 : C[<<i, j>>] \in Seq(Int)
<1> DEFINE
    Good(i, j) == C[<<i, j>>] \in Seq(Int)
    Bad == {n \in Nat : \E i \in 1 .. Len(A) + 1, j \in 1 .. Len(B) + 1 :
                          n = ToTake(A, B, i, j) /\ ~Good(i, j)}
<1>1. Len(A) \in Nat /\ Len(B) \in Nat
  OBVIOUS
<1>2. Bad = {}
  <2> SUFFICES ASSUME Bad # {} PROVE FALSE
    OBVIOUS
  <2>1. PICK n \in Bad : \A k \in Bad : n <= k
    <3>1. Bad \in SUBSET Nat
      OBVIOUS
    <3> HIDE DEF Bad
    <3> QED
      BY <3>1, Least
  <2>2. PICK i \in 1 .. Len(A) + 1, j \in 1 .. Len(B) + 1 :
          n = ToTake(A, B, i, j) /\ ~Good(i, j)
    BY <2>1
  <2>3. ASSUME NEW a \in 1 .. Len(A) + 1, NEW b \in 1 .. Len(B) + 1,
               ToTake(A, B, a, b) < n
        PROVE  Good(a, b)
    <3>1. ToTake(A, B, a, b) \in Nat
      BY <1>1 DEF ToTake
    <3>2. PICK k \in Nat : k = ToTake(A, B, a, b)
      BY <3>1
    <3>3. n \in Nat /\ k < n
      BY <2>1, <2>3, <3>2
    <3>4. k \notin Bad
      <4> HIDE DEF Bad
      <4> QED
        BY <2>1, <3>3
    <3> HIDE DEF Good
    <3> QED
      BY <3>2, <3>4
  <2>4. ASSUME i <= Len(A), j <= Len(B)
        PROVE  Good(i + 1, j) /\ Good(i, j + 1) /\ A[i] \in Int /\ B[j] \in Int
    <3>1. /\ i + 1 \in 1 .. Len(A) + 1 /\ j + 1 \in 1 .. Len(B) + 1
          /\ ToTake(A, B, i + 1, j) < n /\ ToTake(A, B, i, j + 1) < n
      BY <1>1, <2>2, <2>4 DEF ToTake
    <3>2. A[i] \in Int /\ B[j] \in Int
      BY <2>4, OnwardsIs
    <3> HIDE DEF Good
    <3> QED
      BY <2>3, <3>1, <3>2
  <2>5. \A e \in Int, t \in Seq(Int) : <<e>> \o t \in Seq(Int)
    <3> TAKE e \in Int, t \in Seq(Int)
    <3>0. <<e>> \in Seq(Int)
      OBVIOUS
    <3>1. PICK o \in Seq(Int) : o = <<e>>
      BY <3>0
    <3> QED
      BY <3>1, ConcatProperties
  <2>6. CASE i <= Len(A) /\ j <= Len(B)
    <3>1. \/ C[<<i, j>>] = <<A[i]>> \o C[<<i + 1, j>>]
          \/ C[<<i, j>>] = <<B[j]>> \o C[<<i, j + 1>>]
      <4>1. TurnCases(A, B, C, i, j)
        BY TurnIs
      <4> QED
        BY <2>6, <4>1 DEF TurnCases
    <3> QED
      BY <2>2, <2>4, <2>5, <2>6, <3>1
  <2>7. CASE ~(i <= Len(A) /\ j <= Len(B))
    <3>1. i > Len(A) \/ j > Len(B)
      BY <1>1, <2>7
    <3>2. C[<<i, j>>] = Onwards(B, j) \/ C[<<i, j>>] = Onwards(A, i)
      <4>1. TurnCases(A, B, C, i, j)
        BY TurnIs
      <4> QED
        BY <3>1, <4>1 DEF TurnCases
    <3> QED
      BY <2>2, <3>2, OnwardsIs
  <2> QED
    BY <2>6, <2>7
<1>3. ASSUME NEW i \in 1 .. Len(A) + 1, NEW j \in 1 .. Len(B) + 1 PROVE Good(i, j)
  <2>1. ToTake(A, B, i, j) \in Nat
    BY <1>1 DEF ToTake
  <2> HIDE DEF Good
  <2> QED
    BY <1>2, <2>1
<1> QED
  BY <1>3

\* m is what was taken before i and j.
Taken(m, C, i, j) == m \in Seq(Int) /\ m \o C[<<i, j>>] = C[<<1, 1>>]

\* The next is A[i].
LEMMA TakeFirst ==
  ASSUME NEW A \in Seq(Int), NEW B \in Seq(Int), NEW C, TableIs(C, A, B),
         NEW i \in 1 .. Len(A), NEW j \in 1 .. Len(B) + 1,
         j > Len(B) \/ A[i] <= B[j], NEW m, Taken(m, C, i, j)
  PROVE  i + 1 \in 1 .. Len(A) + 1 /\ Taken(Append(m, A[i]), C, i + 1, j)
<1>1. /\ i \in 1 .. Len(A) + 1 /\ i <= Len(A) /\ i + 1 \in 1 .. Len(A) + 1
      /\ j <= Len(B) \/ j > Len(B)
  OBVIOUS
<1>2. A[i] \in Int /\ C[<<i + 1, j>>] \in Seq(Int)
  BY <1>1, ElementOfSeq, TableSeq
<1>3. C[<<i, j>>] = <<A[i]>> \o C[<<i + 1, j>>]
  <2>1. CASE j <= Len(B) /\ A[i] <= B[j]
    <3>1. TurnCases(A, B, C, i, j)
      BY <1>1, TurnIs
    <3> QED
      BY <1>1, <2>1, <3>1 DEF TurnCases
  <2>2. CASE j > Len(B)
    <3>1. C[<<i, j>>] = Onwards(A, i) /\ C[<<i + 1, j>>] = Onwards(A, i + 1)
      <4>1. TurnCases(A, B, C, i, j)
        BY <1>1, TurnIs
      <4>2. TurnCases(A, B, C, i + 1, j)
        BY <1>1, TurnIs
      <4> QED
        BY <1>1, <2>2, <4>1, <4>2 DEF TurnCases
    <3>2. Onwards(A, i) = <<A[i]>> \o Onwards(A, i + 1)
      BY <1>1, OnwardsIs
    <3> QED
      BY <3>1, <3>2
  <2> QED
    BY <1>1, <2>1, <2>2
<1>4. PICK e \in Int, t \in Seq(Int) : e = A[i] /\ t = C[<<i + 1, j>>]
  BY <1>2
<1>5. m \in Seq(Int) /\ m \o (<<e>> \o t) = C[<<1, 1>>]
  BY <1>3, <1>4 DEF Taken
<1>6. Append(m, e) \in Seq(Int) /\ Append(m, e) \o t = m \o (<<e>> \o t)
  BY <1>5, AppendMoves
<1> QED
  BY <1>1, <1>4, <1>5, <1>6 DEF Taken

\* The next is B[j].
LEMMA TakeSecond ==
  ASSUME NEW A \in Seq(Int), NEW B \in Seq(Int), NEW C, TableIs(C, A, B),
         NEW i \in 1 .. Len(A) + 1, NEW j \in 1 .. Len(B),
         i > Len(A) \/ ~(A[i] <= B[j]), NEW m, Taken(m, C, i, j)
  PROVE  j + 1 \in 1 .. Len(B) + 1 /\ Taken(Append(m, B[j]), C, i, j + 1)
<1>1. /\ j \in 1 .. Len(B) + 1 /\ j <= Len(B) /\ j + 1 \in 1 .. Len(B) + 1
      /\ i <= Len(A) \/ i > Len(A)
  OBVIOUS
<1>2. B[j] \in Int /\ C[<<i, j + 1>>] \in Seq(Int)
  BY <1>1, ElementOfSeq, TableSeq
<1>3. C[<<i, j>>] = <<B[j]>> \o C[<<i, j + 1>>]
  <2>1. CASE i <= Len(A) /\ ~(A[i] <= B[j])
    <3>1. TurnCases(A, B, C, i, j)
      BY <1>1, TurnIs
    <3> QED
      BY <1>1, <2>1, <3>1 DEF TurnCases
  <2>2. CASE i > Len(A)
    <3>1. C[<<i, j>>] = Onwards(B, j) /\ C[<<i, j + 1>>] = Onwards(B, j + 1)
      <4>1. TurnCases(A, B, C, i, j)
        BY <1>1, TurnIs
      <4>2. TurnCases(A, B, C, i, j + 1)
        BY <1>1, TurnIs
      <4> QED
        BY <1>1, <2>2, <4>1, <4>2 DEF TurnCases
    <3>2. Onwards(B, j) = <<B[j]>> \o Onwards(B, j + 1)
      BY <1>1, OnwardsIs
    <3> QED
      BY <3>1, <3>2
  <2> QED
    BY <1>1, <2>1, <2>2
<1>4. PICK e \in Int, t \in Seq(Int) : e = B[j] /\ t = C[<<i, j + 1>>]
  BY <1>2
<1>5. m \in Seq(Int) /\ m \o (<<e>> \o t) = C[<<1, 1>>]
  BY <1>3, <1>4 DEF Taken
<1>6. Append(m, e) \in Seq(Int) /\ Append(m, e) \o t = m \o (<<e>> \o t)
  BY <1>5, AppendMoves
<1> QED
  BY <1>1, <1>4, <1>5, <1>6 DEF Taken

\* The lists after k turns of mergeUnsortedLists(): what is left of them is the
\* one from i on and the other from j on.
EatenAt(r, A, B, C, k) ==
  /\ r \in Eating
  /\ \E i \in 1 .. Len(A) + 1, j \in 1 .. Len(B) + 1 :
       /\ (i - 1) + (j - 1) = k
       /\ r.first = Onwards(A, i) /\ r.second = Onwards(B, j)
       /\ Taken(r.merged, C, i, j)

\* A turn of mergeUnsortedLists().
Eat(r) == IF r.first # <<>> /\ (r.second = <<>> \/ r.first[1] <= r.second[1])
          THEN [merged |-> Append(r.merged, r.first[1]),
                first |-> Tail(r.first), second |-> r.second]
          ELSE [merged |-> Append(r.merged, r.second[1]),
                first |-> r.first, second |-> Tail(r.second)]

\* The next turn.
LEMMA EatNext ==
  ASSUME NEW A \in Seq(Int), NEW B \in Seq(Int), NEW C, TableIs(C, A, B),
         NEW k \in 1 .. Len(A) + Len(B), NEW r, EatenAt(r, A, B, C, k - 1)
  PROVE  EatenAt(Eat(r), A, B, C, k)
<1>1. PICK i \in 1 .. Len(A) + 1, j \in 1 .. Len(B) + 1 :
        /\ (i - 1) + (j - 1) = k - 1
        /\ r.first = Onwards(A, i) /\ r.second = Onwards(B, j)
        /\ Taken(r.merged, C, i, j)
  BY DEF EatenAt
<1>2. PICK a \in Nat : a = Len(A)
  OBVIOUS
<1>3. PICK b \in Nat : b = Len(B)
  OBVIOUS
<1>4. /\ i \in 1 .. a + 1 /\ j \in 1 .. b + 1 /\ k \in 1 .. a + b
      /\ (i - 1) + (j - 1) = k - 1
  BY <1>1, <1>2, <1>3
<1>5. PICK m : m = r.merged
  OBVIOUS
<1>6. PICK u : u = Onwards(A, i)
  OBVIOUS
<1>7. PICK v : v = Onwards(B, j)
  OBVIOUS
<1>8. /\ u \in Seq(Int)
      /\ i > a => u = <<>>
      /\ i <= a => i + 1 \in 1 .. a + 1 /\ A[i] \in Int /\ u # <<>> /\ u[1] = A[i]
                   /\ Tail(u) = Onwards(A, i + 1) /\ Onwards(A, i + 1) \in Seq(Int)
  BY <1>2, <1>6, OnwardsIs
<1>9. /\ v \in Seq(Int)
      /\ j > b => v = <<>>
      /\ j <= b => j + 1 \in 1 .. b + 1 /\ B[j] \in Int /\ v # <<>> /\ v[1] = B[j]
                   /\ Tail(v) = Onwards(B, j + 1) /\ Onwards(B, j + 1) \in Seq(Int)
  BY <1>3, <1>7, OnwardsIs
<1>10. PICK q : q = Eat(r)
  OBVIOUS
<1>11. CASE i <= a /\ (j > b \/ A[i] <= B[j])
  <2>1. u # <<>> /\ u[1] = A[i]
    BY <1>8, <1>11
  <2>2. v = <<>> \/ u[1] <= v[1]
    <3>1. j > b \/ j <= b
      BY <1>4
    <3> QED
      BY <1>9, <1>11, <2>1, <3>1
  <2>3. q = [merged |-> Append(m, A[i]), first |-> Onwards(A, i + 1), second |-> v]
    BY <1>1, <1>5, <1>6, <1>7, <1>8, <1>10, <1>11, <2>1, <2>2 DEF Eat
  <2>4. i \in 1 .. Len(A) /\ (j > Len(B) \/ A[i] <= B[j]) /\ Taken(m, C, i, j)
    BY <1>1, <1>2, <1>3, <1>4, <1>5, <1>11
  <2>5. i + 1 \in 1 .. Len(A) + 1 /\ Taken(Append(m, A[i]), C, i + 1, j)
    BY <2>4, TakeFirst
  <2>6. (i + 1 - 1) + (j - 1) = k
    BY <1>4
  <2>7. q \in Eating
    BY <1>8, <1>9, <1>11, <2>3, <2>5 DEF Eating, Taken
  <2>8. /\ q.first = Onwards(A, i + 1) /\ q.second = Onwards(B, j)
        /\ Taken(q.merged, C, i + 1, j)
    BY <1>7, <2>3, <2>5
  <2>9. EatenAt(q, A, B, C, k)
    <3>1. PICK x \in 1 .. Len(A) + 1 : x = i + 1
      BY <2>5
    <3>2. (x - 1) + (j - 1) = k
      BY <2>6, <3>1
    <3> QED
      BY <2>7, <2>8, <3>1, <3>2 DEF EatenAt
  <2> QED
    BY <1>10, <2>9
<1>12. CASE ~(i <= a /\ (j > b \/ A[i] <= B[j]))
  <2>1. j <= b
    BY <1>4, <1>12
  <2>2. v # <<>> /\ v[1] = B[j]
    BY <1>9, <2>1
  <2>3. ~(u # <<>> /\ (v = <<>> \/ u[1] <= v[1]))
    <3>1. i > a \/ i <= a
      BY <1>4
    <3> QED
      BY <1>8, <1>12, <2>2, <3>1
  <2>4. q = [merged |-> Append(m, B[j]), first |-> u, second |-> Onwards(B, j + 1)]
    BY <1>1, <1>5, <1>6, <1>7, <1>9, <1>10, <2>1, <2>2, <2>3 DEF Eat
  <2>5. j \in 1 .. Len(B) /\ (i > Len(A) \/ ~(A[i] <= B[j])) /\ Taken(m, C, i, j)
    BY <1>1, <1>2, <1>3, <1>4, <1>5, <1>12, <2>1
  <2>6. j + 1 \in 1 .. Len(B) + 1 /\ Taken(Append(m, B[j]), C, i, j + 1)
    BY <2>5, TakeSecond
  <2>7. (i - 1) + (j + 1 - 1) = k
    BY <1>4
  <2>8. q \in Eating
    BY <1>8, <1>9, <2>1, <2>4, <2>6 DEF Eating, Taken
  <2>9. /\ q.first = Onwards(A, i) /\ q.second = Onwards(B, j + 1)
        /\ Taken(q.merged, C, i, j + 1)
    BY <1>6, <2>4, <2>6
  <2>10. EatenAt(q, A, B, C, k)
    BY <2>6, <2>7, <2>8, <2>9 DEF EatenAt
  <2> QED
    BY <1>10, <2>10
<1> QED
  BY <1>11, <1>12

\* Before the first turn nothing is taken.
LEMMA TakenNone ==
  ASSUME NEW A \in Seq(Int), NEW B \in Seq(Int), NEW C, TableIs(C, A, B)
  PROVE  Taken(<<>>, C, 1, 1)
<1>1. 1 \in 1 .. Len(A) + 1 /\ 1 \in 1 .. Len(B) + 1
  OBVIOUS
<1>2. C[<<1, 1>>] \in Seq(Int)
  BY <1>1, TableSeq
<1>3. PICK t \in Seq(Int) : t = C[<<1, 1>>]
  BY <1>2
<1>4. <<>> \in Seq(Int) /\ <<>> \o t = t
  BY ConcatEmptySeq
<1> QED
  BY <1>3, <1>4 DEF Taken

\* mergeUnsortedLists() returns what project4b's merge() does, of any two lists.
THEOREM MergeUnsortedIsMerge ==
  ASSUME NEW A \in Seq(Int), NEW B \in Seq(Int)
  PROVE  mergeUnsortedLists(A, B) = merge(A, B)
<1>1. PICK C : merge(A, B) = C[<<1, 1>>] /\ TableIs(C, A, B)
  BY MergeTable
<1>2. PICK n \in Nat : n = Len(A) + Len(B)
  OBVIOUS
<1> DEFINE turn == [r \in Eating |->
                 IF r.first # <<>> /\ (r.second = <<>> \/ r.first[1] <= r.second[1])
                 THEN [merged |-> Append(r.merged, r.first[1]),
                       first |-> Tail(r.first), second |-> r.second]
                 ELSE [merged |-> Append(r.merged, r.second[1]),
                       first |-> r.first, second |-> Tail(r.second)]]
           body == [k \in 1 .. n |-> turn]
           start == [merged |-> <<>>, first |-> A, second |-> B]
           I == [k \in 0 .. n |-> {r \in Eating : EatenAt(r, A, B, C, k)}]
<1>3. mergeUnsortedLists(A, B) = Loop(body, start, n).merged
  BY <1>2, Zenon DEF mergeUnsortedLists
<1>4. start \in I[0]
  <2>1. start \in Eating /\ start.first = A /\ start.second = B /\ start.merged = <<>>
    BY DEF Eating
  <2>2. A = Onwards(A, 1) /\ B = Onwards(B, 1)
    BY SubSeqFull DEF Onwards
  <2>3. 1 \in 1 .. Len(A) + 1 /\ 1 \in 1 .. Len(B) + 1 /\ (1 - 1) + (1 - 1) = 0
    OBVIOUS
  <2>4. Taken(<<>>, C, 1, 1)
    BY <1>1, TakenNone
  <2>5. EatenAt(start, A, B, C, 0)
    <3> HIDE DEF start
    <3>1. /\ start.first = Onwards(A, 1) /\ start.second = Onwards(B, 1)
          /\ Taken(start.merged, C, 1, 1)
      BY <2>1, <2>2, <2>4
    <3> QED
      BY <2>1, <2>3, <3>1 DEF EatenAt
  <2> QED
    BY <2>1, <2>5
<1>5. ASSUME NEW k \in 1 .. n, NEW r \in I[k - 1] PROVE body[k][r] \in I[k]
  <2>1. k - 1 \in 0 .. n /\ k \in 0 .. n /\ k \in 1 .. Len(A) + Len(B)
    BY <1>2
  <2>2. r \in Eating /\ EatenAt(r, A, B, C, k - 1)
    BY <1>5, <2>1
  <2>3. PICK q : q = body[k][r]
    OBVIOUS
  <2>4. q = Eat(r)
    BY <2>2, <2>3 DEF Eat
  <2>5. EatenAt(q, A, B, C, k)
    BY <1>1, <2>1, <2>2, <2>4, EatNext
  <2>6. q \in Eating
    BY <2>5 DEF EatenAt
  <2> HIDE DEF body
  <2> QED
    BY <2>1, <2>3, <2>5, <2>6
<1>6. Loop(body, start, n) \in I[n]
  <2> HIDE DEF body, I, start
  <2> QED
    BY <1>4, <1>5, LoopKeeps
<1>7. PICK r : r = Loop(body, start, n)
  OBVIOUS
<1>8. EatenAt(r, A, B, C, n)
  <2>1. n \in 0 .. n
    OBVIOUS
  <2> HIDE DEF body, start
  <2> QED
    BY <1>6, <1>7, <2>1
<1>9. PICK i \in 1 .. Len(A) + 1, j \in 1 .. Len(B) + 1 :
        (i - 1) + (j - 1) = n /\ Taken(r.merged, C, i, j)
  BY <1>8 DEF EatenAt
<1>10. i > Len(A) /\ j > Len(B)
  BY <1>2, <1>9
<1>11. C[<<i, j>>] = <<>>
  <2>1. TurnCases(A, B, C, i, j)
    BY <1>1, TurnIs
  <2> QED
    BY <1>10, <2>1, OnwardsIs DEF TurnCases
<1>12. PICK m : m = r.merged
  OBVIOUS
<1>13. m \in Seq(Int) /\ m \o <<>> = C[<<1, 1>>]
  BY <1>9, <1>11, <1>12 DEF Taken
<1>14. m = C[<<1, 1>>]
  BY <1>13, ConcatEmptySeq
<1> HIDE DEF body, start
<1> QED
  BY <1>1, <1>3, <1>7, <1>12, <1>14

-----------------------------------------------------------------------------
\* i and j after k turns of mergeSortedLists(): one of the lists is at its end, or
\* k numbers are taken.
RunAt(r, A, B, C, k) ==
  /\ r \in Taking /\ r.i \in 1 .. Len(A) + 1 /\ r.j \in 1 .. Len(B) + 1
  /\ Taken(r.merged, C, r.i, r.j)
  /\ r.i > Len(A) \/ r.j > Len(B) \/ (r.i - 1) + (r.j - 1) >= k

\* A turn of the loop of mergeSortedLists().
Run1(r, A, B) == IF r.i > Len(A) \/ r.j > Len(B) THEN r
                 ELSE IF A[r.i] <= B[r.j]
                 THEN [merged |-> Append(r.merged, A[r.i]),
                       i |-> r.i + 1, j |-> r.j]
                 ELSE [merged |-> Append(r.merged, B[r.j]),
                       i |-> r.i, j |-> r.j + 1]

\* The next turn.
LEMMA RunNext ==
  ASSUME NEW A \in Seq(Int), NEW B \in Seq(Int), NEW C, TableIs(C, A, B),
         NEW k \in Nat, NEW r, RunAt(r, A, B, C, k - 1)
  PROVE  RunAt(Run1(r, A, B), A, B, C, k)
<1>1. PICK i \in 1 .. Len(A) + 1 : i = r.i
  BY DEF RunAt
<1>2. PICK j \in 1 .. Len(B) + 1 : j = r.j
  BY DEF RunAt
<1>3. PICK m : m = r.merged
  OBVIOUS
<1>4. /\ r \in Taking /\ Taken(m, C, i, j)
      /\ i > Len(A) \/ j > Len(B) \/ (i - 1) + (j - 1) >= k - 1
  BY <1>1, <1>2, <1>3 DEF RunAt
<1>5. PICK q : q = Run1(r, A, B)
  OBVIOUS
<1>6. CASE i > Len(A) \/ j > Len(B)
  <2>1. q = r
    BY <1>1, <1>2, <1>5, <1>6 DEF Run1
  <2>2. RunAt(r, A, B, C, k)
    BY <1>1, <1>2, <1>6 DEF RunAt
  <2> QED
    BY <1>5, <2>1, <2>2
<1>7. CASE ~(i > Len(A) \/ j > Len(B))
  <2>1. i \in 1 .. Len(A) /\ j \in 1 .. Len(B) /\ (i - 1) + (j - 1) >= k - 1
    BY <1>4, <1>7
  <2>2. i \in Int /\ j \in Int
    OBVIOUS
  <2>3. CASE A[i] <= B[j]
    <3>1. q = [merged |-> Append(m, A[i]), i |-> i + 1, j |-> j]
      BY <1>1, <1>2, <1>3, <1>5, <1>7, <2>3 DEF Run1
    <3>2. i + 1 \in 1 .. Len(A) + 1 /\ Taken(Append(m, A[i]), C, i + 1, j)
      BY <1>4, <2>1, <2>3, TakeFirst
    <3>3. (i + 1 - 1) + (j - 1) >= k
      BY <2>1
    <3>4. q.merged = Append(m, A[i]) /\ q.i = i + 1 /\ q.j = j /\ q \in Taking
      BY <2>2, <3>1, <3>2 DEF Taking, Taken
    <3>5. RunAt(q, A, B, C, k)
      BY <3>2, <3>3, <3>4 DEF RunAt
    <3> QED
      BY <1>5, <3>5
  <2>4. CASE ~(A[i] <= B[j])
    <3>1. q = [merged |-> Append(m, B[j]), i |-> i, j |-> j + 1]
      BY <1>1, <1>2, <1>3, <1>5, <1>7, <2>4 DEF Run1
    <3>2. j + 1 \in 1 .. Len(B) + 1 /\ Taken(Append(m, B[j]), C, i, j + 1)
      BY <1>4, <2>1, <2>4, TakeSecond
    <3>3. (i - 1) + (j + 1 - 1) >= k
      BY <2>1
    <3>4. q.merged = Append(m, B[j]) /\ q.i = i /\ q.j = j + 1 /\ q \in Taking
      BY <2>2, <3>1, <3>2 DEF Taking, Taken
    <3>5. RunAt(q, A, B, C, k)
      BY <3>2, <3>3, <3>4 DEF RunAt
    <3> QED
      BY <1>5, <3>5
  <2> QED
    BY <2>3, <2>4
<1> QED
  BY <1>6, <1>7

\* mergeSortedLists() returns what project4b's merge() does, of any two lists.
THEOREM MergeSortedIsMerge ==
  ASSUME NEW A \in Seq(Int), NEW B \in Seq(Int)
  PROVE  mergeSortedLists(A, B) = merge(A, B)
<1>1. PICK C : merge(A, B) = C[<<1, 1>>] /\ TableIs(C, A, B)
  BY MergeTable
<1>2. PICK n \in Nat : n = Len(A) + Len(B)
  OBVIOUS
<1> DEFINE turn == [r \in Taking |->
                 IF r.i > Len(A) \/ r.j > Len(B) THEN r
                 ELSE IF A[r.i] <= B[r.j]
                 THEN [merged |-> Append(r.merged, A[r.i]),
                       i |-> r.i + 1, j |-> r.j]
                 ELSE [merged |-> Append(r.merged, B[r.j]),
                       i |-> r.i, j |-> r.j + 1]]
           body == [k \in 1 .. n |-> turn]
           start == [merged |-> <<>>, i |-> 1, j |-> 1]
           I == [k \in 0 .. n |-> {r \in Taking : RunAt(r, A, B, C, k)}]
<1>3. RunOver(A, B) = Loop(body, start, n)
  BY <1>2, Zenon DEF RunOver
<1>4. start \in I[0]
  <2>1. <<>> \in Seq(Int) /\ 1 \in Int
    OBVIOUS
  <2>2. start \in Taking /\ start.i = 1 /\ start.j = 1 /\ start.merged = <<>>
    BY <2>1 DEF Taking
  <2>3. 1 \in 1 .. Len(A) + 1 /\ 1 \in 1 .. Len(B) + 1 /\ (1 - 1) + (1 - 1) >= 0
    OBVIOUS
  <2>4. Taken(<<>>, C, 1, 1)
    BY <1>1, TakenNone
  <2>5. RunAt(start, A, B, C, 0)
    <3> HIDE DEF start
    <3> QED
      BY <2>2, <2>3, <2>4 DEF RunAt
  <2> QED
    BY <2>2, <2>5
<1>5. ASSUME NEW k \in 1 .. n, NEW r \in I[k - 1] PROVE body[k][r] \in I[k]
  <2>1. k - 1 \in 0 .. n /\ k \in 0 .. n /\ k \in Nat
    OBVIOUS
  <2>2. r \in Taking /\ RunAt(r, A, B, C, k - 1)
    BY <1>5, <2>1
  <2>3. PICK q : q = body[k][r]
    OBVIOUS
  <2>4. q = Run1(r, A, B)
    BY <2>2, <2>3 DEF Run1
  <2>5. RunAt(q, A, B, C, k)
    BY <1>1, <2>1, <2>2, <2>4, RunNext
  <2>6. q \in Taking
    BY <2>5 DEF RunAt
  <2> HIDE DEF body
  <2> QED
    BY <2>1, <2>3, <2>5, <2>6
<1>6. Loop(body, start, n) \in I[n]
  <2> HIDE DEF body, I, start
  <2> QED
    BY <1>4, <1>5, LoopKeeps
<1>7. PICK r : r = RunOver(A, B)
  OBVIOUS
<1>8. RunAt(r, A, B, C, n)
  <2>1. n \in 0 .. n
    OBVIOUS
  <2> HIDE DEF body, start
  <2> QED
    BY <1>3, <1>6, <1>7, <2>1
<1>9. PICK i \in 1 .. Len(A) + 1 : i = r.i
  BY <1>8 DEF RunAt
<1>10. PICK j \in 1 .. Len(B) + 1 : j = r.j
  BY <1>8 DEF RunAt
<1>11. Taken(r.merged, C, i, j) /\ (i > Len(A) \/ j > Len(B))
  <2>1. i > Len(A) \/ j > Len(B) \/ (i - 1) + (j - 1) >= n
    BY <1>8, <1>9, <1>10 DEF RunAt
  <2>2. i > Len(A) \/ j > Len(B)
    BY <1>2, <2>1
  <2> QED
    BY <1>8, <1>9, <1>10, <2>2 DEF RunAt
<1>12. C[<<i, j>>] = IF i <= Len(A) THEN Onwards(A, i) ELSE Onwards(B, j)
  <2>1. TurnCases(A, B, C, i, j)
    BY <1>1, TurnIs
  <2>2. i <= Len(A) \/ i > Len(A)
    OBVIOUS
  <2>3. ~(i <= Len(A) /\ i > Len(A))
    OBVIOUS
  <2> QED
    BY <1>11, <2>1, <2>2, <2>3 DEF TurnCases
<1>13. mergeSortedLists(A, B) = r.merged \o (IF i <= Len(A) THEN Onwards(A, i) ELSE Onwards(B, j))
  BY <1>7, <1>9, <1>10, Zenon DEF mergeSortedLists, Onwards
<1>14. r.merged \o C[<<i, j>>] = C[<<1, 1>>]
  BY <1>11 DEF Taken
<1> QED
  BY <1>1, <1>12, <1>13, <1>14, Zenon

-----------------------------------------------------------------------------
(* doMergeSort(), and all of them together.                                *)

\* What sort has at s in doMergeSort(), by what g has for the halves.
RoundUp(g, s) == IF Len(s) > 1 THEN mergeUnsortedLists(g[Lower(s)], g[Upper(s)]) ELSE s

\* As the merges are the same, it is what merge_sort has.
LEMMA RoundsSame ==
  ASSUME NEW s \in Seq(Int), NEW g,
         ~(Len(s) < 2) => g[Lower(s)] \in Seq(Int) /\ g[Upper(s)] \in Seq(Int)
  PROVE  RoundUp(g, s) = Round(g, s)
<1>1. Len(s) > 1 <=> ~(Len(s) < 2)
  OBVIOUS
<1>2. CASE Len(s) < 2
  BY <1>1, <1>2 DEF Round, RoundUp
<1>3. CASE ~(Len(s) < 2)
  <2>1. PICK u \in Seq(Int), v \in Seq(Int) : u = g[Lower(s)] /\ v = g[Upper(s)]
    BY <1>3
  <2>2. mergeUnsortedLists(u, v) = merge(u, v)
    BY MergeUnsortedIsMerge
  <2> QED
    BY <1>1, <1>3, <2>1, <2>2 DEF Round, RoundUp
<1> QED
  BY <1>2, <1>3

\* doMergeSort() sorts every list.
THEOREM DoMergeSortSorts ==
  ASSUME NEW A \in Seq(Int)
  PROVE  SortedFrom(doMergeSort(A), A)
<1> DEFINE Fix(g) == g = [s \in Seq(Int) |-> RoundUp(g, s)]
           it == CHOOSE g : Fix(g)
<1>1. doMergeSort(A) = it[A]
  BY Zenon DEF doMergeSort, RoundUp, Lower, Upper, Middle
<1>2. \E g : Fix(g)
  <2>1. PICK g : g = [s \in Seq(Int) |-> Round(g, s)]
    BY SortExists
  <2>2. \A s \in Seq(Int) : Sorts(g[s], s)
    BY <2>1, SortSorts
  <2>3. \A s \in Seq(Int) : g[s] \in Seq(Int)
    BY <2>2 DEF Sorts, Drawn
  <2>4. ASSUME NEW s \in Seq(Int) PROVE RoundUp(g, s) = Round(g, s)
    <3>1. ~(Len(s) < 2) => Lower(s) \in Seq(Int) /\ Upper(s) \in Seq(Int)
      BY HalvesOf
    <3> QED
      BY <2>3, <3>1, RoundsSame
  <2>5. g = [s \in Seq(Int) |-> RoundUp(g, s)]
    BY <2>1, <2>4
  <2> QED
    BY <2>5
<1>3. Fix(it)
  <2> HIDE DEF Fix
  <2> QED
    BY <1>2
<1>4. PICK g : g = it
  OBVIOUS
<1>5. g = [s \in Seq(Int) |-> RoundUp(g, s)]
  <2>1. Fix(g)
    <3> HIDE DEF Fix, it
    <3> QED
      BY <1>3, <1>4
  <2> QED
    BY <2>1
<1> HIDE DEF it
<1> DEFINE Bad == {l \in Nat : \E s \in Seq(Int) : Len(s) = l /\ ~(g[s] \in Seq(Int))}
<1>6. Bad = {}
  <2> SUFFICES ASSUME Bad # {} PROVE FALSE
    OBVIOUS
  <2>1. PICK l \in Bad : \A x \in Bad : l <= x
    <3>1. Bad \in SUBSET Nat
      OBVIOUS
    <3> HIDE DEF Bad
    <3> QED
      BY <3>1, Least
  <2>2. PICK s \in Seq(Int) : Len(s) = l /\ ~(g[s] \in Seq(Int))
    BY <2>1
  <2>3. ASSUME NEW u \in Seq(Int), Len(u) < l PROVE g[u] \in Seq(Int)
    <3>1. Len(u) \in Nat
      OBVIOUS
    <3>2. Len(u) \notin Bad
      BY <2>1, <2>3, <3>1
    <3> QED
      BY <3>1, <3>2
  <2>4. g[s] = RoundUp(g, s)
    BY <1>5
  <2>5. CASE Len(s) < 2
    <3>1. ~(Len(s) > 1)
      BY <2>5
    <3> QED
      BY <2>2, <2>4, <3>1 DEF RoundUp
  <2>6. CASE ~(Len(s) < 2)
    <3>1. PICK m \in Int : m = Middle(s)
      BY <2>6, HalvesOf
    <3>2. PICK u, v : u = Lower(s) /\ v = Upper(s)
      OBVIOUS
    <3>3. /\ u \in Seq(Int) /\ v \in Seq(Int)
          /\ Len(u) = m /\ Len(v) = Len(s) - m /\ m \in 1 .. Len(s) - 1
      BY <2>6, <3>1, <3>2, HalvesOf
    <3>4. Len(u) < l /\ Len(v) < l
      BY <2>2, <3>3
    <3>5. PICK D \in Seq(Int), E \in Seq(Int) : D = g[u] /\ E = g[v]
      BY <2>3, <3>3, <3>4
    <3>6. mergeUnsortedLists(D, E) \in Seq(Int)
      <4>1. mergeUnsortedLists(D, E) = merge(D, E)
        BY MergeUnsortedIsMerge
      <4>2. PICK C : merge(D, E) = C[<<1, 1>>] /\ TableIs(C, D, E)
        BY MergeTable
      <4>3. 1 \in 1 .. Len(D) + 1 /\ 1 \in 1 .. Len(E) + 1
        OBVIOUS
      <4>4. C[<<1, 1>>] \in Seq(Int)
        BY <4>2, <4>3, TableSeq
      <4> QED
        BY <4>1, <4>2, <4>4
    <3>7. Len(s) > 1
      BY <2>6
    <3> QED
      BY <2>2, <2>4, <3>2, <3>5, <3>6, <3>7 DEF RoundUp
  <2> QED
    BY <2>5, <2>6
<1>7. \A s \in Seq(Int) : g[s] \in Seq(Int)
  <2> TAKE s \in Seq(Int)
  <2>1. Len(s) \in Nat
    OBVIOUS
  <2> QED
    BY <1>6, <2>1
<1>8. ASSUME NEW s \in Seq(Int) PROVE RoundUp(g, s) = Round(g, s)
  <2>1. ~(Len(s) < 2) => Lower(s) \in Seq(Int) /\ Upper(s) \in Seq(Int)
    BY HalvesOf
  <2> QED
    BY <1>7, <2>1, RoundsSame
<1>9. g = [s \in Seq(Int) |-> Round(g, s)]
  BY <1>5, <1>8
<1>10. Sorts(g[A], A)
  BY <1>9, SortSorts
<1>11. PICK t : t = g[A]
  OBVIOUS
<1>12. Len(t) = Len(A) /\ Drawn(t, A, 1 .. Len(t))
  BY <1>10, <1>11 DEF Sorts
<1>13. \E f : From(t, A, f, Len(t))
  BY <1>12, DrawnFrom
<1>14. SortedFrom(t, A)
  BY <1>12, <1>13 DEF SortedFrom, Drawn
<1> QED
  BY <1>1, <1>4, <1>11, <1>14

-----------------------------------------------------------------------------
\* Places put into another order are all there.
LEMMA ShuffleOnto ==
  ASSUME NEW n \in Nat, NEW f, Shuffle(f, n)
  PROVE  \A y \in 1 .. n : \E x \in 1 .. n : f[x] = y
<1>1. f \in Injection(1 .. n, 1 .. n)
  BY DEF Shuffle, Injection, IsInjective
<1>2. IsFiniteSet(1 .. n)
  BY FS_Interval
<1>3. f \in Surjection(1 .. n, 1 .. n)
  BY <1>1, <1>2, FS_Injection
<1> QED
  BY <1>3 DEF Surjection

\* A list in another order has each number as often.
LEMMA CountsSame ==
  ASSUME NEW s \in Seq(Int), NEW t \in Seq(Int), Len(t) = Len(s),
         NEW f, From(t, s, f, Len(s)), NEW v
  PROVE  Cardinality({y \in DOMAIN t : t[y] = v}) = Cardinality({y \in DOMAIN s : s[y] = v})
<1>1. PICK n \in Nat : n = Len(s)
  OBVIOUS
<1>2. /\ f \in [1 .. n -> 1 .. n] /\ \A x, y \in 1 .. n : f[x] = f[y] => x = y
      /\ \A x \in 1 .. n : t[x] = s[f[x]]
      /\ \A y \in 1 .. n : \E x \in 1 .. n : f[x] = y
  <2>1. From(t, s, f, n)
    BY <1>1
  <2>2. Shuffle(f, n)
    BY <2>1 DEF From
  <2>3. \A y \in 1 .. n : \E x \in 1 .. n : f[x] = y
    BY <2>2, ShuffleOnto
  <2>4. /\ f \in [1 .. n -> 1 .. n] /\ \A x, y \in 1 .. n : f[x] = f[y] => x = y
    BY <2>2 DEF Shuffle
  <2>5. \A x \in 1 .. n : t[x] = s[f[x]]
    BY <2>1 DEF From
  <2> QED
    BY <2>3, <2>4, <2>5
<1>3. DOMAIN t = 1 .. n /\ DOMAIN s = 1 .. n
  BY <1>1
<1> DEFINE S == {y \in 1 .. n : t[y] = v}
           T == {y \in 1 .. n : s[y] = v}
<1>4. PICK g : g = [x \in S |-> f[x]]
  OBVIOUS
<1>5. g \in [S -> T]
  BY <1>2, <1>4
<1>6. \A x, y \in S : g[x] = g[y] => x = y
  BY <1>2, <1>4
<1>7. \A y \in T : \E x \in S : g[x] = y
  <2> TAKE y \in T
  <2>1. PICK x \in 1 .. n : f[x] = y
    BY <1>2
  <2>2. x \in S
    BY <1>2, <2>1
  <2> QED
    BY <1>4, <2>1, <2>2
<1>8. IsFiniteSet(S)
  <2>1. S \in SUBSET (1 .. n)
    OBVIOUS
  <2>2. PICK o \in Int : o = 1
    OBVIOUS
  <2>3. n \in Int
    BY <1>1
  <2>4. IsFiniteSet(o .. n)
    BY <2>3, FS_Interval
  <2>5. IsFiniteSet(1 .. n)
    BY <2>2, <2>4
  <2> HIDE DEF S
  <2> QED
    BY <2>1, <2>5, FS_Subset
<1>9. Cardinality(T) = Cardinality(S)
  <2> HIDE DEF S, T
  <2>1. g \in Bijection(S, T)
    BY <1>5, <1>6, <1>7 DEF Bijection, Injection, Surjection, IsInjective
  <2> QED
    BY <1>8, <2>1, FS_Bijection DEF ExistsBijection
<1> QED
  BY <1>3, <1>9

\* What SortedFrom means in the terms of the runs.
LEMMA SortedFromMeans ==
  ASSUME NEW s \in Seq(Int), NEW t, SortedFrom(t, s)
  PROVE  /\ t \in Seq(Int) /\ Len(t) = Len(s) /\ ToSet(t) \subseteq ToSet(s)
         /\ Sorted(t) /\ SameNumbers(t, s)
<1>1. /\ t \in Seq(Int) /\ Len(t) = Len(s) /\ Ordered(t)
  BY DEF SortedFrom
<1>2. PICK f : From(t, s, f, Len(s))
  BY DEF SortedFrom
<1>3. Sorted(t)
  BY <1>1 DEF Sorted, IsSorted, Ordered
<1>4. SameNumbers(t, s)
  <2>1. \A v : Cardinality({y \in DOMAIN t : t[y] = v}) = Cardinality({y \in DOMAIN s : s[y] = v})
    BY <1>1, <1>2, CountsSame
  <2> QED
    BY <1>1, <2>1 DEF SameNumbers
<1>5. ASSUME NEW x \in DOMAIN t PROVE t[x] \in ToSet(s)
  <2>1. x \in 1 .. Len(s) /\ DOMAIN s = 1 .. Len(s)
    BY <1>1
  <2>2. t[x] = s[f[x]] /\ f[x] \in 1 .. Len(s)
    BY <1>2, <2>1 DEF From, Shuffle
  <2> QED
    BY <2>1, <2>2 DEF ToSet
<1>6. ToSet(t) \subseteq ToSet(s)
  BY <1>5 DEF ToSet
<1> QED
  BY <1>1, <1>3, <1>4, <1>6

\* Every sort that performSortOnThread() of other.cpp may be asked for returns its
\* list in order.
LEMMA SortOnThreadFrom ==
  ASSUME NEW A \in Seq(Int), NEW type \in SortTypes,
         A # <<>> \/ type \notin {"QUICK_SORT", "SELECTION_SORT"}
  PROVE  SortedFrom(SortOnThread(type, A), A)
<1> DEFINE r == SortOnThread(type, A)
<1>1. /\ "QUICK_SORT" # "SELECTION_SORT" /\ "QUICK_SORT" # "MERGE_SORT"
      /\ "QUICK_SORT" # "BUBBLE_SORT" /\ "QUICK_SORT" # "SHELL_SORT"
      /\ "QUICK_SORT" # "INSERTION_SORT" /\ "SELECTION_SORT" # "MERGE_SORT"
      /\ "SELECTION_SORT" # "BUBBLE_SORT" /\ "SELECTION_SORT" # "SHELL_SORT"
      /\ "SELECTION_SORT" # "INSERTION_SORT" /\ "MERGE_SORT" # "BUBBLE_SORT"
      /\ "MERGE_SORT" # "SHELL_SORT" /\ "MERGE_SORT" # "INSERTION_SORT"
      /\ "BUBBLE_SORT" # "SHELL_SORT" /\ "BUBBLE_SORT" # "INSERTION_SORT"
      /\ "SHELL_SORT" # "INSERTION_SORT"
  OBVIOUS
<1>2. CASE type = "QUICK_SORT"
  <2>1. r = doQuickSort(A, 1, Len(A))
    BY <1>1, <1>2, Zenon DEF SortOnThread
  <2>2. PICK n \in 1 .. Len(A) : n = Len(A)
    <3>1. Len(A) \in Nat \ {0}
      BY <1>2, EmptySeq
    <3>2. Len(A) \in 1 .. Len(A)
      BY <3>1
    <3> QED
      BY <3>2
  <2>3. PICK o \in 1 .. n : o = 1
    BY <2>2
  <2>4. PICK t : t = doQuickSort(A, o, n)
    OBVIOUS
  <2>5. PartSorted(t, A, o, n)
    BY <2>4, DoQuickSortSorts
  <2>6. Reordered(t, A, 1, Len(A)) /\ InOrder(t, 1, Len(A))
    BY <2>2, <2>3, <2>5 DEF PartSorted
  <2>7. SortedFrom(t, A)
    BY <2>6 DEF SortedFrom, Reordered, InOrder, Ordered
  <2> QED
    BY <2>1, <2>2, <2>3, <2>4, <2>7
<1>3. CASE type = "SELECTION_SORT"
  <2>1. r = doSelectionSort(A)
    BY <1>1, <1>3, Zenon DEF SortOnThread
  <2> QED
    BY <1>3, <2>1, DoSelectionSortSorts
<1>4. CASE type = "MERGE_SORT"
  <2>1. r = doMergeSort(A)
    BY <1>1, <1>4, Zenon DEF SortOnThread
  <2> QED
    BY <2>1, DoMergeSortSorts
<1>5. CASE type = "BUBBLE_SORT"
  <2>1. r = doBubbleSort(A)
    BY <1>1, <1>5, Zenon DEF SortOnThread
  <2> QED
    BY <2>1, DoBubbleSortSorts
<1>6. CASE type = "SHELL_SORT"
  <2>1. r = doShellSort(A)
    BY <1>1, <1>6, Zenon DEF SortOnThread
  <2> QED
    BY <2>1, DoShellSortSorts
<1>7. CASE type = "INSERTION_SORT"
  <2>1. r = doInsertionSort(A)
    BY <1>1, <1>7, Zenon DEF SortOnThread
  <2> QED
    BY <2>1, DoInsertionSortSorts
<1> QED
  BY <1>2, <1>3, <1>4, <1>5, <1>6, <1>7 DEF SortTypes

\* performSortOnThread() of other.cpp: every sort it may be asked for puts every
\* list into order and loses no number of it.  Quick sort and selection sort are
\* not asked to sort an empty list.
THEOREM SortOnThreadSorts ==
  ASSUME NEW A \in Seq(Int), NEW type \in SortTypes,
         A # <<>> \/ type \notin {"QUICK_SORT", "SELECTION_SORT"}
  PROVE  LET r == SortOnThread(type, A) IN
         /\ r \in Seq(Int) /\ Len(r) = Len(A) /\ ToSet(r) \subseteq ToSet(A)
         /\ Sorted(r) /\ SameNumbers(r, A)
<1>1. PICK r : r = SortOnThread(type, A)
  OBVIOUS
<1>2. SortedFrom(r, A)
  BY <1>1, SortOnThreadFrom
<1>3. /\ r \in Seq(Int) /\ Len(r) = Len(A) /\ ToSet(r) \subseteq ToSet(A)
      /\ Sorted(r) /\ SameNumbers(r, A)
  BY <1>2, SortedFromMeans
<1> QED
  BY <1>1, <1>3

\* A list in order, as merge() takes it.
LEMMA SortedIsOrdered ==
  ASSUME NEW s \in Seq(Int), Sorted(s)
  PROVE  Ordered(s)
<1>1. \A x, y \in 1 .. Len(s) : x < y => s[x] <= s[y]
  BY DEF Sorted, IsSorted
<1>2. \A x \in 1 .. Len(s) : s[x] <= s[x]
  <2>1. \A x \in 1 .. Len(s) : s[x] \in Int
    BY ElementOfSeq
  <2>2. \A e \in Int : e <= e
    OBVIOUS
  <2> QED
    BY <2>1, <2>2
<1>3. \A x, y \in 1 .. Len(s) : x <= y => x < y \/ x = y
  OBVIOUS
<1> QED
  BY <1>1, <1>2, <1>3 DEF Ordered

\* mergeSortedLists() puts two lists in order into one.
LEMMA MergeSortedListsFrom ==
  ASSUME NEW A \in Seq(Int), NEW B \in Seq(Int), Sorted(A), Sorted(B)
  PROVE  SortedFrom(mergeSortedLists(A, B), A \o B)
<1>1. Ordered(A) /\ Ordered(B)
  BY SortedIsOrdered
<1>2. PICK t : t = mergeSortedLists(A, B)
  OBVIOUS
<1>3. PICK u \in Seq(Int) : u = A \o B
  BY ConcatProperties
<1>4. PICK m \in Nat, n \in Nat : m = Len(A) /\ n = Len(B)
  OBVIOUS
<1>5. Len(u) = m + n
  BY <1>3, <1>4, ConcatProperties
<1>6. Merged(t, A, B, 1, 1)
  BY <1>1, <1>2, MergeSortedIsMerge, MergeMerges
<1>7. Len(t) = m + n /\ Drawn(t, u, 1 .. m + n)
  <2>1. (m + 1 - 1) + (n + 1 - 1) = m + n
    OBVIOUS
  <2>2. Rest(m, n, 1, 1) = 1 .. m + n
    <3>1. ASSUME NEW x \in 1 .. m + n PROVE x \in 1 .. m \/ x \in m + 1 .. m + n
      OBVIOUS
    <3>2. ASSUME NEW x \in 1 .. m PROVE x \in 1 .. m + n
      OBVIOUS
    <3>3. ASSUME NEW x \in m + 1 .. m + n PROVE x \in 1 .. m + n
      OBVIOUS
    <3> QED
      BY <3>1, <3>2, <3>3 DEF Rest
  <2> QED
    BY <1>3, <1>4, <1>6, <2>1, <2>2 DEF Merged, ToTake
<1>8. \E f : From(t, u, f, Len(u))
  <2>1. PICK k : k = m + n
    OBVIOUS
  <2>2. Drawn(t, u, 1 .. k) /\ k = Len(t)
    BY <1>7, <2>1
  <2>3. \E f : From(t, u, f, k)
    BY <2>2, DrawnFrom
  <2> QED
    BY <1>5, <2>1, <2>3
<1>9. SortedFrom(t, u)
  BY <1>5, <1>7, <1>8 DEF SortedFrom, Drawn
<1> QED
  BY <1>2, <1>3, <1>9

\* mergeSortedLists(), which the threads of other.cpp merge their lists with: of
\* two lists in order it makes one, in order, that holds the numbers of both.
THEOREM MergeSortedListsMerges ==
  ASSUME NEW A \in Seq(Int), NEW B \in Seq(Int), Sorted(A), Sorted(B)
  PROVE  LET r == mergeSortedLists(A, B) IN
         /\ r \in Seq(Int) /\ Len(r) = Len(A) + Len(B)
         /\ ToSet(r) \subseteq ToSet(A \o B)
         /\ Sorted(r) /\ SameNumbers(r, A \o B)
<1>1. PICK t : t = mergeSortedLists(A, B)
  OBVIOUS
<1>2. PICK u \in Seq(Int) : u = A \o B /\ Len(u) = Len(A) + Len(B)
  BY ConcatProperties
<1>3. SortedFrom(t, u)
  BY <1>1, <1>2, MergeSortedListsFrom
<1>4. /\ t \in Seq(Int) /\ Len(t) = Len(u) /\ ToSet(t) \subseteq ToSet(u)
      /\ Sorted(t) /\ SameNumbers(t, u)
  BY <1>3, SortedFromMeans
<1> QED
  BY <1>1, <1>2, <1>4

\* The sorts of project4b.cpp, in the same terms.
THEOREM SortsOfProject4b ==
  ASSUME NEW A \in Seq(Int), NEW r, r = merge_sort(A, Len(A)) \/ r = selectionSort(A, Len(A))
  PROVE  /\ r \in Seq(Int) /\ Len(r) = Len(A) /\ ToSet(r) \subseteq ToSet(A)
         /\ Sorted(r) /\ SameNumbers(r, A)
<1>1. PICK L \in Nat : L = Len(A)
  OBVIOUS
<1>2. CASE r = merge_sort(A, L)
  <2>1. A \in [1 .. L -> Int] /\ L \in 0 .. L /\ Int \in SUBSET Int
    BY <1>1
  <2>2. PICK V \in SUBSET Int : V = Int
    BY <2>1
  <2>3. A \in [1 .. L -> V]
    BY <2>1, <2>2
  <2>4. FirstSorted(r, A, L, L, V)
    <3>1. PICK n \in 0 .. L : n = L
      BY <2>1
    <3>2. FirstSorted(merge_sort(A, n), A, n, L, V)
      BY <2>3, MergeSortPutsBack
    <3> QED
      BY <1>2, <3>1, <3>2
  <2>5. r \in Seq(Int) /\ Len(r) = L
    BY <2>2, <2>4 DEF FirstSorted
  <2>6. SortedFrom(r, A)
    BY <1>1, <2>4, <2>5, SMTT(30) DEF FirstSorted, SortedFrom, Ordered, From, Shuffle
  <2> QED
    BY <2>6, SortedFromMeans
<1>3. CASE r = selectionSort(A, L)
  <2>1. /\ r \in Seq(Int) /\ Len(r) = L
        /\ \A x, y \in 1 .. L : x <= y => r[x] <= r[y]
        /\ \E p \in [1 .. L -> 1 .. L] :
             /\ \A x, y \in 1 .. L : p[x] = p[y] => x = y
             /\ \A x \in 1 .. L : r[x] = A[p[x]]
    BY <1>1, <1>3, SelectionSortSorts, ZenonT(40)
  <2>2. SortedFrom(r, A)
    BY <1>1, <2>1, SMTT(30) DEF SortedFrom, Ordered, From, Shuffle
  <2> QED
    BY <2>2, SortedFromMeans
<1> QED
  BY <1>1, <1>2, <1>3
=============================================================================
