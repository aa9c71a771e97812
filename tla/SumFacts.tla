------------------------------ MODULE SumFacts ------------------------------
(***************************************************************************)
(* What a sum over a finite set is, for the models that state a property   *)
(* with MapThenSumSet.                                                     *)
(*                                                                         *)
(* The sum is a recursive function on the subsets of the set, which takes  *)
(* the elements in the order CHOOSE gives them.  That there is such a      *)
(* function, and that the order makes no difference, are facts about every *)
(* finite set.  The induction theorems of the library cannot be            *)
(* instantiated by the provers, so each induction below is on the least    *)
(* size for which a fact fails (Least).                                    *)
(***************************************************************************)
EXTENDS Integers, FiniteSetsExt, FiniteSetTheorems, WellFoundedInduction, TLAPS

Sum(f, S) == MapThenSumSet(LAMBDA x : f[x], S)

OneOf(s) == CHOOSE x \in s : TRUE

\* h is the sum of f on the subsets of S.
Adds(h, f, S) ==
  h = [s \in SUBSET S |-> IF s = {} THEN 0 ELSE f[OneOf(s)] + h[s \ {OneOf(s)}]]

\* A set of natural numbers has a least element, if it has any.
LEMMA Least ==
  ASSUME NEW T \in SUBSET Nat, T # {}
  PROVE  \E m \in T : \A n \in T : m <= n
<1>1. PICK m \in T : \A n \in T : ~ (<<n, m>> \in OpToRel(<, Nat))
  BY NatLessThanWellFounded, WFMin
<1>2. \A n \in T : ~(n < m)
  BY <1>1 DEF OpToRel
<1> QED
  BY <1>2

\* The sizes of the subsets of a finite set, and how to take an element away.
LEMMA SubsetSizes ==
  ASSUME NEW S, IsFiniteSet(S), NEW s \in SUBSET S
  PROVE  /\ IsFiniteSet(s) /\ Cardinality(s) \in Nat
         /\ Cardinality(s) = 0 <=> s = {}
         /\ s # {} => OneOf(s) \in s
         /\ \A x \in s : Cardinality(s \ {x}) = Cardinality(s) - 1
BY FS_Subset, FS_CardinalityType, FS_EmptySet, FS_RemoveElement DEF OneOf

\* Every finite set has such a sum: it is there on the subsets of any size.
LEMMA AddsExists ==
  ASSUME NEW S, IsFiniteSet(S), NEW f
  PROVE  \E h : Adds(h, f, S)
<1> DEFINE
    Small(n) == {s \in SUBSET S : Cardinality(s) <= n}
    Next(h, s) == IF s = {} THEN 0 ELSE f[OneOf(s)] + h[s \ {OneOf(s)}]
    Has(n) == \E h : h = [s \in Small(n) |-> Next(h, s)]
    Lacking == {n \in Nat : ~Has(n)}
<1>1. Lacking = {}
  <2>1. SUFFICES ASSUME Lacking # {} PROVE FALSE
    OBVIOUS
  <2>2. PICK m \in Lacking : \A n \in Lacking : m <= n
    BY <2>1, Least
  <2>3. m # 0
    <3>1. \A s \in Small(0) : s = {}
      BY SubsetSizes
    <3>2. \A h : \A s \in Small(0) : Next(h, s) = 0
      BY <3>1
    <3>3. [s \in Small(0) |-> 0] = [s \in Small(0) |-> Next([t \in Small(0) |-> 0], s)]
      BY <3>2
    <3>4. Has(0)
      BY <3>3
    <3> HIDE DEF Has
    <3> QED
      BY <2>2, <3>4
  <2>4. m - 1 \in Nat /\ Has(m - 1)
    <3> HIDE DEF Has
    <3> QED
      BY <2>2, <2>3
  <2>5. PICK h : h = [s \in Small(m - 1) |-> Next(h, s)]
    BY <2>4
  <2> DEFINE k == [s \in Small(m) |-> Next(h, s)]
  <2>6. ASSUME NEW s \in Small(m - 1) PROVE s \in Small(m) /\ k[s] = h[s]
    <3>1. Cardinality(s) <= m
      BY <2>2, SubsetSizes
    <3>2. s \in Small(m)
      BY <3>1
    <3>3. h[s] = Next(h, s)
      BY <2>5
    <3> QED
      BY <3>2, <3>3
  <2>7. ASSUME NEW s \in Small(m), s # {} PROVE s \ {OneOf(s)} \in Small(m - 1)
    BY <2>2, <2>7, SubsetSizes
  <2>8. \A s \in Small(m) : Next(h, s) = Next(k, s)
    BY <2>6, <2>7
  <2>9. k = [s \in Small(m) |-> Next(k, s)]
    BY <2>8
  <2> QED
    BY <2>2, <2>9
<1>2. Cardinality(S) \in Nat
  BY FS_CardinalityType
<1>3. PICK h : h = [s \in Small(Cardinality(S)) |-> Next(h, s)]
  BY <1>1, <1>2
<1>4. Small(Cardinality(S)) = SUBSET S
  BY FS_Subset
<1> QED
  BY <1>3, <1>4 DEF Adds

\* The sum of integers is an integer, and any element may be taken first.
LEMMA AddsRemove ==
  ASSUME NEW S, IsFiniteSet(S), NEW f, \A x \in S : f[x] \in Int,
         NEW h, Adds(h, f, S)
  PROVE  \A s \in SUBSET S : /\ h[s] \in Int
                             /\ \A e \in s : h[s] = f[e] + h[s \ {e}]
<1> DEFINE
    Good(s) == h[s] \in Int /\ \A e \in s : h[s] = f[e] + h[s \ {e}]
    Bad == {n \in Nat : \E s \in SUBSET S : Cardinality(s) = n /\ ~Good(s)}
<1>1. Bad = {}
  <2>1. SUFFICES ASSUME Bad # {} PROVE FALSE
    OBVIOUS
  <2>2. PICK m \in Bad : \A n \in Bad : m <= n
    BY <2>1, Least
  <2>3. PICK s \in SUBSET S : Cardinality(s) = m /\ ~Good(s)
    BY <2>2
  <2>4. \A t \in SUBSET S : Cardinality(t) < m => Good(t)
    BY <2>2, SubsetSizes
  <2>5. h[{}] = 0
    BY DEF Adds
  <2>6. s # {} /\ OneOf(s) \in s
    <3>1. Good({})
      BY <2>5
    <3> HIDE DEF Good
    <3> QED
      BY <2>3, <3>1, SubsetSizes
  <2> DEFINE x == OneOf(s)
  <2>7. h[s] = f[x] + h[s \ {x}]
    BY <2>6 DEF Adds
  <2>8. \A e \in s : Cardinality(s \ {e}) < m
    BY <2>3, SubsetSizes
  <2>9. \A e \in s : Good(s \ {e})
    BY <2>4, <2>8
  <2>10. h[s] \in Int
    <3>1. f[x] \in Int /\ h[s \ {x}] \in Int
      BY <2>3, <2>6, <2>9
    <3>2. \A a, b \in Int : a + b \in Int
      OBVIOUS
    <3> HIDE DEF x
    <3> QED
      BY <2>7, <3>1, <3>2
  <2>11. ASSUME NEW e \in s PROVE h[s] = f[e] + h[s \ {e}]
    <3>1. CASE e = x
      BY <3>1, <2>7
    <3>2. CASE e # x
      <4>1. h[s \ {x}] = f[e] + h[(s \ {x}) \ {e}]
        BY <2>6, <2>9, <3>2
      <4>2. h[s \ {e}] = f[x] + h[(s \ {e}) \ {x}]
        BY <2>6, <2>9, <3>2
      <4>3. (s \ {x}) \ {e} = (s \ {e}) \ {x}
        OBVIOUS
      <4>4. h[(s \ {e}) \ {x}] \in Int /\ f[e] \in Int /\ f[x] \in Int
        <5>1. Cardinality((s \ {e}) \ {x}) < m
          <6>1. Cardinality((s \ {e}) \ {x}) = Cardinality(s \ {e}) - 1
            BY <2>6, <3>2, SubsetSizes
          <6> QED
            BY <6>1, <2>3, <2>8, SubsetSizes
        <5>2. Good((s \ {e}) \ {x})
          BY <5>1, <2>4
        <5> QED
          BY <5>2, <2>6
      <4> HIDE DEF x
      <4>5. h[s] = f[x] + (f[e] + h[(s \ {e}) \ {x}])
        BY <2>7, <4>1, <4>3
      <4>6. \A a, b, c \in Int : a + (b + c) = b + (a + c)
        OBVIOUS
      <4> QED
        BY <4>2, <4>4, <4>5, <4>6
    <3> QED
      BY <3>1, <3>2
  <2> QED
    BY <2>3, <2>10, <2>11
<1> QED
  BY <1>1, SubsetSizes

\* A sum depends on the values that are added only.
LEMMA AddsAgree ==
  ASSUME NEW S, IsFiniteSet(S), NEW f, NEW h, Adds(h, f, S),
         NEW T, IsFiniteSet(T), NEW g, NEW k, Adds(k, g, T),
         NEW s \in (SUBSET S) \cap SUBSET T, \A x \in s : f[x] = g[x]
  PROVE  h[s] = k[s]
<1> DEFINE
    Bad == {n \in Nat : \E t \in SUBSET s : Cardinality(t) = n /\ h[t] # k[t]}
<1>1. Bad = {}
  <2>1. SUFFICES ASSUME Bad # {} PROVE FALSE
    OBVIOUS
  <2>2. PICK m \in Bad : \A n \in Bad : m <= n
    BY <2>1, Least
  <2>3. PICK t \in SUBSET s : Cardinality(t) = m /\ h[t] # k[t]
    BY <2>2
  <2>4. t # {}
    BY <2>3 DEF Adds
  <2>5. OneOf(t) \in t /\ Cardinality(t \ {OneOf(t)}) = m - 1
    BY <2>3, <2>4, SubsetSizes
  <2>6. h[t \ {OneOf(t)}] = k[t \ {OneOf(t)}]
    <3>1. m - 1 \in Nat
      BY <2>3, <2>4, <2>5, SubsetSizes
    <3>2. m - 1 \notin Bad
      BY <2>2, <3>1
    <3> QED
      BY <2>5, <3>1, <3>2
  <2>7. t \in SUBSET S /\ t \in SUBSET T /\ f[OneOf(t)] = g[OneOf(t)]
    BY <2>5
  <2>8. h[t] = f[OneOf(t)] + h[t \ {OneOf(t)}]
    BY <2>4, <2>7 DEF Adds
  <2>9. k[t] = g[OneOf(t)] + k[t \ {OneOf(t)}]
    BY <2>4, <2>7 DEF Adds
  <2> QED
    BY <2>3, <2>6, <2>7, <2>8, <2>9
<1> QED
  BY <1>1, SubsetSizes

-----------------------------------------------------------------------------
\* The sum is what such a function yields for the whole set.
LEMMA SumAdds ==
  ASSUME NEW S, IsFiniteSet(S), NEW f
  PROVE  \E h : Adds(h, f, S) /\ Sum(f, S) = h[S]
<1>1. \E h : h = [s \in SUBSET S |-> IF s = {} THEN 0
                     ELSE f[CHOOSE x \in s : TRUE] + h[s \ {CHOOSE x \in s : TRUE}]]
  <2>1. PICK h : Adds(h, f, S)
    BY AddsExists
  <2> QED
    BY <2>1 DEF Adds, OneOf
<1>2. \E h : /\ h = [s \in SUBSET S |-> IF s = {} THEN 0
                     ELSE f[CHOOSE x \in s : TRUE] + h[s \ {CHOOSE x \in s : TRUE}]]
            /\ Sum(f, S) = h[S]
  BY <1>1 DEF Sum, MapThenSumSet, MapThenFoldSet
<1> QED
  BY <1>2 DEF Adds, OneOf

\* A sum of integers is one.
THEOREM SumInt ==
  ASSUME NEW S, IsFiniteSet(S), NEW f, \A x \in S : f[x] \in Int
  PROVE  Sum(f, S) \in Int
BY SumAdds, AddsRemove

\* The sum over no elements.
THEOREM SumEmpty ==
  ASSUME NEW f
  PROVE  Sum(f, {}) = 0
<1>1. PICK h : Adds(h, f, {}) /\ Sum(f, {}) = h[{}]
  BY SumAdds, FS_EmptySet
<1> QED
  BY <1>1 DEF Adds

\* Equal values have equal sums.
THEOREM SumSame ==
  ASSUME NEW S, IsFiniteSet(S), NEW f, NEW g, \A x \in S : f[x] = g[x]
  PROVE  Sum(f, S) = Sum(g, S)
<1>1. PICK h : Adds(h, f, S) /\ Sum(f, S) = h[S]
  BY SumAdds
<1>2. PICK k : Adds(k, g, S) /\ Sum(g, S) = k[S]
  BY SumAdds
<1> QED
  BY <1>1, <1>2, AddsAgree

\* An element may be taken out of the sum.
THEOREM SumRemove ==
  ASSUME NEW S, IsFiniteSet(S), NEW f, \A x \in S : f[x] \in Int, NEW e \in S
  PROVE  Sum(f, S) = f[e] + Sum(f, S \ {e})
<1>1. PICK h : Adds(h, f, S) /\ Sum(f, S) = h[S]
  BY SumAdds
<1>2. IsFiniteSet(S \ {e})
  BY FS_Subset
<1>3. PICK k : Adds(k, f, S \ {e}) /\ Sum(f, S \ {e}) = k[S \ {e}]
  BY <1>2, SumAdds
<1>4. h[S \ {e}] = k[S \ {e}]
  BY <1>1, <1>2, <1>3, AddsAgree
<1>5. h[S] = f[e] + h[S \ {e}]
  <2>1. \A s \in SUBSET S : /\ h[s] \in Int
                            /\ \A x \in s : h[s] = f[x] + h[s \ {x}]
    BY <1>1, AddsRemove, Z3
  <2>2. S \in SUBSET S
    OBVIOUS
  <2> QED
    BY <2>1, <2>2
<1> QED
  BY <1>1, <1>3, <1>4, <1>5

\* The sum changes with one value by as much as the value does.
THEOREM SumChange ==
  ASSUME NEW S, IsFiniteSet(S), NEW f, NEW g,
         \A x \in S : f[x] \in Int /\ g[x] \in Int,
         NEW e \in S, \A x \in S \ {e} : g[x] = f[x]
  PROVE  Sum(g, S) = Sum(f, S) + g[e] - f[e]
<1>1. IsFiniteSet(S \ {e})
  BY FS_Subset
<1>2. Sum(g, S \ {e}) = Sum(f, S \ {e}) /\ Sum(f, S \ {e}) \in Int
  BY <1>1, SumSame, SumInt
<1>3. /\ Sum(f, S) = f[e] + Sum(f, S \ {e})
      /\ Sum(g, S) = g[e] + Sum(g, S \ {e})
  BY SumRemove
<1> QED
  BY <1>2, <1>3

\* A sum of values none of which is greater is not greater.
THEOREM SumAtMost ==
  ASSUME NEW S, IsFiniteSet(S), NEW f, NEW g,
         \A x \in S : f[x] \in Int /\ g[x] \in Int /\ f[x] <= g[x]
  PROVE  Sum(f, S) <= Sum(g, S)
<1> DEFINE
    Worse(s) == s \in SUBSET S /\ ~(Sum(f, s) <= Sum(g, s))
    Bad == {n \in Nat : \E s : Worse(s) /\ Cardinality(s) = n}
<1>1. Bad = {}
  <2>1. SUFFICES ASSUME Bad # {} PROVE FALSE
    OBVIOUS
  <2>2. PICK m \in Bad : \A n \in Bad : m <= n
    BY <2>1, Least
  <2>3. PICK s : Worse(s) /\ Cardinality(s) = m
    BY <2>2
  <2>4. s # {}
    BY <2>3, SumEmpty
  <2>5. PICK e \in s : IsFiniteSet(s) /\ IsFiniteSet(s \ {e})
                      /\ Cardinality(s \ {e}) = m - 1
    BY <2>3, <2>4, SubsetSizes, FS_Subset
  <2>6. Sum(f, s \ {e}) <= Sum(g, s \ {e})
    <3>1. m - 1 \in Nat /\ m - 1 \notin Bad
      BY <2>2, <2>3, <2>4, <2>5, SubsetSizes
    <3>2. ~Worse(s \ {e})
      BY <2>5, <3>1
    <3> QED
      BY <2>3, <3>2
  <2>7. /\ Sum(f, s) = f[e] + Sum(f, s \ {e}) /\ Sum(f, s \ {e}) \in Int
        /\ Sum(g, s) = g[e] + Sum(g, s \ {e}) /\ Sum(g, s \ {e}) \in Int
    BY <2>3, <2>5, SumRemove, SumInt
  <2> QED
    BY <2>3, <2>5, <2>6, <2>7
<1> QED
  BY <1>1, SubsetSizes

\* As many times a value as there are elements.
THEOREM SumConstant ==
  ASSUME NEW S, IsFiniteSet(S), NEW f, NEW v \in Int, \A x \in S : f[x] = v
  PROVE  Sum(f, S) = v * Cardinality(S)
<1> DEFINE
    Wrong(s) == s \in SUBSET S /\ Sum(f, s) # v * Cardinality(s)
    Bad == {n \in Nat : \E s : Wrong(s) /\ Cardinality(s) = n}
<1>1. Bad = {}
  <2>1. SUFFICES ASSUME Bad # {} PROVE FALSE
    OBVIOUS
  <2>2. PICK m \in Bad : \A n \in Bad : m <= n
    BY <2>1, Least
  <2>3. PICK s : Wrong(s) /\ Cardinality(s) = m
    BY <2>2
  <2>4. s # {}
    <3>1. v * 0 = 0 /\ Cardinality({}) = 0
      BY FS_EmptySet
    <3>2. ~Wrong({})
      BY <3>1, SumEmpty
    <3> QED
      BY <2>3, <3>2
  <2>5. PICK e \in s : IsFiniteSet(s) /\ IsFiniteSet(s \ {e})
                      /\ Cardinality(s \ {e}) = m - 1
    BY <2>3, <2>4, SubsetSizes, FS_Subset
  <2>6. Sum(f, s \ {e}) = v * (m - 1)
    <3>1. m - 1 \in Nat /\ m - 1 \notin Bad
      BY <2>2, <2>3, <2>4, <2>5, SubsetSizes
    <3>2. ~Wrong(s \ {e})
      BY <2>5, <3>1
    <3> QED
      BY <2>3, <2>5, <3>2
  <2>7. Sum(f, s) = v + Sum(f, s \ {e})
    BY <2>3, <2>5, SumRemove
  <2>8. v + v * (m - 1) = v * m
    BY <2>2
  <2> QED
    BY <2>3, <2>6, <2>7, <2>8
<1> QED
  BY <1>1, SubsetSizes
=============================================================================
