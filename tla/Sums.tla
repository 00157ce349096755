-------------------------------- MODULE Sums --------------------------------
(***************************************************************************)
(* Sums over finite sets, SumFunctionOnSet of the community modules, as    *)
(* what they are: nothing over no element, and one more summand with one   *)
(* more element, in whatever order the elements are taken.                 *)
(*                                                                         *)
(* The sum is a recursive function, defined by choosing an element and     *)
(* going on with the others.  That such a function exists, and that the    *)
(* choice does not matter, are inductions, told here by the least number,  *)
(* and by a smallest set, that would be an exception.                      *)
(***************************************************************************)
EXTENDS Integers, FiniteSets, Functions, FiniteSetTheorems, WellFoundedInduction, TLAPS

\* Of any natural numbers one is the least.
LEMMA LeastOf ==
  ASSUME NEW S \in SUBSET Nat, S # {}
  PROVE  \E q \in S : \A other \in S : q <= other
<1> DEFINE less == OpToRel(<, Nat)
<1>1. IsWellFoundedOn(less, Nat)
  BY NatLessThanWellFounded, Zenon
<1>2. \A x \in Nat, y \in Nat : x < y => <<x, y>> \in less
  BY DEF OpToRel
<1> HIDE DEF less
<1>3. PICK q \in S : \A other \in S : <<other, q>> \notin less
  BY <1>1, WFMin
<1>4. \A other \in S : q <= other
  <2> TAKE other \in S
  <2>1. q \in Nat /\ other \in Nat /\ ~(other < q)
    BY <1>2, <1>3
  <2> QED
    BY <2>1
<1> QED
  BY <1>4

\* Of any subsets of a finite set one has none of the others within it.
LEMMA SmallestOf ==
  ASSUME NEW S, IsFiniteSet(S), NEW B \in SUBSET (SUBSET S), B # {}
  PROVE  \E s \in B : \A x \in s : s \ {x} \notin B
<1> DEFINE sizes == {Cardinality(s) : s \in B}
<1>1. \A s \in B : IsFiniteSet(s) /\ Cardinality(s) \in Nat
  BY FS_Subset, FS_CardinalityType
<1>2. sizes \in SUBSET Nat /\ sizes # {}
  BY <1>1
<1> HIDE DEF sizes
<1>3. PICK q \in sizes : \A other \in sizes : q <= other
  BY <1>2, LeastOf
<1> USE DEF sizes
<1>4. PICK s \in B : Cardinality(s) = q
  BY <1>3
<1>5. ASSUME NEW x \in s, s \ {x} \in B
      PROVE  FALSE
  <2>1. Cardinality(s \ {x}) = Cardinality(s) - 1
    BY <1>1, FS_RemoveElement
  <2>2. q <= Cardinality(s \ {x})
    BY <1>3, <1>5
  <2> QED
    BY <1>1, <1>4, <2>1, <2>2
<1> QED
  BY <1>5
-----------------------------------------------------------------------------
(* The recursive function *)

\* What can be summed up.
Summable(f, S) == IsFiniteSet(S) /\ \A x \in S : f[x] \in Int

\* The element that is taken first.
First(s) == CHOOSE x \in s : TRUE

IsSum(f, S, sum) ==
  sum = [s \in SUBSET S |-> IF s = {} THEN 0 ELSE f[First(s)] + sum[s \ {First(s)}]]

LEMMA FirstIsElement ==
  ASSUME NEW s, s # {}
  PROVE  First(s) \in s
  BY DEF First

LEMMA SumUnfolds ==
  ASSUME NEW f, NEW S
  PROVE  SumFunctionOnSet(f, S) = (CHOOSE sum : IsSum(f, S, sum))[S]
  BY DEF SumFunctionOnSet, FoldFunctionOnSet, MapThenFoldSet, IsSum, First

\* What a function does that sums up the sets of up to n elements.
SumsUpTo(n, f, S, g) ==
  \A s \in SUBSET S : Cardinality(s) <= n =>
    g[s] = IF s = {} THEN 0 ELSE f[First(s)] + g[s \ {First(s)}]

LEMMA OneMoreElement ==
  ASSUME NEW S, IsFiniteSet(S), NEW f \in [S -> Int], NEW m \in Nat \ {0},
         NEW g \in [SUBSET S -> Int], SumsUpTo(m - 1, f, S, g)
  PROVE  \E h \in [SUBSET S -> Int] : SumsUpTo(m, f, S, h)
<1> DEFINE h == [s \in SUBSET S |->
                   IF Cardinality(s) < m THEN g[s] ELSE f[First(s)] + g[s \ {First(s)}]]
<1>1. \A s \in SUBSET S : Cardinality(s) \in Nat /\ (s = {} => Cardinality(s) = 0)
  BY FS_Subset, FS_CardinalityType, FS_EmptySet
<1>2. \A s \in SUBSET S : s # {} =>
        /\ First(s) \in S /\ s \ {First(s)} \in SUBSET S
        /\ Cardinality(s \ {First(s)}) = Cardinality(s) - 1
  <2> TAKE s \in SUBSET S
  <2> HAVE s # {}
  <2>1. IsFiniteSet(s) /\ First(s) \in s
    BY FS_Subset, FirstIsElement
  <2> QED
    BY <2>1, FS_RemoveElement
<1>3. h \in [SUBSET S -> Int]
  <2> SUFFICES ASSUME NEW s \in SUBSET S, ~(Cardinality(s) < m)
               PROVE  f[First(s)] + g[s \ {First(s)}] \in Int
    OBVIOUS
  <2>1. s # {}
    BY <1>1
  <2>2. First(s) \in S /\ s \ {First(s)} \in SUBSET S
    BY <1>2, <2>1
  <2>3. f[First(s)] \in Int /\ g[s \ {First(s)}] \in Int
    BY <2>2
  <2> QED
    BY <2>3
<1>4. ASSUME NEW s \in SUBSET S, Cardinality(s) <= m
      PROVE  h[s] = IF s = {} THEN 0 ELSE f[First(s)] + h[s \ {First(s)}]
  <2>1. CASE s = {}
    BY <1>1, <2>1 DEF SumsUpTo
  <2>2. CASE s # {}
    <3>1. /\ s \ {First(s)} \in SUBSET S /\ Cardinality(s) \in Nat
          /\ Cardinality(s \ {First(s)}) = Cardinality(s) - 1
      BY <1>1, <1>2, <2>2
    <3>2. h[s \ {First(s)}] = g[s \ {First(s)}]
      BY <1>4, <3>1
    <3>3. CASE Cardinality(s) < m
      <4>1. g[s] = f[First(s)] + g[s \ {First(s)}]
        BY <2>2, <3>1, <3>3 DEF SumsUpTo
      <4> QED
        BY <2>2, <3>2, <3>3, <4>1
    <3>4. CASE ~(Cardinality(s) < m)
      BY <2>2, <3>2, <3>4
    <3> QED
      BY <3>3, <3>4
  <2> QED
    BY <2>1, <2>2
<1> HIDE DEF h
<1> QED
  BY <1>3, <1>4 DEF SumsUpTo

\* The function exists: from the sums of the sets of up to n elements follow those of
\* the sets of one more.
LEMMA SumExists ==
  ASSUME NEW S, IsFiniteSet(S), NEW f \in [S -> Int]
  PROVE  \E sum \in [SUBSET S -> Int] : IsSum(f, S, sum)
<1> DEFINE Bad == {n \in Nat : ~ \E g \in [SUBSET S -> Int] : SumsUpTo(n, f, S, g)}
<1>1. \A s \in SUBSET S : Cardinality(s) \in Nat /\ Cardinality(s) <= Cardinality(S)
  BY FS_Subset, FS_CardinalityType
<1>2. \E g \in [SUBSET S -> Int] : SumsUpTo(0, f, S, g)
  <2> DEFINE g == [s \in SUBSET S |-> 0]
  <2>1. \A s \in SUBSET S : Cardinality(s) <= 0 => s = {}
    BY <1>1, FS_Subset, FS_EmptySet
  <2>2. g \in [SUBSET S -> Int] /\ SumsUpTo(0, f, S, g)
    BY <2>1 DEF SumsUpTo
  <2> QED
    BY <2>2
<1>3. ASSUME NEW m \in Bad, \A other \in Bad : m <= other
      PROVE  FALSE
  <2>1. m \in Nat \ {0}
    BY <1>2
  <2>2. m - 1 \in Nat /\ m - 1 \notin Bad
    <3> HIDE DEF Bad
    <3> QED
      BY <1>3, <2>1
  <2>3. PICK g \in [SUBSET S -> Int] : SumsUpTo(m - 1, f, S, g)
    BY <2>2
  <2>4. \E h \in [SUBSET S -> Int] : SumsUpTo(m, f, S, h)
    BY <2>1, <2>3, OneMoreElement
  <2> QED
    BY <2>4
<1>4. Bad \in SUBSET Nat
  OBVIOUS
<1> HIDE DEF Bad
<1>5. Bad = {}
  BY <1>3, <1>4, LeastOf
<1>6. Cardinality(S) \in Nat
  BY FS_CardinalityType
<1>7. PICK g \in [SUBSET S -> Int] : SumsUpTo(Cardinality(S), f, S, g)
  BY <1>5, <1>6 DEF Bad
<1>8. \A s \in SUBSET S : g[s] = IF s = {} THEN 0 ELSE f[First(s)] + g[s \ {First(s)}]
  BY <1>1, <1>7 DEF SumsUpTo
<1>9. IsSum(f, S, g)
  BY <1>8 DEF IsSum
<1> QED
  BY <1>9

\* It depends on the summands alone.
LEMMA SumsAgree ==
  ASSUME NEW S, NEW T \in SUBSET S, IsFiniteSet(S),
         NEW f, NEW g, \A x \in T : f[x] = g[x],
         NEW a, IsSum(f, S, a), NEW b, IsSum(g, T, b)
  PROVE  a[T] = b[T]
<1> DEFINE Bad == {s \in SUBSET T : a[s] # b[s]}
<1>1. \A s \in SUBSET T : a[s] = IF s = {} THEN 0 ELSE f[First(s)] + a[s \ {First(s)}]
  BY DEF IsSum
<1>2. \A s \in SUBSET T : b[s] = IF s = {} THEN 0 ELSE g[First(s)] + b[s \ {First(s)}]
  BY DEF IsSum
<1>3. ASSUME NEW s \in Bad, \A x \in s : s \ {x} \notin Bad
      PROVE  FALSE
  <2>1. s # {}
    BY <1>1, <1>2
  <2>2. First(s) \in s
    BY <2>1, FirstIsElement
  <2>3. s \ {First(s)} \notin Bad /\ s \ {First(s)} \in SUBSET T
    BY <1>3, <2>2
  <2>4. f[First(s)] = g[First(s)] /\ a[s \ {First(s)}] = b[s \ {First(s)}]
    BY <2>2, <2>3
  <2>5. a[s] = f[First(s)] + a[s \ {First(s)}]
    BY <1>1, <2>1
  <2>6. b[s] = g[First(s)] + b[s \ {First(s)}]
    BY <1>2, <2>1
  <2> QED
    BY <2>4, <2>5, <2>6
<1> HIDE DEF Bad
<1>4. Bad \in SUBSET (SUBSET T) /\ IsFiniteSet(T)
  BY FS_Subset DEF Bad
<1>5. Bad = {}
  BY <1>3, <1>4, SmallestOf
<1> QED
  BY <1>5 DEF Bad

\* What SumFunctionOnSet is.
LEMMA SumIsSum ==
  ASSUME NEW f, NEW S, Summable(f, S)
  PROVE  \E sum : /\ IsSum(f, S, sum) /\ SumFunctionOnSet(f, S) = sum[S]
                  /\ SumFunctionOnSet(f, S) \in Int
<1> DEFINE g == [x \in S |-> f[x]]
           iter == CHOOSE sum : IsSum(f, S, sum)
<1>1. g \in [S -> Int] /\ IsFiniteSet(S)
  BY DEF Summable
<1>2. PICK sum \in [SUBSET S -> Int] : IsSum(g, S, sum)
  BY <1>1, SumExists
<1>3. \A s \in SUBSET S : s # {} => f[First(s)] = g[First(s)]
  BY FirstIsElement
<1>4. sum = [s \in SUBSET S |-> IF s = {} THEN 0 ELSE f[First(s)] + sum[s \ {First(s)}]]
  BY <1>2, <1>3 DEF IsSum
<1>5. IsSum(f, S, sum)
  BY <1>4 DEF IsSum
<1>6. IsSum(f, S, iter)
  BY <1>5
<1>7. SumFunctionOnSet(f, S) = iter[S]
  BY SumUnfolds
<1> HIDE DEF iter, g
<1>8. S \in SUBSET S /\ \A x \in S : f[x] = f[x]
  OBVIOUS
<1>9. iter[S] = sum[S]
  BY <1>1, <1>5, <1>6, <1>8, SumsAgree
<1>10. sum[S] \in Int
  BY <1>2
<1> QED
  BY <1>5, <1>7, <1>9, <1>10
-----------------------------------------------------------------------------
(* What the other modules use *)

\* A sum depends on its summands alone.
LEMMA SumSame ==
  ASSUME NEW f, NEW g, NEW S, Summable(f, S), \A x \in S : f[x] = g[x]
  PROVE  SumFunctionOnSet(f, S) = SumFunctionOnSet(g, S)
<1>1. Summable(g, S) /\ IsFiniteSet(S) /\ S \in SUBSET S
  BY DEF Summable
<1>2. PICK a : IsSum(f, S, a) /\ SumFunctionOnSet(f, S) = a[S]
  BY SumIsSum
<1>3. PICK b : IsSum(g, S, b) /\ SumFunctionOnSet(g, S) = b[S]
  BY <1>1, SumIsSum
<1>4. a[S] = b[S]
  BY <1>1, <1>2, <1>3, SumsAgree
<1> QED
  BY <1>2, <1>3, <1>4

\* Nothing sums up to nothing.
LEMMA SumEmpty ==
  ASSUME NEW f
  PROVE  SumFunctionOnSet(f, {}) = 0
<1>1. Summable(f, {})
  BY FS_EmptySet DEF Summable
<1>2. PICK sum : IsSum(f, {}, sum) /\ SumFunctionOnSet(f, {}) = sum[{}]
  BY <1>1, SumIsSum
<1>3. sum[{}] = 0
  BY <1>2 DEF IsSum
<1> QED
  BY <1>2, <1>3

\* What is summable is so in part.
LEMMA SummablePart ==
  ASSUME NEW f, NEW S, Summable(f, S), NEW T \in SUBSET S
  PROVE  Summable(f, T)
  BY FS_Subset DEF Summable

\* One step of the recursion.
LEMMA SumFirst ==
  ASSUME NEW f, NEW S, Summable(f, S), S # {}
  PROVE  SumFunctionOnSet(f, S) = f[First(S)] + SumFunctionOnSet(f, S \ {First(S)})
<1> DEFINE T == S \ {First(S)}
<1>1. T \in SUBSET S /\ Summable(f, T) /\ IsFiniteSet(S)
  BY SummablePart DEF Summable
<1>2. PICK a : IsSum(f, S, a) /\ SumFunctionOnSet(f, S) = a[S]
  BY SumIsSum
<1>3. PICK b : IsSum(f, T, b) /\ SumFunctionOnSet(f, T) = b[T]
  BY <1>1, SumIsSum
<1>4. a[S] = f[First(S)] + a[T]
  BY <1>2 DEF IsSum
<1> HIDE DEF T
<1>5. \A x \in T : f[x] = f[x]
  OBVIOUS
<1>6. a[T] = b[T]
  BY <1>1, <1>2, <1>3, <1>5, SumsAgree
<1> QED
  BY <1>2, <1>3, <1>4, <1>6 DEF T

\* Any element may be taken out.
LEMMA SumTakesOut ==
  ASSUME NEW f, NEW S, Summable(f, S), NEW y \in S
  PROVE  SumFunctionOnSet(f, S) = f[y] + SumFunctionOnSet(f, S \ {y})
<1> DEFINE Sum(s) == SumFunctionOnSet(f, s)
           Bad == {s \in SUBSET S : \E x \in s : Sum(s) # f[x] + Sum(s \ {x})}
<1>1. \A s \in SUBSET S : Summable(f, s)
  BY SummablePart
<1>2. \A s \in SUBSET S : Sum(s) \in Int
  <2> TAKE s \in SUBSET S
  <2> QED
    BY <1>1, SumIsSum
<1>3. \A s \in SUBSET S : s # {} =>
        First(s) \in s /\ Sum(s) = f[First(s)] + Sum(s \ {First(s)})
  <2> TAKE s \in SUBSET S
  <2> HAVE s # {}
  <2> QED
    BY <1>1, SumFirst, FirstIsElement
<1> HIDE DEF Sum
<1>4. ASSUME NEW s \in Bad, \A x \in s : s \ {x} \notin Bad
      PROVE  FALSE
  <2>1. PICK x \in s : Sum(s) # f[x] + Sum(s \ {x})
    OBVIOUS
  <2> DEFINE c == First(s)
  <2>2. c \in s /\ Sum(s) = f[c] + Sum(s \ {c})
    BY <1>3
  <2>3. x # c
    BY <2>1, <2>2
  <2> HIDE DEF c
  <2>4. Sum(s \ {c}) = f[x] + Sum((s \ {c}) \ {x})
    BY <1>4, <2>2, <2>3
  <2>5. Sum(s \ {x}) = f[c] + Sum((s \ {x}) \ {c})
    BY <1>4, <2>2, <2>3
  <2>6. (s \ {c}) \ {x} = (s \ {x}) \ {c}
    OBVIOUS
  <2>7. f[x] \in Int /\ f[c] \in Int
    BY <2>2 DEF Summable
  <2>8. Sum((s \ {x}) \ {c}) \in Int
    BY <1>2
  <2>9. f[c] + (f[x] + Sum((s \ {x}) \ {c})) = f[x] + (f[c] + Sum((s \ {x}) \ {c}))
    BY <2>7, <2>8
  <2> QED
    BY <2>1, <2>2, <2>4, <2>5, <2>6, <2>9, Zenon
<1> HIDE DEF Bad
<1>5. Bad \in SUBSET (SUBSET S) /\ IsFiniteSet(S)
  BY DEF Bad, Summable
<1>6. Bad = {}
  BY <1>4, <1>5, SmallestOf
<1>7. Sum(S) = f[y] + Sum(S \ {y})
  BY <1>6 DEF Bad
<1> QED
  BY <1>7 DEF Sum

\* Summands that are not negative have such a sum.
LEMMA SumOfNat ==
  ASSUME NEW f, NEW S, IsFiniteSet(S), \A x \in S : f[x] \in Nat
  PROVE  SumFunctionOnSet(f, S) \in Nat
<1> DEFINE Bad == {s \in SUBSET S : SumFunctionOnSet(f, s) \notin Nat}
<1>1. \A s \in SUBSET S : Summable(f, s)
  BY FS_Subset DEF Summable
<1>2. ASSUME NEW s \in Bad, \A x \in s : s \ {x} \notin Bad
      PROVE  FALSE
  <2>1. s # {}
    BY SumEmpty
  <2>2. First(s) \in s
    BY <2>1, FirstIsElement
  <2>3. SumFunctionOnSet(f, s) = f[First(s)] + SumFunctionOnSet(f, s \ {First(s)})
    BY <1>1, <2>1, SumFirst
  <2>4. SumFunctionOnSet(f, s \ {First(s)}) \in Nat /\ f[First(s)] \in Nat
    BY <1>2, <2>2
  <2> QED
    BY <2>3, <2>4
<1> HIDE DEF Bad
<1>3. Bad \in SUBSET (SUBSET S)
  BY DEF Bad
<1>4. Bad = {}
  BY <1>2, <1>3, SmallestOf
<1> QED
  BY <1>4 DEF Bad

\* Zeros sum up to zero.
LEMMA SumOfZeros ==
  ASSUME NEW f, NEW S, IsFiniteSet(S), \A x \in S : f[x] = 0
  PROVE  SumFunctionOnSet(f, S) = 0
<1> DEFINE Bad == {s \in SUBSET S : SumFunctionOnSet(f, s) # 0}
<1>1. \A s \in SUBSET S : Summable(f, s)
  BY FS_Subset DEF Summable
<1>2. ASSUME NEW s \in Bad, \A x \in s : s \ {x} \notin Bad
      PROVE  FALSE
  <2>1. s # {}
    BY SumEmpty
  <2>2. First(s) \in s
    BY <2>1, FirstIsElement
  <2>3. SumFunctionOnSet(f, s) = f[First(s)] + SumFunctionOnSet(f, s \ {First(s)})
    BY <1>1, <2>1, SumFirst
  <2>4. SumFunctionOnSet(f, s \ {First(s)}) = 0 /\ f[First(s)] = 0
    BY <1>2, <2>2
  <2> QED
    BY <2>3, <2>4
<1> HIDE DEF Bad
<1>3. Bad \in SUBSET (SUBSET S)
  BY DEF Bad
<1>4. Bad = {}
  BY <1>2, <1>3, SmallestOf
<1> QED
  BY <1>4 DEF Bad
=============================================================================
