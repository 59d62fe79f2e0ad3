----------------------------- MODULE SumLemmas -----------------------------
(***************************************************************************)
(* Induction on the natural numbers, from the least number that has a      *)
(* property (Least), and what it gives: sums over finite sets, which the   *)
(* module Functions defines by a fold that takes the elements in an order  *)
(* of its own, and functions that are defined by recursion along a list.   *)
(***************************************************************************)
EXTENDS Functions, Integers, FiniteSets, FiniteSetTheorems, WellFoundedInduction, TLAPS

Sum(f, S) == SumFunctionOnSet(f, S)

\* The element that the fold takes first.
FirstOf(s) == CHOOSE x \in s : TRUE

\* The fold recurs through the sums g of the subsets of S.
Step(f, g, s) == IF s = {} THEN 0 ELSE f[FirstOf(s)] + g[s \ {FirstOf(s)}]
Partials(f, S) == CHOOSE g : g = [s \in SUBSET S |-> Step(f, g, s)]

IntegerOn(f, S) == \A x \in S : f[x] \in Int

-----------------------------------------------------------------------------
LEMMA Least ==
    ASSUME NEW T \in SUBSET Nat, T # {}
    PROVE  \E x \in T : \A y \in T : x <= y
<1>. DEFINE R == OpToRel(<, Nat)
<1>1. IsWellFoundedOn(R, Nat)
  BY NatLessThanWellFounded, Zenon
<1>2. \A x, y \in Nat : y < x => <<y, x>> \in R
  BY DEF OpToRel
<1>. HIDE DEF R
<1>3. PICK x \in T : \A y \in T : ~(<<y, x>> \in R)
  BY <1>1, WFMin
<1>4. \A y \in T : ~(y < x)
  BY <1>2, <1>3
<1> QED
  BY <1>4

\* A set of numbers that is closed under the step from n to n + 1 has all.
LEMMA Induction ==
    ASSUME NEW P \in SUBSET Nat, 0 \in P, \A n \in P : n + 1 \in P
    PROVE  P = Nat
<1>1. SUFFICES ASSUME Nat \ P # {} PROVE FALSE
  OBVIOUS
<1>2. PICK n \in Nat \ P : \A m \in Nat \ P : n <= m
  BY <1>1, Least
<1>3. n - 1 \in Nat /\ n - 1 \in P
  BY <1>2
<1>4. (n - 1) + 1 \in P
  BY <1>3
<1> QED
  BY <1>2, <1>4

LEMMA FirstIn ==
    ASSUME NEW s, s # {}
    PROVE  FirstOf(s) \in s
BY DEF FirstOf

LEMMA SumIsPartial ==
    ASSUME NEW f, NEW S
    PROVE  Sum(f, S) = Partials(f, S)[S]
BY Zenon DEF Sum, SumFunctionOnSet, FoldFunctionOnSet, MapThenFoldSet, Partials, Step, FirstOf

LEMMA Sizes ==
    ASSUME NEW S, IsFiniteSet(S)
    PROVE  \A s \in SUBSET S : /\ Cardinality(s) \in Nat
                               /\ s # {} => /\ Cardinality(s) # 0
                                            /\ \A x \in s : Cardinality(s \ {x}) = Cardinality(s) - 1
<1>1. ASSUME NEW s \in SUBSET S
      PROVE  /\ IsFiniteSet(s) /\ Cardinality(s) \in Nat
             /\ Cardinality(s) = 0 <=> s = {}
             /\ \A x \in s : Cardinality(s \ {x}) = Cardinality(s) - 1
  BY <1>1, FS_Subset, FS_CardinalityType, FS_EmptySet, FS_RemoveElement
<1> QED
  BY <1>1

\* The recursion has a solution: one for the sets of at most n elements, for all n.
LEMMA PartialsExist ==
    ASSUME NEW f, NEW S, IsFiniteSet(S)
    PROVE  \E g : g = [s \in SUBSET S |-> Step(f, g, s)]
<1>. DEFINE Upto(n) == {s \in SUBSET S : Cardinality(s) <= n}
            Solves(g, n) == \A s \in Upto(n) : g[s] = Step(f, g, s)
            P == {n \in Nat : \E g : Solves(g, n)}
<1>1. 0 \in P
  <2>. DEFINE g == [s \in SUBSET S |-> 0]
  <2>1. \A s \in Upto(0) : s = {}
    BY Sizes
  <2>2. Solves(g, 0)
    BY <2>1 DEF Step
  <2> QED
    BY <2>2
<1>2. ASSUME NEW n \in P PROVE n + 1 \in P
  <2>1. PICK g : Solves(g, n)
    BY <1>2
  <2>. DEFINE h == [s \in SUBSET S |-> IF Cardinality(s) <= n THEN g[s] ELSE Step(f, g, s)]
  <2>2. ASSUME NEW s \in Upto(n + 1) PROVE h[s] = Step(f, g, s)
    BY <2>1, <2>2
  <2>3. ASSUME NEW s \in Upto(n + 1), s # {} PROVE h[s \ {FirstOf(s)}] = g[s \ {FirstOf(s)}]
    <3>1. FirstOf(s) \in s
      BY <2>3, FirstIn
    <3>2. Cardinality(s \ {FirstOf(s)}) <= n
      BY <2>3, <3>1, Sizes
    <3> QED
      BY <3>2
  <2>4. ASSUME NEW s \in Upto(n + 1) PROVE h[s] = Step(f, h, s)
    BY <2>2, <2>3 DEF Step
  <2>5. Solves(h, n + 1)
    BY <2>4
  <2>. HIDE DEF h, Solves
  <2> QED
    BY <2>5
<1>3. Cardinality(S) \in P
  <2>. HIDE DEF P
  <2>1. P \in SUBSET Nat
    BY DEF P
  <2> QED
    BY <1>1, <1>2, <2>1, Induction, FS_CardinalityType
<1>4. PICK g : Solves(g, Cardinality(S))
  BY <1>3
<1>5. \A s \in SUBSET S : s \in Upto(Cardinality(S))
  BY FS_Subset
<1>. DEFINE h == [s \in SUBSET S |-> g[s]]
<1>6. ASSUME NEW s \in SUBSET S PROVE Step(f, h, s) = g[s]
  BY <1>4, <1>5, <1>6, FirstIn DEF Step
<1>7. h = [s \in SUBSET S |-> Step(f, h, s)]
  BY <1>6
<1> QED
  BY <1>7

LEMMA PartialStep ==
    ASSUME NEW f, NEW S, IsFiniteSet(S)
    PROVE  \A s \in SUBSET S : Partials(f, S)[s] = Step(f, Partials(f, S), s)
<1>1. Partials(f, S) = [s \in SUBSET S |-> Step(f, Partials(f, S), s)]
  BY PartialsExist DEF Partials
<1>. DEFINE g == Partials(f, S)
<1>2. g = [s \in SUBSET S |-> Step(f, g, s)]
  BY <1>1
<1>. HIDE DEF g
<1>3. \A s \in SUBSET S : g[s] = Step(f, g, s)
  BY <1>2
<1> QED
  BY <1>3 DEF g

\* Induction on the size of the subsets of a finite set: what holds for a set when it
\* holds for all that lack one element of it.
LEMMA SubsetInduction ==
    ASSUME NEW S, IsFiniteSet(S), NEW Q \in SUBSET SUBSET S,
           \A s \in SUBSET S : (\A x \in s : s \ {x} \in Q) => s \in Q
    PROVE  Q = SUBSET S
<1>. DEFINE P == {n \in Nat : \A s \in SUBSET S : Cardinality(s) <= n => s \in Q}
<1>1. 0 \in P
  <2>1. ASSUME NEW s \in SUBSET S, Cardinality(s) <= 0 PROVE s \in Q
    <3>1. s = {}
      BY <2>1, Sizes
    <3> QED
      BY <3>1
  <2> QED
    BY <2>1
<1>2. ASSUME NEW n \in P PROVE n + 1 \in P
  <2>1. ASSUME NEW s \in SUBSET S, Cardinality(s) <= n + 1 PROVE s \in Q
    <3>1. ASSUME NEW x \in s PROVE s \ {x} \in Q
      <4>1. Cardinality(s \ {x}) <= n
        BY <2>1, Sizes
      <4> QED
        BY <1>2, <4>1
    <3> QED
      BY <3>1
  <2> QED
    BY <2>1
<1>3. P = Nat
  <2>. HIDE DEF P
  <2>1. P \in SUBSET Nat
    BY DEF P
  <2> QED
    BY <1>1, <1>2, <2>1, Induction
<1>4. \A s \in SUBSET S : s \in Q
  <2>. SUFFICES ASSUME NEW s \in SUBSET S PROVE s \in Q
    OBVIOUS
  <2>1. Cardinality(s) \in Nat
    BY Sizes
  <2> QED
    BY <1>3, <2>1
<1> QED
  BY <1>4

LEMMA PartialsInteger ==
    ASSUME NEW f, NEW S, IsFiniteSet(S), IntegerOn(f, S)
    PROVE  \A s \in SUBSET S : Partials(f, S)[s] \in Int
<1>. DEFINE g == Partials(f, S)
            Q == {s \in SUBSET S : g[s] \in Int}
<1>1. \A s \in SUBSET S : g[s] = Step(f, g, s)
  BY PartialStep
<1>. HIDE DEF g
<1>2. ASSUME NEW s \in SUBSET S, \A x \in s : s \ {x} \in Q PROVE s \in Q
  <2>1. CASE s = {}
    <3>1. g[s] = Step(f, g, s)
      BY <1>1
    <3>2. Step(f, g, s) = 0
      BY <2>1 DEF Step
    <3> QED
      BY <3>1, <3>2
  <2>2. CASE s # {}
    <3>1. FirstOf(s) \in s /\ s \ {FirstOf(s)} \in Q
      BY <1>2, <2>2, FirstIn
    <3>2. g[s] = f[FirstOf(s)] + g[s \ {FirstOf(s)}]
      BY <1>1, <2>2 DEF Step
    <3>3. f[FirstOf(s)] \in Int /\ g[s \ {FirstOf(s)}] \in Int
      BY <3>1 DEF IntegerOn
    <3> QED
      BY <3>2, <3>3
  <2> QED
    BY <2>1, <2>2
<1>3. Q = SUBSET S
  <2>. HIDE DEF Q
  <2>1. Q \in SUBSET SUBSET S
    BY DEF Q
  <2> QED
    BY <1>2, <2>1, SubsetInduction
<1> QED
  BY <1>3 DEF g

\* Two recursions over different sets agree where the functions do.
LEMMA PartialsAgree ==
    ASSUME NEW f, NEW S, IsFiniteSet(S), NEW g, NEW T, IsFiniteSet(T),
           NEW U, U \subseteq S, U \subseteq T, \A x \in U : f[x] = g[x]
    PROVE  \A s \in SUBSET U : Partials(f, S)[s] = Partials(g, T)[s]
<1>. DEFINE p == Partials(f, S)
            q == Partials(g, T)
            Q == {s \in SUBSET U : p[s] = q[s]}
<1>1. /\ \A s \in SUBSET U : p[s] = Step(f, p, s)
      /\ \A s \in SUBSET U : q[s] = Step(g, q, s)
  BY PartialStep
<1>. HIDE DEF p, q
<1>2. ASSUME NEW s \in SUBSET U, \A x \in s : s \ {x} \in Q PROVE s \in Q
  BY <1>1, <1>2, FirstIn DEF Step
<1>3. Q = SUBSET U
  <2>. HIDE DEF Q
  <2>1. Q \in SUBSET SUBSET U
    BY DEF Q
  <2> QED
    BY <1>2, <2>1, SubsetInduction, FS_Subset
<1> QED
  BY <1>3 DEF p, q

\* Whichever element is taken first.
LEMMA PartialsCommute ==
    ASSUME NEW f, NEW S, IsFiniteSet(S), IntegerOn(f, S)
    PROVE  \A s \in SUBSET S : \A x \in s :
              Partials(f, S)[s] = f[x] + Partials(f, S)[s \ {x}]
<1>. DEFINE g == Partials(f, S)
            Q == {s \in SUBSET S : \A x \in s : g[s] = f[x] + g[s \ {x}]}
<1>1. \A s \in SUBSET S : g[s] = Step(f, g, s) /\ g[s] \in Int
  BY PartialStep, PartialsInteger
<1>. HIDE DEF g
<1>2. ASSUME NEW s \in SUBSET S, \A x \in s : s \ {x} \in Q PROVE s \in Q
  <2>. SUFFICES ASSUME NEW x \in s PROVE g[s] = f[x] + g[s \ {x}]
    OBVIOUS
  <2>. DEFINE y == FirstOf(s)
  <2>1. y \in s /\ g[s] = f[y] + g[s \ {y}]
    BY <1>1, FirstIn DEF Step
  <2>. HIDE DEF y
  <2>2. CASE x = y
    BY <2>1, <2>2
  <2>3. CASE x # y
    <3>1. x \in s \ {y} /\ y \in s \ {x}
      BY <2>1, <2>3
    <3>2. g[s \ {y}] = f[x] + g[(s \ {y}) \ {x}]
      BY <1>2, <2>1, <3>1
    <3>3. g[s \ {x}] = f[y] + g[(s \ {x}) \ {y}]
      BY <1>2, <3>1
    <3>4. (s \ {y}) \ {x} = (s \ {x}) \ {y}
      OBVIOUS
    <3>5. f[x] \in Int /\ f[y] \in Int /\ g[(s \ {x}) \ {y}] \in Int
      BY <1>1, <2>1 DEF IntegerOn
    <3>6. \A a, b, c \in Int : a + (b + c) = b + (a + c)
      OBVIOUS
    <3>7. f[y] + (f[x] + g[(s \ {x}) \ {y}]) = f[x] + (f[y] + g[(s \ {x}) \ {y}])
      BY <3>5, <3>6
    <3>8. g[s \ {y}] = f[x] + g[(s \ {x}) \ {y}]
      BY <3>2, <3>4
    <3> QED
      BY <2>1, <3>3, <3>7, <3>8, Zenon
  <2> QED
    BY <2>2, <2>3
<1>3. Q = SUBSET S
  <2>. HIDE DEF Q
  <2>1. Q \in SUBSET SUBSET S
    BY DEF Q
  <2> QED
    BY <1>2, <2>1, SubsetInduction
<1> QED
  BY <1>3 DEF g

-----------------------------------------------------------------------------
(* What sums are used for.                                                 *)

LEMMA SumEmpty ==
    ASSUME NEW f
    PROVE  Sum(f, {}) = 0
BY SumIsPartial, PartialStep, FS_EmptySet DEF Step

LEMMA SumInteger ==
    ASSUME NEW f, NEW S, IsFiniteSet(S), IntegerOn(f, S)
    PROVE  Sum(f, S) \in Int
BY SumIsPartial, PartialsInteger

LEMMA SumSame ==
    ASSUME NEW f, NEW g, NEW S, IsFiniteSet(S), \A x \in S : f[x] = g[x]
    PROVE  Sum(f, S) = Sum(g, S)
BY SumIsPartial, PartialsAgree

LEMMA SumZero ==
    ASSUME NEW f, NEW S, IsFiniteSet(S), \A x \in S : f[x] = 0
    PROVE  Sum(f, S) = 0
<1>. DEFINE g == Partials(f, S)
            Q == {s \in SUBSET S : g[s] = 0}
<1>1. \A s \in SUBSET S : g[s] = Step(f, g, s)
  BY PartialStep
<1>. HIDE DEF g
<1>2. ASSUME NEW s \in SUBSET S, \A x \in s : s \ {x} \in Q PROVE s \in Q
  <2>1. Step(f, g, s) = 0
    BY <1>2, FirstIn DEF Step
  <2> QED
    BY <1>1, <2>1
<1>3. Q = SUBSET S
  <2>. HIDE DEF Q
  <2>1. Q \in SUBSET SUBSET S
    BY DEF Q
  <2> QED
    BY <1>2, <2>1, SubsetInduction
<1> QED
  BY <1>3, SumIsPartial DEF g

LEMMA SumTakeOne ==
    ASSUME NEW f, NEW S, IsFiniteSet(S), IntegerOn(f, S), NEW x \in S
    PROVE  Sum(f, S) = f[x] + Sum(f, S \ {x})
<1>1. Sum(f, S) = f[x] + Partials(f, S)[S \ {x}]
  BY SumIsPartial, PartialsCommute
<1>2. IsFiniteSet(S \ {x})
  BY FS_RemoveElement
<1>3. Partials(f, S)[S \ {x}] = Partials(f, S \ {x})[S \ {x}]
  BY <1>2, PartialsAgree
<1> QED
  BY <1>1, <1>3, SumIsPartial

\* The sum changes by as much as the one value that changes.
LEMMA SumOneChanges ==
    ASSUME NEW f, NEW g, NEW S, IsFiniteSet(S), IntegerOn(f, S), IntegerOn(g, S),
           NEW x \in S, \A y \in S : y # x => f[y] = g[y]
    PROVE  Sum(g, S) = Sum(f, S) + g[x] - f[x]
<1>1. /\ Sum(f, S) = f[x] + Sum(f, S \ {x})
      /\ Sum(g, S) = g[x] + Sum(g, S \ {x})
  BY SumTakeOne
<1>2. IsFiniteSet(S \ {x})
  BY FS_RemoveElement
<1>3. Sum(f, S \ {x}) = Sum(g, S \ {x})
  BY <1>2, SumSame
<1>4. Sum(f, S \ {x}) \in Int
  BY <1>2, SumInteger DEF IntegerOn
<1> QED
  BY <1>1, <1>3, <1>4 DEF IntegerOn

\* The sum grows by a new last value.
LEMMA SumAppends ==
    ASSUME NEW f, NEW g, NEW n \in Nat, IntegerOn(g, 1 .. n + 1),
           \A i \in 1 .. n : f[i] = g[i]
    PROVE  Sum(g, 1 .. n + 1) = Sum(f, 1 .. n) + g[n + 1]
<1>1. IsFiniteSet(1 .. n) /\ IsFiniteSet(1 .. n + 1)
  BY FS_Interval
<1>2. n + 1 \in 1 .. n + 1 /\ (1 .. n + 1) \ {n + 1} = 1 .. n
  OBVIOUS
<1>3. Sum(g, 1 .. n + 1) = g[n + 1] + Sum(g, 1 .. n)
  BY <1>1, <1>2, SumTakeOne
<1>4. Sum(f, 1 .. n) = Sum(g, 1 .. n)
  BY <1>1, SumSame
<1>5. Sum(g, 1 .. n) \in Int /\ g[n + 1] \in Int
  BY <1>1, <1>2, SumInteger DEF IntegerOn
<1> QED
  BY <1>3, <1>4, <1>5

-----------------------------------------------------------------------------
(* Recursion along 1 .. n, where G gives the step.                         *)

\* Induction along 1 .. n.
LEMMA InductionUpTo ==
    ASSUME NEW n \in Nat, NEW Q \in SUBSET (0 .. n), 0 \in Q,
           \A i \in 1 .. n : i - 1 \in Q => i \in Q
    PROVE  Q = 0 .. n
<1>. DEFINE P == {i \in Nat : i <= n => i \in Q}
<1>1. 0 \in P
  OBVIOUS
<1>2. ASSUME NEW i \in P PROVE i + 1 \in P
  <2>1. i \in Nat
    OBVIOUS
  <2>2. ASSUME i + 1 <= n PROVE i + 1 \in Q
    <3>1. i \in Q /\ i + 1 \in 1 .. n /\ (i + 1) - 1 = i
      BY <2>1, <2>2
    <3> QED
      BY <3>1
  <2> QED
    BY <2>1, <2>2
<1>3. P \in SUBSET Nat
  OBVIOUS
<1>. HIDE DEF P
<1>4. P = Nat
  BY <1>1, <1>2, <1>3, Induction
<1>5. ASSUME NEW i \in 0 .. n PROVE i \in Q
  BY <1>4 DEF P
<1> QED
  BY <1>5

\* f runs along 1 .. n, its value at i computed by G from i and its value before.
Follows(f, x0, G, n, S) ==
    /\ f \in [0 .. n -> S]
    /\ f[0] = x0
    /\ \A i \in 1 .. n : f[i] = G[<<i, f[i - 1]>>]

LEMMA RecursionExists ==
    ASSUME NEW S, NEW x0 \in S, NEW n \in Nat, NEW G, G \in [(1 .. n) \X S -> S]
    PROVE  \E f : Follows(f, x0, G, n, S)
<1>. DEFINE Rec(f, k) == \A i \in 0 .. k : f[i] = IF i = 0 THEN x0 ELSE G[<<i, f[i - 1]>>]
            Q == {k \in 0 .. n : \E f \in [0 .. k -> S] : Rec(f, k)}
<1>1. 0 \in Q
  <2>. DEFINE f == [i \in 0 .. 0 |-> x0]
  <2>1. f \in [0 .. 0 -> S] /\ Rec(f, 0) /\ 0 \in 0 .. n
    OBVIOUS
  <2>. HIDE DEF f, Rec
  <2> QED
    BY <2>1
<1>2. ASSUME NEW k \in 1 .. n, k - 1 \in Q PROVE k \in Q
  <2>1. PICK f \in [0 .. k - 1 -> S] : Rec(f, k - 1)
    BY <1>2
  <2>. DEFINE v == G[<<k, f[k - 1]>>]
              e == [i \in 0 .. k |-> IF i = k THEN v ELSE f[i]]
  <2>2. f[k - 1] \in S /\ v \in S
    OBVIOUS
  <2>3. \A i \in 0 .. k - 1 : f[i] \in S /\ f[i] = IF i = 0 THEN x0 ELSE G[<<i, f[i - 1]>>]
    BY <2>1
  <2>. HIDE DEF v
  <2>4. e \in [0 .. k -> S]
    BY <2>2, <2>3
  <2>5. \A i \in 0 .. k : e[i] = IF i = 0 THEN x0 ELSE G[<<i, e[i - 1]>>]
    <3>1. ASSUME NEW i \in 0 .. k, i # k PROVE e[i] = IF i = 0 THEN x0 ELSE G[<<i, e[i - 1]>>]
      <4>1. i \in 0 .. k - 1 /\ (i # 0 => i - 1 \in 0 .. k - 1)
        BY <3>1
      <4>2. e[i] = f[i] /\ (i # 0 => e[i - 1] = f[i - 1])
        BY <3>1, <4>1
      <4> QED
        BY <2>3, <4>1, <4>2
    <3>2. e[k] = v /\ e[k - 1] = f[k - 1] /\ k # 0
      OBVIOUS
    <3> QED
      BY <3>1, <3>2 DEF v
  <2>. HIDE DEF e
  <2>6. Rec(e, k) /\ k \in 0 .. n
    BY <2>5
  <2>. HIDE DEF Rec
  <2> QED
    BY <2>4, <2>6
<1>3. Q \in SUBSET (0 .. n)
  OBVIOUS
<1>. HIDE DEF Q
<1>4. n \in Q
  BY <1>1, <1>2, <1>3, InductionUpTo
<1>5. PICK f \in [0 .. n -> S] : Rec(f, n)
  BY <1>4 DEF Q
<1>6. f[0] = x0
  <2>1. 0 \in 0 .. n
    OBVIOUS
  <2>. HIDE DEF Q
  <2> QED
    BY <1>5, <2>1
<1>7. ASSUME NEW i \in 1 .. n PROVE f[i] = G[<<i, f[i - 1]>>]
  <2>1. i \in 0 .. n /\ i # 0
    OBVIOUS
  <2> QED
    BY <1>5, <2>1
<1> QED
  BY <1>5, <1>6, <1>7 DEF Follows
=============================================================================
