----------------------------- MODULE SumTheorems -----------------------------
(***************************************************************************)
(* Sums of the values of a function over a finite set, as the ledger's     *)
(* totals are computed: what the community operator SumFunctionOnSet,      *)
(* which folds the set in the order CHOOSE happens to take its elements,   *)
(* returns whatever that order is.                                         *)
(*                                                                         *)
(* At the end, sequences in order and loops: what a sum over an ordered    *)
(* buffer, and the computation of a loop round by round, need.             *)
(*                                                                         *)
(* The library's induction theorems take an operator as a parameter.  The  *)
(* inductions below go through the least element of a set of numbers       *)
(* instead, which WFMin gives without one.                                 *)
(***************************************************************************)
EXTENDS Integers, FiniteSets, Functions, WellFoundedInduction, FiniteSetTheorems, TLAPS

-----------------------------------------------------------------------------
(* Induction                                                               *)

\* A set of natural numbers that is not empty has a least element.
LEMMA Least ==
  ASSUME NEW T \in SUBSET Nat, T # {}
  PROVE  \E x \in T : \A y \in T : x <= y
<1> DEFINE R == OpToRel(<, Nat)
<1>1. IsWellFoundedOn(R, Nat)
  BY NatLessThanWellFounded
<1>2. \A x, y \in Nat : y < x => <<y, x>> \in R
  BY DEF OpToRel
<1> HIDE DEF R
<1>3. PICK x \in T : \A y \in T : ~ (<<y, x>> \in R)
  BY <1>1, WFMin
<1>4. \A y \in T : ~ (y < x)
  BY <1>2, <1>3
<1>5. \A y \in T : x <= y
  BY <1>3, <1>4
<1>6. QED BY <1>3, <1>5

\* Induction over the natural numbers, for the set of those it holds of.
LEMMA NatSetInduction ==
  ASSUME NEW S, 0 \in S, \A n \in Nat : n \in S => n + 1 \in S
  PROVE  Nat \subseteq S
<1> SUFFICES ASSUME Nat \ S # {} PROVE FALSE
  OBVIOUS
<1>1. PICK x \in Nat \ S : \A y \in Nat \ S : x <= y
  BY Least
<1>2. x # 0
  BY <1>1
<1>3. x - 1 \in Nat /\ x - 1 \in S
  BY <1>1, <1>2
<1>4. x - 1 + 1 = x
  BY <1>1
<1>5. QED BY <1>1, <1>3, <1>4

\* Induction over the subsets of a finite set, one element at a time.
LEMMA SubsetInduction ==
  ASSUME NEW S, IsFiniteSet(S), NEW Q,
         \A s \in SUBSET S : (\A x \in s : s \ {x} \in Q) => s \in Q
  PROVE  SUBSET S \subseteq Q
<1> DEFINE N == {n \in Nat : \A s \in SUBSET S : Cardinality(s) = n => s \in Q}
<1>1. \A s \in SUBSET S : IsFiniteSet(s) /\ Cardinality(s) \in Nat
  BY FS_Subset, FS_CardinalityType
<1>2. 0 \in N
  BY <1>1, FS_EmptySet
<1>3. ASSUME NEW n \in Nat, n \in N PROVE n + 1 \in N
  <2>1. ASSUME NEW s \in SUBSET S, Cardinality(s) = n + 1, NEW x \in s
        PROVE  s \ {x} \in Q
    <3>1. Cardinality(s \ {x}) = n
      BY <1>1, <2>1, FS_RemoveElement
    <3>2. QED BY <1>3, <3>1
  <2>2. QED BY <2>1
<1>4. Nat \subseteq N
  <2> HIDE DEF N
  <2>1. QED BY <1>2, <1>3, NatSetInduction
<1>5. QED BY <1>1, <1>4

-----------------------------------------------------------------------------
(* The fold                                                                *)

Pick(s) == CHOOSE x \in s : TRUE

\* One step of the fold, and the function that the fold computes.
IsIter(it, f, S) ==
  it = [s \in SUBSET S |-> IF s = {} THEN 0 ELSE f[Pick(s)] + it[s \ {Pick(s)}]]

Iter(f, S) == CHOOSE it : IsIter(it, f, S)

LEMMA SumIsIter ==
  ASSUME NEW f, NEW S
  PROVE  SumFunctionOnSet(f, S) = Iter(f, S)[S]
BY DEF SumFunctionOnSet, FoldFunctionOnSet, MapThenFoldSet, Iter, IsIter, Pick

\* The fold is defined on every subset of a finite set.
LEMMA IterExists ==
  ASSUME NEW S, IsFiniteSet(S), NEW f, \A x \in S : f[x] \in Int
  PROVE  \E it \in [SUBSET S -> Int] : IsIter(it, f, S)
<1> DEFINE Small(n) == {s \in SUBSET S : Cardinality(s) <= n}
           Body(g, s) == IF s = {} THEN 0 ELSE f[Pick(s)] + g[s \ {Pick(s)}]
           Defined(n) == \E g \in [Small(n) -> Int] : \A s \in Small(n) : g[s] = Body(g, s)
           N == {n \in Nat : Defined(n)}
<1>1. \A s \in SUBSET S : IsFiniteSet(s) /\ Cardinality(s) \in Nat
  BY FS_Subset, FS_CardinalityType
<1>2. \A s \in SUBSET S : s # {} => /\ Pick(s) \in s
                                    /\ s \ {Pick(s)} \in SUBSET S
                                    /\ Cardinality(s \ {Pick(s)}) = Cardinality(s) - 1
                                    /\ f[Pick(s)] \in Int
  BY <1>1, FS_RemoveElement DEF Pick
<1>3. 0 \in N
  <2>1. \A s \in Small(0) : s = {}
    BY <1>1, FS_EmptySet
  <2>2. [s \in Small(0) |-> 0] \in [Small(0) -> Int]
    OBVIOUS
  <2>3. \A s \in Small(0) : [t \in Small(0) |-> 0][s] = Body([t \in Small(0) |-> 0], s)
    BY <2>1
  <2>4. QED BY <2>2, <2>3
<1>4. ASSUME NEW n \in Nat, n \in N PROVE n + 1 \in N
  <2>1. PICK g \in [Small(n) -> Int] : \A s \in Small(n) : g[s] = Body(g, s)
    BY <1>4
  <2> DEFINE h == [s \in Small(n + 1) |-> Body(g, s)]
  <2>2. \A s \in Small(n + 1) : s # {} => s \ {Pick(s)} \in Small(n)
    BY <1>1, <1>2
  <2>3. \A s \in Small(n + 1) : Body(g, s) \in Int
    BY <1>2, <2>2
  <2>4. h \in [Small(n + 1) -> Int]
    BY <2>3
  <2>5. \A s \in Small(n) : s \in Small(n + 1) /\ h[s] = g[s]
    BY <1>1, <2>1
  <2>6. ASSUME NEW s \in Small(n + 1) PROVE h[s] = Body(h, s)
    BY <2>2, <2>5
  <2> HIDE DEF h
  <2>7. Defined(n + 1)
    BY <2>4, <2>6
  <2> HIDE DEF Defined
  <2>8. QED BY <2>7
<1>5. Nat \subseteq N
  <2> HIDE DEF N
  <2>1. QED BY <1>3, <1>4, NatSetInduction
<1>6. Cardinality(S) \in Nat
  BY FS_CardinalityType
<1>7. PICK g \in [Small(Cardinality(S)) -> Int] :
        \A s \in Small(Cardinality(S)) : g[s] = Body(g, s)
  BY <1>5, <1>6
<1>8. Small(Cardinality(S)) = SUBSET S
  BY FS_Subset
<1>9. g \in [SUBSET S -> Int] /\ \A s \in SUBSET S : g[s] = Body(g, s)
  BY <1>7, <1>8
<1>10. g = [s \in SUBSET S |-> Body(g, s)]
  BY <1>9
<1>11. QED BY <1>9, <1>10 DEF IsIter

\* What the fold returns for the empty set, for the others, and its type.
LEMMA IterStep ==
  ASSUME NEW S, IsFiniteSet(S), NEW f, \A x \in S : f[x] \in Int
  PROVE  /\ Iter(f, S)[{}] = 0
         /\ \A s \in SUBSET S :
              /\ Iter(f, S)[s] \in Int
              /\ s # {} => /\ Pick(s) \in s
                           /\ Iter(f, S)[s] = f[Pick(s)] + Iter(f, S)[s \ {Pick(s)}]
<1> DEFINE W == Iter(f, S)
           Q == {s \in SUBSET S : W[s] \in Int}
<1>1. IsIter(W, f, S)
  BY IterExists DEF Iter
<1>2. \A s \in SUBSET S : W[s] = IF s = {} THEN 0 ELSE f[Pick(s)] + W[s \ {Pick(s)}]
  BY <1>1 DEF IsIter
<1> HIDE DEF W
<1>3. \A s \in SUBSET S : s # {} => Pick(s) \in s
  BY DEF Pick
<1>4. ASSUME NEW s \in SUBSET S, \A x \in s : s \ {x} \in Q PROVE s \in Q
  <2>1. CASE s = {}
    BY <1>2, <2>1
  <2>2. CASE s # {}
    <3>1. Pick(s) \in s /\ W[s] = f[Pick(s)] + W[s \ {Pick(s)}]
      BY <1>2, <1>3, <2>2
    <3>2. W[s \ {Pick(s)}] \in Int /\ f[Pick(s)] \in Int
      BY <1>4, <3>1
    <3>3. W[s] \in Int
      BY <3>1, <3>2
    <3>4. QED BY <3>3
  <2>3. QED BY <2>1, <2>2
<1>5. SUBSET S \subseteq Q
  <2> HIDE DEF Q
  <2>1. QED BY <1>4, SubsetInduction
<1>6. QED BY <1>2, <1>3, <1>5 DEF W

\* Any element of a set may be taken out first.
LEMMA IterAnyOrder ==
  ASSUME NEW S, IsFiniteSet(S), NEW f, \A x \in S : f[x] \in Int
  PROVE  \A s \in SUBSET S : \A x \in s : Iter(f, S)[s] = f[x] + Iter(f, S)[s \ {x}]
<1> DEFINE W == Iter(f, S)
           Q == {s \in SUBSET S : \A x \in s : W[s] = f[x] + W[s \ {x}]}
<1>1. \A s \in SUBSET S :
        /\ W[s] \in Int
        /\ s # {} => Pick(s) \in s /\ W[s] = f[Pick(s)] + W[s \ {Pick(s)}]
  BY IterStep
<1> HIDE DEF W
<1>2. ASSUME NEW s \in SUBSET S, \A x \in s : s \ {x} \in Q PROVE s \in Q
  <2>1. ASSUME NEW x \in s PROVE W[s] = f[x] + W[s \ {x}]
    <3> DEFINE p == Pick(s)
    <3>1. p \in s /\ W[s] = f[p] + W[s \ {p}]
      BY <1>1
    <3> HIDE DEF p
    <3>2. CASE x = p
      BY <3>1, <3>2
    <3>3. CASE x # p
      <4>1. W[s \ {p}] = f[x] + W[(s \ {p}) \ {x}]
        BY <1>2, <3>1, <3>3
      <4>2. W[s \ {x}] = f[p] + W[(s \ {x}) \ {p}]
        BY <1>2, <3>1, <3>3
      <4>3. (s \ {p}) \ {x} = (s \ {x}) \ {p}
        OBVIOUS
      <4>4. f[x] \in Int /\ f[p] \in Int /\ W[(s \ {x}) \ {p}] \in Int
        BY <1>1, <3>1
      <4>5. W[s \ {p}] = f[x] + W[(s \ {x}) \ {p}]
        BY <4>1, <4>3
      <4>6. QED BY <3>1, <4>2, <4>4, <4>5
    <3>4. QED BY <3>2, <3>3
  <2>2. QED BY <2>1
<1>3. SUBSET S \subseteq Q
  <2> HIDE DEF Q
  <2>1. QED BY <1>2, SubsetInduction
<1>4. QED BY <1>3 DEF W

\* The fold of a set depends on nothing but the values on that set.
LEMMA IterSame ==
  ASSUME NEW S, IsFiniteSet(S), NEW f, \A x \in S : f[x] \in Int,
         NEW T, IsFiniteSet(T), NEW g, \A x \in T : g[x] \in Int,
         NEW U, U \subseteq S, U \subseteq T, \A x \in U : f[x] = g[x]
  PROVE  Iter(f, S)[U] = Iter(g, T)[U]
<1> DEFINE V == Iter(f, S)
           W == Iter(g, T)
           Q == {s \in SUBSET U : V[s] = W[s]}
<1>1. V[{}] = 0 /\ \A s \in SUBSET U : s # {} => /\ Pick(s) \in s
                                                /\ V[s] = f[Pick(s)] + V[s \ {Pick(s)}]
  BY IterStep
<1>2. W[{}] = 0 /\ \A s \in SUBSET U : s # {} => W[s] = g[Pick(s)] + W[s \ {Pick(s)}]
  BY IterStep
<1> HIDE DEF V, W
<1>3. ASSUME NEW s \in SUBSET U, \A x \in s : s \ {x} \in Q PROVE s \in Q
  <2>1. CASE s = {}
    BY <1>1, <1>2, <2>1
  <2>2. CASE s # {}
    <3>1. Pick(s) \in s /\ V[s \ {Pick(s)}] = W[s \ {Pick(s)}]
      BY <1>1, <1>3, <2>2
    <3>2. QED BY <1>1, <1>2, <2>2, <3>1
  <2>3. QED BY <2>1, <2>2
<1>4. IsFiniteSet(U)
  BY FS_Subset
<1>5. SUBSET U \subseteq Q
  <2> HIDE DEF Q
  <2>1. QED BY <1>3, <1>4, SubsetInduction
<1>6. QED BY <1>5 DEF V, W

-----------------------------------------------------------------------------
(* Sums                                                                    *)

\* The sum over no element is zero.
LEMMA SumEmpty == ASSUME NEW f PROVE SumFunctionOnSet(f, {}) = 0
<1>1. IsFiniteSet({})
  BY FS_EmptySet
<1>2. \A x \in {} : f[x] \in Int
  OBVIOUS
<1>3. Iter(f, {})[{}] = 0
  BY <1>1, <1>2, IterStep
<1>4. QED BY <1>3, SumIsIter

\* A sum of integers is an integer, and any element may be split off.
LEMMA SumSplit ==
  ASSUME NEW S, IsFiniteSet(S), NEW f, \A x \in S : f[x] \in Int
  PROVE  /\ SumFunctionOnSet(f, S) \in Int
         /\ \A x \in S : SumFunctionOnSet(f, S) = f[x] + SumFunctionOnSet(f, S \ {x})
<1>1. SumFunctionOnSet(f, S) = Iter(f, S)[S] /\ Iter(f, S)[S] \in Int
  BY SumIsIter, IterStep
<1>2. ASSUME NEW x \in S PROVE SumFunctionOnSet(f, S) = f[x] + SumFunctionOnSet(f, S \ {x})
  <2>1. Iter(f, S)[S] = f[x] + Iter(f, S)[S \ {x}]
    BY IterAnyOrder
  <2>2. IsFiniteSet(S \ {x})
    BY FS_Subset
  <2>3. Iter(f, S)[S \ {x}] = Iter(f, S \ {x})[S \ {x}]
    BY <2>2, IterSame
  <2>4. SumFunctionOnSet(f, S \ {x}) = Iter(f, S \ {x})[S \ {x}]
    BY SumIsIter
  <2>5. QED BY <1>1, <2>1, <2>3, <2>4
<1>3. QED BY <1>1, <1>2

\* Two functions that agree on a set have the same sum over it.
LEMMA SumSame ==
  ASSUME NEW S, IsFiniteSet(S), NEW f, \A x \in S : f[x] \in Int,
         NEW g, \A x \in S : f[x] = g[x]
  PROVE  SumFunctionOnSet(f, S) = SumFunctionOnSet(g, S)
<1>1. \A x \in S : g[x] \in Int
  OBVIOUS
<1>2. Iter(f, S)[S] = Iter(g, S)[S]
  BY <1>1, IterSame
<1>3. QED BY <1>2, SumIsIter

\* A new element adds its value.
LEMMA SumAdd ==
  ASSUME NEW S, IsFiniteSet(S), NEW x, x \notin S, NEW f, \A y \in S \cup {x} : f[y] \in Int
  PROVE  /\ SumFunctionOnSet(f, S) \in Int
         /\ SumFunctionOnSet(f, S \cup {x}) = f[x] + SumFunctionOnSet(f, S)
<1>1. IsFiniteSet(S \cup {x}) /\ (S \cup {x}) \ {x} = S
  BY FS_AddElement
<1>2. QED BY <1>1, SumSplit

\* A sum of natural numbers is one.
LEMMA SumNat ==
  ASSUME NEW S, IsFiniteSet(S), NEW f, \A x \in S : f[x] \in Nat
  PROVE  SumFunctionOnSet(f, S) \in Nat
<1> DEFINE F(s) == SumFunctionOnSet(f, s)
           Q == {s \in SUBSET S : F(s) \in Nat}
<1>1. \A s \in SUBSET S : \A x \in s : F(s) = f[x] + F(s \ {x})
  BY FS_Subset, SumSplit
<1>2. F({}) = 0
  BY SumEmpty
<1> HIDE DEF F
<1>3. ASSUME NEW s \in SUBSET S, \A x \in s : s \ {x} \in Q PROVE s \in Q
  <2>1. CASE s = {}
    BY <1>2, <2>1
  <2>2. CASE s # {}
    <3>1. PICK x \in s : TRUE
      BY <2>2
    <3>2. F(s \ {x}) \in Nat /\ f[x] \in Nat /\ F(s) = f[x] + F(s \ {x})
      BY <1>1, <1>3, <3>1
    <3>3. F(s) \in Nat
      BY <3>2
    <3>4. QED BY <3>3
  <2>3. QED BY <2>1, <2>2
<1>4. SUBSET S \subseteq Q
  <2> HIDE DEF Q
  <2>1. QED BY <1>3, SubsetInduction
<1>5. QED BY <1>4 DEF F

\* A sum is at most another when every positive term of it has a term of the
\* other of its own that is no smaller.
LEMMA SumInjection ==
  ASSUME NEW S, IsFiniteSet(S), NEW f, \A x \in S : f[x] \in Int,
         NEW T, IsFiniteSet(T), NEW g, \A y \in T : g[y] \in Nat,
         NEW U \in SUBSET S, \A x \in S \ U : f[x] <= 0,
         NEW h \in [U -> T], \A x, y \in U : h[x] = h[y] => x = y,
         \A x \in U : f[x] <= g[h[x]]
  PROVE  SumFunctionOnSet(f, S) <= SumFunctionOnSet(g, T)
<1> DEFINE F(s) == SumFunctionOnSet(f, s)
           G(s) == SumFunctionOnSet(g, s)
           Q == {s \in SUBSET S : \A t \in SUBSET T :
                   (\A x \in s \cap U : h[x] \in t) => F(s) <= G(t)}
<1>1. \A s \in SUBSET S : F(s) \in Int /\ \A x \in s : F(s) = f[x] + F(s \ {x})
  BY FS_Subset, SumSplit
<1>2. \A t \in SUBSET T : G(t) \in Nat /\ \A y \in t : G(t) = g[y] + G(t \ {y})
  <2> SUFFICES ASSUME NEW t \in SUBSET T
               PROVE  G(t) \in Nat /\ \A y \in t : G(t) = g[y] + G(t \ {y})
    OBVIOUS
  <2>1. IsFiniteSet(t) /\ (\A y \in t : g[y] \in Nat) /\ (\A y \in t : g[y] \in Int)
    BY FS_Subset
  <2>2. G(t) \in Nat
    BY <2>1, SumNat
  <2>3. \A y \in t : G(t) = g[y] + G(t \ {y})
    BY <2>1, SumSplit
  <2>4. QED BY <2>2, <2>3
<1>3. F({}) = 0
  BY SumEmpty
<1> HIDE DEF F, G
<1>4. ASSUME NEW s \in SUBSET S, \A x \in s : s \ {x} \in Q PROVE s \in Q
  <2>1. ASSUME NEW t \in SUBSET T, \A x \in s \cap U : h[x] \in t PROVE F(s) <= G(t)
    <3>1. CASE s = {}
      BY <1>2, <1>3, <3>1
    <3>2. ASSUME NEW x \in s, x \in U PROVE F(s) <= G(t)
      <4>1. \A y \in (s \ {x}) \cap U : h[y] \in t \ {h[x]}
        BY <2>1, <3>2
      <4>2. F(s \ {x}) <= G(t \ {h[x]})
        BY <1>4, <4>1
      <4>3. /\ F(s) = f[x] + F(s \ {x}) /\ F(s \ {x}) \in Int
            /\ G(t) = g[h[x]] + G(t \ {h[x]}) /\ G(t \ {h[x]}) \in Nat
            /\ f[x] \in Int /\ g[h[x]] \in Nat /\ f[x] <= g[h[x]]
        BY <1>1, <1>2, <2>1, <3>2
      <4>4. QED BY <4>2, <4>3
    <3>3. ASSUME NEW x \in s, x \notin U PROVE F(s) <= G(t)
      <4>1. F(s \ {x}) <= G(t)
        BY <1>4, <2>1
      <4>2. F(s) = f[x] + F(s \ {x}) /\ F(s \ {x}) \in Int /\ G(t) \in Nat
        BY <1>1, <1>2
      <4>3. f[x] \in Int /\ f[x] <= 0
        BY <3>3
      <4>4. QED BY <4>1, <4>2, <4>3
    <3>4. QED BY <3>1, <3>2, <3>3
  <2>2. QED BY <2>1
<1>5. SUBSET S \subseteq Q
  <2> HIDE DEF Q
  <2>1. QED BY <1>4, SubsetInduction
<1>6. S \in Q /\ T \in SUBSET T /\ \A x \in S \cap U : h[x] \in T
  BY <1>5
<1>7. QED BY <1>6 DEF F, G

-----------------------------------------------------------------------------
(* Sequences in order, and loops                                         *)

\* Neighbours in order make a sequence in order.
LEMMA OrderedByNeighbours ==
  ASSUME NEW n \in Nat, NEW f, \A i \in 1..n : f[i] \in Int,
         \A i \in 1..n - 1 : f[i] <= f[i + 1]
  PROVE  \A i, j \in 1..n : i <= j => f[i] <= f[j]
<1> DEFINE S == {k \in Nat : \A i \in 1..n : i + k \in 1..n => f[i] <= f[i + k]}
<1>1. 0 \in S
  OBVIOUS
<1>2. ASSUME NEW k \in Nat, k \in S PROVE k + 1 \in S
  <2>1. ASSUME NEW i \in 1..n, i + (k + 1) \in 1..n PROVE f[i] <= f[i + (k + 1)]
    <3>1. i + k \in 1..n - 1 /\ (i + k) + 1 = i + (k + 1)
      BY <2>1
    <3>2. f[i] <= f[i + k] /\ f[i + k] <= f[(i + k) + 1]
      BY <1>2, <3>1
    <3>3. f[i] \in Int /\ f[i + k] \in Int /\ f[i + (k + 1)] \in Int
      BY <2>1, <3>1
    <3>4. QED BY <3>1, <3>2, <3>3
  <2>2. QED BY <2>1
<1> HIDE DEF S
<1>3. Nat \subseteq S
  BY <1>1, <1>2, NatSetInduction
<1>4. ASSUME NEW i \in 1..n, NEW j \in 1..n, i <= j PROVE f[i] <= f[j]
  <2>1. j - i \in S /\ i + (j - i) = j
    BY <1>3, <1>4
  <2>2. QED BY <2>1 DEF S
<1>5. QED BY <1>4

\* The same, strictly.
LEMMA StrictByNeighbours ==
  ASSUME NEW n \in Nat, NEW f, \A i \in 1..n : f[i] \in Int,
         \A i \in 1..n - 1 : f[i] < f[i + 1]
  PROVE  \A i, j \in 1..n : i < j => f[i] < f[j]
<1>1. \A i, j \in 1..n : i <= j => f[i] <= f[j]
  <2>1. \A i \in 1..n - 1 : f[i] <= f[i + 1]
    OBVIOUS
  <2>2. QED BY <2>1, OrderedByNeighbours
<1>2. ASSUME NEW i \in 1..n, NEW j \in 1..n, i < j PROVE f[i] < f[j]
  <2>1. i + 1 \in 1..n /\ i + 1 <= j /\ i \in 1..n - 1
    BY <1>2
  <2>2. f[i + 1] <= f[j] /\ f[i] < f[i + 1]
    BY <1>1, <2>1
  <2>3. QED BY <2>1, <2>2
<1>3. QED BY <1>2

\* What a loop of n rounds has computed after each of them.
IsLoop(g, n, S, base, step) ==
  /\ g \in [0..n -> S]
  /\ g[0] = base
  /\ \A k \in 1..n : g[k] = step[<<k, g[k - 1]>>]

\* It has computed something, if each round does.
LEMMA LoopExists ==
  ASSUME NEW n \in Nat, NEW S, NEW base \in S,
         NEW step, \A k \in 1..n, a \in S : step[<<k, a>>] \in S
  PROVE  \E g : IsLoop(g, n, S, base, step)
<1> DEFINE Rounds(m) ==
             m <= n => \E g \in [0..m -> S] :
                         g[0] = base /\ \A k \in 1..m : g[k] = step[<<k, g[k - 1]>>]
           K == {m \in Nat : Rounds(m)}
<1>1. 0 \in K
  <2> DEFINE g == [k \in 0..0 |-> base]
  <2>1. g \in [0..0 -> S] /\ g[0] = base /\ \A k \in 1..0 : g[k] = step[<<k, g[k - 1]>>]
    OBVIOUS
  <2> HIDE DEF g
  <2>2. QED BY <2>1
<1>2. ASSUME NEW m \in Nat, m \in K PROVE m + 1 \in K
  <2> SUFFICES ASSUME m + 1 <= n PROVE Rounds(m + 1)
    OBVIOUS
  <2>1. PICK g \in [0..m -> S] : g[0] = base /\ \A k \in 1..m : g[k] = step[<<k, g[k - 1]>>]
    BY <1>2
  <2> DEFINE h == [k \in 0..m + 1 |-> IF k <= m THEN g[k] ELSE step[<<m + 1, g[m]>>]]
  <2>2. g[m] \in S /\ m + 1 \in 1..n 
    BY <2>1
  <2>3. step[<<m + 1, g[m]>>] \in S
    BY <2>2
  <2>4. h \in [0..m + 1 -> S]
    BY <2>1, <2>3
  <2>5. h[0] = base
    BY <2>1
  <2>6. ASSUME NEW k \in 1..m + 1 PROVE h[k] = step[<<k, h[k - 1]>>]
    <3>1. CASE k \in 1..m
      <4>1. h[k] = g[k] /\ h[k - 1] = g[k - 1]
        BY <3>1
      <4>2. QED BY <2>1, <3>1, <4>1
    <3>2. CASE k = m + 1
      <4>1. h[k] = step[<<m + 1, g[m]>>] /\ h[k - 1] = g[m]
        BY <3>2
      <4>2. QED BY <3>2, <4>1
    <3>3. QED BY <3>1, <3>2
  <2> HIDE DEF h
  <2>7. QED BY <2>4, <2>5, <2>6
<1> HIDE DEF K
<1>3. n \in K
  BY <1>1, <1>2, NatSetInduction
<1>4. QED BY <1>3 DEF K, IsLoop
=============================================================================
