---------------------------- MODULE SumTheorems ----------------------------
(***************************************************************************)
(* Sums of naturals over a finite set are numbers of elements: SumFunction *)
(* is defined by recursion over the subsets of its domain, and what that   *)
(* comes to is shown here once, by a least counterexample.                 *)
(***************************************************************************)
EXTENDS Integers, FiniteSets, Functions, FiniteSetTheorems, WellFoundedInduction, TLAPS

(* One element for each unit of a weight.                                  *)
Units(weight, S) == {unit \in S \X Nat : unit[2] < weight[unit[1]]}

(* A set of naturals has a least element, and a bounded one a greatest.    *)
LEMMA LeastNumber ==
  ASSUME NEW S \in SUBSET Nat, S # {}
  PROVE  \E x \in S : \A y \in S : x <= y
<1>1. PICK x \in S : \A y \in S : ~ (<<y, x>> \in OpToRel(<, Nat))
  BY NatLessThanWellFounded, WFMin
<1>2. \A y \in S : ~ (y < x)
  BY <1>1 DEF OpToRel
<1>. QED
  BY <1>2

LEMMA GreatestNumber ==
  ASSUME NEW S \in SUBSET Nat, S # {}, NEW bound \in Nat, \A x \in S : x <= bound
  PROVE  \E x \in S : \A y \in S : y <= x
<1> DEFINE short == {bound - x : x \in S}
<1>0. \A x \in S : bound - x \in Nat
  OBVIOUS
<1>1. short \in SUBSET Nat /\ short # {}
  BY <1>0
<1>2. PICK n \in short : \A m \in short : n <= m
  BY <1>1, LeastNumber
<1>3. PICK x \in S : n = bound - x
  BY <1>2
<1>4. ASSUME NEW y \in S PROVE y <= x
  <2>1. bound - x <= bound - y
    BY <1>2, <1>3
  <2>2. x \in Nat /\ y \in Nat
    OBVIOUS
  <2>. QED
    BY <2>1, <2>2
<1>. QED
  BY <1>4

(* A property of some subset of a finite set has a least subset.           *)
LEMMA LeastSubset ==
  ASSUME NEW S, IsFiniteSet(S), NEW family \in SUBSET SUBSET S, family # {}
  PROVE  \E T \in family : \A U \in family : U \subseteq T => U = T
<1> DEFINE order == StrictSubsetOrdering(S)
<1>1. IsWellFoundedOn(order, SUBSET S)
  BY FS_StrictSubsetOrderingWellFounded, FS_FiniteSubsetsOfFinite
<1>2. PICK T \in family : \A U \in family : ~ (<<U, T>> \in order)
  BY <1>1, WFMin
<1>3. \A U \in family : U \subseteq T => U = T
  BY <1>2 DEF StrictSubsetOrdering
<1>. QED
  BY <1>3

(* The values of a function on a finite set are no more than its elements. *)
LEMMA FiniteValues ==
  ASSUME NEW S, IsFiniteSet(S), NEW f, NEW values,
         \A y : y \in values <=> \E x \in S : y = f[x]
  PROVE  IsFiniteSet(values) /\ Cardinality(values) <= Cardinality(S)
<1> DEFINE g == [x \in S |-> f[x]]
<1>1. g \in Surjection(S, values)
  BY DEF Surjection
<1>. QED
  BY <1>1, FS_Surjection

(* Of finitely many numbers one is the greatest.                           *)
LEMMA GreatestOfFinite ==
  ASSUME NEW S, S \subseteq Nat, IsFiniteSet(S), S # {}
  PROVE  \E x \in S : \A y \in S : y <= x
<1> DEFINE IsTop(x, T) == x \in T /\ \A y \in T : y <= x
           bad == {T \in SUBSET S : T # {} /\ ~ \E x : IsTop(x, T)}
<1>1. SUFFICES ASSUME bad # {} PROVE FALSE
  BY DEF bad
<1>2. PICK T \in bad : \A U \in bad : U \subseteq T => U = T
  <2>1. bad \in SUBSET SUBSET S
    OBVIOUS
  <2> HIDE DEF bad
  <2>. QED
    BY ONLY <1>1, <2>1, IsFiniteSet(S), LeastSubset
<1>3. PICK x \in T : TRUE
  OBVIOUS
<1>4. T \ {x} # {}
  BY <1>2, <1>3 DEF bad
<1>5. T \ {x} \in SUBSET S /\ T \ {x} \subseteq T /\ T \ {x} # T
  BY <1>3
<1>6. PICK z : IsTop(z, T \ {x})
  BY <1>2, <1>4, <1>5
<1>7. IsTop(z, T) \/ IsTop(x, T)
  <2>1. x \in Nat /\ \A y \in T : y \in Nat
    BY <1>2
  <2>. QED
    BY <1>3, <1>6, <2>1
<1>. QED
  BY <1>2, <1>7

LEMMA UnitsOfNothing ==
  ASSUME NEW weight
  PROVE  Units(weight, {}) = {}
BY DEF Units

LEMMA UnitsWithElement ==
  ASSUME NEW S, NEW x, x \notin S, NEW weight, weight[x] \in Nat,
         IsFiniteSet(Units(weight, S))
  PROVE  /\ IsFiniteSet(Units(weight, S \union {x}))
         /\ Cardinality(Units(weight, S \union {x})) = weight[x] + Cardinality(Units(weight, S))
<1> DEFINE new == {x} \X (0 .. weight[x] - 1)
<1>1. Units(weight, S \union {x}) = Units(weight, S) \union new
  BY DEF Units
<1>2. Units(weight, S) \intersect new = {}
  BY DEF Units
<1>3. IsFiniteSet(0 .. weight[x] - 1) /\ Cardinality(0 .. weight[x] - 1) = weight[x]
  BY FS_Interval
<1>4. IsFiniteSet(new) /\ Cardinality(new) = weight[x]
  <2>1. IsFiniteSet({x}) /\ Cardinality({x}) = 1
    BY FS_Singleton
  <2>2. IsFiniteSet(new) /\ Cardinality(new) = 1 * Cardinality(0 .. weight[x] - 1)
    BY <1>3, <2>1, FS_Product
  <2>. QED
    BY <1>3, <2>2
<1>5. Cardinality({}) = 0
  BY FS_EmptySet
<1>6. Cardinality(Units(weight, S)) \in Nat
  BY FS_CardinalityType
<1> HIDE DEF new
<1>7. /\ IsFiniteSet(Units(weight, S) \union new)
      /\ Cardinality(Units(weight, S) \union new) =
            Cardinality(Units(weight, S)) + Cardinality(new)
               - Cardinality(Units(weight, S) \intersect new)
  BY <1>4, FS_Union
<1>8. Cardinality(Units(weight, S) \intersect new) = 0
  BY <1>2, <1>5, Zenon
<1>9. Cardinality(Units(weight, S) \union new) = weight[x] + Cardinality(Units(weight, S))
  BY <1>4, <1>6, <1>7, <1>8
<1>. QED
  BY <1>1, <1>7, <1>9, Zenon

LEMMA UnitsAreFinite ==
  ASSUME NEW S, IsFiniteSet(S), NEW weight, \A x \in S : weight[x] \in Nat
  PROVE  IsFiniteSet(Units(weight, S))
<1> DEFINE bad == {T \in SUBSET S : ~ IsFiniteSet(Units(weight, T))}
<1>1. SUFFICES ASSUME bad # {} PROVE FALSE
  OBVIOUS
<1>2. PICK T \in bad : \A U \in bad : U \subseteq T => U = T
  <2>1. bad \in SUBSET SUBSET S
    OBVIOUS
  <2> HIDE DEF bad
  <2>. QED
    BY <1>1, <2>1, LeastSubset
<1>3. T # {}
  BY <1>2, UnitsOfNothing, FS_EmptySet
<1>4. PICK x \in T : TRUE
  BY <1>3
<1>5. IsFiniteSet(Units(weight, T \ {x}))
  BY <1>2, <1>4
<1>6. T = (T \ {x}) \union {x} /\ weight[x] \in Nat
  BY <1>4
<1>7. IsFiniteSet(Units(weight, T))
  BY <1>5, <1>6, UnitsWithElement
<1>. QED
  BY <1>2, <1>7

(* A sum is the number of units.                                           *)
THEOREM SumIsCount ==
  ASSUME NEW S, IsFiniteSet(S), NEW weight, \A x \in S : weight[x] \in Nat
  PROVE  /\ IsFiniteSet(Units(weight, S))
         /\ SumFunctionOnSet(weight, S) = Cardinality(Units(weight, S))
<1> DEFINE pick(T) == CHOOSE x \in T : TRUE
           step(g) == [T \in SUBSET S |->
                          IF T = {} THEN 0 ELSE weight[pick(T)] + g[T \ {pick(T)}]]
           iter == CHOOSE g : g = step(g)
           count == [T \in SUBSET S |-> Cardinality(Units(weight, T))]
<1>1. \A T \in SUBSET S : T # {} =>
         /\ pick(T) \in T
         /\ weight[pick(T)] \in Nat
         /\ T \ {pick(T)} \in SUBSET S
         /\ Cardinality(Units(weight, T)) =
               weight[pick(T)] + Cardinality(Units(weight, T \ {pick(T)}))
  <2>1. TAKE T \in SUBSET S
  <2>2. HAVE T # {}
  <2>3. pick(T) \in T /\ weight[pick(T)] \in Nat
    BY <2>2
  <2> DEFINE x == pick(T)
  <2> HIDE DEF x
  <2>4. T = (T \ {x}) \union {x} /\ x \notin T \ {x} /\ IsFiniteSet(T \ {x})
    BY <2>3, FS_Subset DEF x
  <2>5. IsFiniteSet(Units(weight, T \ {x}))
    BY <2>1, <2>4, UnitsAreFinite
  <2>6. Cardinality(Units(weight, (T \ {x}) \union {x})) =
            weight[x] + Cardinality(Units(weight, T \ {x}))
    BY <2>3, <2>4, <2>5, UnitsWithElement DEF x
  <2>. QED
    BY <2>3, <2>4, <2>6 DEF x
<1> HIDE DEF pick
<1>2. count = step(count)
  <2>1. \A T \in SUBSET S : count[T] = step(count)[T]
    BY <1>1, UnitsOfNothing, FS_EmptySet
  <2>. QED
    BY <2>1
<1>3. iter = step(iter)
  BY <1>2
<1> HIDE DEF iter
<1>4. \A T \in SUBSET S : iter[T] = Cardinality(Units(weight, T))
  <2> DEFINE bad == {T \in SUBSET S : iter[T] # Cardinality(Units(weight, T))}
  <2>1. SUFFICES ASSUME bad # {} PROVE FALSE
    OBVIOUS
  <2>2. PICK T \in bad : \A U \in bad : U \subseteq T => U = T
    <3>1. bad \in SUBSET SUBSET S
      OBVIOUS
    <3> HIDE DEF bad
    <3>. QED
      BY <2>1, <3>1, LeastSubset
  <2>3. iter[T] = IF T = {} THEN 0 ELSE weight[pick(T)] + iter[T \ {pick(T)}]
    BY <1>3
  <2>4. T # {}
    BY <2>2, <2>3, UnitsOfNothing, FS_EmptySet
  <2>5. iter[T \ {pick(T)}] = Cardinality(Units(weight, T \ {pick(T)}))
    BY <1>1, <2>2, <2>4
  <2>. QED
    BY <1>1, <2>2, <2>3, <2>4, <2>5
<1>5. SumFunctionOnSet(weight, S) = iter[S]
  BY DEF iter, pick, SumFunctionOnSet, FoldFunctionOnSet, MapThenFoldSet
<1>. QED
  BY <1>4, <1>5, UnitsAreFinite

(* What follows of it, for a function that is summed over its domain.      *)
LEMMA SumIsNat ==
  ASSUME NEW S, IsFiniteSet(S), NEW f \in [S -> Nat]
  PROVE  SumFunction(f) \in Nat
<1>1. DOMAIN f = S /\ \A x \in S : f[x] \in Nat
  OBVIOUS
<1>. QED
  BY <1>1, SumIsCount, FS_CardinalityType DEF SumFunction

LEMMA SumOfNothing ==
  ASSUME NEW f \in [{} -> Nat]
  PROVE  SumFunction(f) = 0
<1>1. DOMAIN f = {} /\ \A x \in {} : f[x] \in Nat
  OBVIOUS
<1>2. IsFiniteSet({}) /\ Cardinality({}) = 0
  BY FS_EmptySet
<1>3. SumFunctionOnSet(f, {}) = Cardinality(Units(f, {}))
  BY <1>2, SumIsCount
<1>. QED
  BY <1>1, <1>2, <1>3, UnitsOfNothing DEF SumFunction

(* Sums depend on the values alone.                                        *)
LEMMA SumOfTheSame ==
  ASSUME NEW S, IsFiniteSet(S), NEW f, NEW g,
         \A x \in S : f[x] \in Nat /\ g[x] = f[x]
  PROVE  SumFunctionOnSet(f, S) = SumFunctionOnSet(g, S)
<1>1. Units(f, S) = Units(g, S)
  BY DEF Units
<1>2. SumFunctionOnSet(f, S) = Cardinality(Units(f, S))
  BY SumIsCount
<1>3. SumFunctionOnSet(g, S) = Cardinality(Units(g, S))
  BY SumIsCount
<1>. QED
  BY <1>1, <1>2, <1>3

LEMMA SumWithElement ==
  ASSUME NEW f, NEW g, NEW x \in DOMAIN f, IsFiniteSet(DOMAIN f),
         \A y \in DOMAIN f : f[y] \in Nat,
         DOMAIN g = DOMAIN f \ {x}, \A y \in DOMAIN g : g[y] = f[y]
  PROVE  SumFunction(f) = f[x] + SumFunction(g)
<1> DEFINE S == DOMAIN f
           rest == S \ {x}
<1>1. /\ DOMAIN f = S /\ DOMAIN g = rest
      /\ S = rest \union {x} /\ x \notin rest /\ f[x] \in Nat
      /\ \A y \in rest : f[y] \in Nat /\ g[y] = f[y]
  OBVIOUS
<1>2. IsFiniteSet(rest)
  BY FS_Subset
<1> HIDE DEF rest
<1>3. SumFunctionOnSet(f, S) = Cardinality(Units(f, S))
  BY SumIsCount
<1>4. IsFiniteSet(Units(f, rest)) /\ SumFunctionOnSet(f, rest) = Cardinality(Units(f, rest))
  BY <1>1, <1>2, SumIsCount
<1>5. Cardinality(Units(f, S)) = f[x] + Cardinality(Units(f, rest))
  BY <1>1, <1>4, UnitsWithElement
<1>6. SumFunctionOnSet(f, rest) = SumFunctionOnSet(g, rest)
  BY <1>1, <1>2, SumOfTheSame
<1>. QED
  BY <1>1, <1>3, <1>4, <1>5, <1>6 DEF SumFunction
-----------------------------------------------------------------------------
(* Recursion over the subsets of a finite set, to a smaller subset in each *)
(* step, defines a function: the definitions by folds mean what they say.  *)
Shrinks(S, V, base, rest, step) ==
    /\ base \in V
    /\ \A T \in SUBSET S : T # {} => rest[T] \in SUBSET T /\ rest[T] # T
    /\ \A T \in SUBSET S : \A v \in V : T # {} => step[<<T, v>>] \in V

Recurs(g, S, base, rest, step) ==
    \A T \in SUBSET S : g[T] = IF T = {} THEN base ELSE step[<<T, g[rest[T]]>>]

LEMMA SubsetRecursion ==
  ASSUME NEW S, IsFiniteSet(S), NEW V, NEW base, NEW rest, NEW step,
         Shrinks(S, V, base, rest, step)
  PROVE  \E g \in [SUBSET S -> V] : Recurs(g, S, base, rest, step)
<1> USE DEF Shrinks, Recurs
<1> DEFINE Solves(g, U) ==
             /\ g \in [SUBSET U -> V]
             /\ \A T \in SUBSET U : g[T] = IF T = {} THEN base ELSE step[<<T, g[rest[T]]>>]
<1>1. ASSUME NEW U \in SUBSET S, NEW W \in SUBSET U, NEW g, NEW h, Solves(g, U), Solves(h, W)
      PROVE  g[W] = h[W]
  <2> DEFINE differ == {T \in SUBSET W : g[T] # h[T]}
  <2>1. SUFFICES ASSUME differ # {} PROVE FALSE
    BY DEF differ
  <2>2. IsFiniteSet(W) /\ differ \in SUBSET SUBSET W
    BY FS_Subset
  <2>3. PICK T \in differ : \A R \in differ : R \subseteq T => R = T
    <3> HIDE DEF differ
    <3>. QED
      BY <2>1, <2>2, LeastSubset
  <2>4. T \in SUBSET U /\ T \in SUBSET W /\ T \in SUBSET S
    OBVIOUS
  <2>5. T # {}
    BY <1>1, <2>3, <2>4
  <2>6. g[rest[T]] = h[rest[T]]
    BY <2>3, <2>4, <2>5
  <2>7. g[T] = step[<<T, g[rest[T]]>>] /\ h[T] = step[<<T, h[rest[T]]>>]
    BY <1>1, <2>4, <2>5
  <2>. QED
    BY <2>3, <2>6, <2>7
<1> DEFINE bad == {U \in SUBSET S : ~ \E g : Solves(g, U)}
<1>2. SUFFICES ASSUME S \in bad PROVE FALSE
  BY DEF bad
<1>3. PICK U \in bad : \A W \in bad : W \subseteq U => W = U
  <2>1. bad \in SUBSET SUBSET S /\ bad # {}
    BY <1>2
  <2> HIDE DEF bad
  <2>. QED
    BY <2>1, LeastSubset
<1> DEFINE sol(W) == CHOOSE g : Solves(g, W)
           value(T) == IF T = {} THEN base ELSE step[<<T, sol(rest[T])[rest[T]]>>]
           whole == [T \in SUBSET U |-> value(T)]
<1>4. U \in SUBSET S
  OBVIOUS
<1> HIDE DEF Solves
<1>5. ASSUME NEW W \in SUBSET U, W # U PROVE Solves(sol(W), W)
  <2>1. \E g : Solves(g, W)
    BY <1>3, <1>4, <1>5
  <2>. QED
    BY <2>1
<1> HIDE DEF sol, bad
<1>6. ASSUME NEW T \in SUBSET U, T # {}
      PROVE  /\ rest[T] \in SUBSET U /\ rest[T] # U
             /\ sol(rest[T])[rest[T]] \in V
  <2>1. rest[T] \in SUBSET U /\ rest[T] # U
    BY <1>4, <1>6
  <2>2. Solves(sol(rest[T]), rest[T])
    BY <1>5, <2>1
  <2>. QED
    BY <2>1, <2>2 DEF Solves
<1>7. ASSUME NEW T \in SUBSET U PROVE value(T) \in V
  BY <1>4, <1>6
<1>8. ASSUME NEW T \in SUBSET U, T # U PROVE value(T) = sol(T)[T]
  <2>1. Solves(sol(T), T) /\ T \in SUBSET S
    BY <1>4, <1>5, <1>8
  <2>2. CASE T = {}
    BY <2>1, <2>2 DEF Solves
  <2>3. CASE T # {}
    <3>1. rest[T] \in SUBSET T /\ Solves(sol(rest[T]), rest[T])
      BY <1>4, <1>5, <1>6, <2>3
    <3>2. sol(T)[rest[T]] = sol(rest[T])[rest[T]]
      BY <1>1, <2>1, <3>1
    <3>3. sol(T)[T] = step[<<T, sol(T)[rest[T]]>>]
      BY <2>1, <2>3 DEF Solves
    <3>. QED
      BY <2>3, <3>2, <3>3
  <2>. QED
    BY <2>2, <2>3
<1>9. ASSUME NEW T \in SUBSET U
      PROVE  whole[T] = IF T = {} THEN base ELSE step[<<T, whole[rest[T]]>>]
  <2>1. T # {} => whole[rest[T]] = sol(rest[T])[rest[T]]
    BY <1>6, <1>8
  <2>. QED
    BY <2>1
<1>10. whole \in [SUBSET U -> V]
  BY <1>7
<1> HIDE DEF whole
<1>11. Solves(whole, U)
  BY <1>9, <1>10 DEF Solves
<1>. QED
  BY <1>3, <1>11 DEF bad

(* The sum of the sizes of disjoint sets is the size of all of them.       *)
LEMMA SumOfDisjoint ==
  ASSUME NEW S, IsFiniteSet(S), NEW f, NEW part,
         \A x \in S : IsFiniteSet(part[x]) /\ f[x] = Cardinality(part[x]),
         \A x, y \in S : x # y => part[x] \intersect part[y] = {},
         NEW whole, \A u : u \in whole <=> \E x \in S : u \in part[x]
  PROVE  /\ IsFiniteSet(whole)
         /\ SumFunctionOnSet(f, S) = Cardinality(whole)
<1> DEFINE all(T) == UNION {part[x] : x \in T}
           bad == {T \in SUBSET S : ~ /\ IsFiniteSet(all(T))
                                      /\ SumFunctionOnSet(f, T) = Cardinality(all(T))}
<1>0. \A x \in S : f[x] \in Nat
  BY FS_CardinalityType
<1>1. SUFFICES ASSUME bad # {} PROVE FALSE
  <2>1. whole = all(S)
    OBVIOUS
  <2>. QED
    BY <2>1 DEF bad
<1>2. PICK T \in bad : \A U \in bad : U \subseteq T => U = T
  <2>1. bad \in SUBSET SUBSET S
    OBVIOUS
  <2> HIDE DEF bad
  <2>. QED
    BY <1>1, <2>1, LeastSubset
<1>3. IsFiniteSet(T) /\ T \in SUBSET S
  BY FS_Subset
<1>4. T # {}
  <2>1. SUFFICES ASSUME T = {} PROVE FALSE
    OBVIOUS
  <2>2. all(T) = {}
    BY <2>1
  <2>3. SumFunctionOnSet(f, {}) = Cardinality(Units(f, {}))
    BY SumIsCount, FS_EmptySet
  <2>. QED
    BY <1>2, <2>1, <2>2, <2>3, UnitsOfNothing, FS_EmptySet
<1>5. PICK x \in T : TRUE
  BY <1>4
<1> DEFINE U == T \ {x}
<1>6. IsFiniteSet(all(U)) /\ SumFunctionOnSet(f, U) = Cardinality(all(U))
  BY <1>2, <1>5
<1>7. /\ T = U \union {x} /\ x \notin U /\ f[x] \in Nat /\ IsFiniteSet(U)
      /\ (\A y \in U : f[y] \in Nat) /\ (\A y \in T : f[y] \in Nat)
  BY <1>0, <1>3, <1>5, FS_Subset
<1>8. all(T) = all(U) \union part[x] /\ all(U) \intersect part[x] = {}
  BY <1>3, <1>5
<1>9. IsFiniteSet(part[x]) /\ f[x] = Cardinality(part[x])
  BY <1>3
<1> HIDE DEF U, all
<1>10. SumFunctionOnSet(f, T) = f[x] + SumFunctionOnSet(f, U)
  <2>1. IsFiniteSet(Units(f, U)) /\ SumFunctionOnSet(f, U) = Cardinality(Units(f, U))
    BY <1>7, SumIsCount
  <2>2. SumFunctionOnSet(f, T) = Cardinality(Units(f, T))
    BY <1>3, <1>7, SumIsCount
  <2>3. Cardinality(Units(f, U \union {x})) = f[x] + Cardinality(Units(f, U))
    BY <1>7, <2>1, UnitsWithElement
  <2>. QED
    BY <1>7, <2>1, <2>2, <2>3
<1>11. IsFiniteSet(all(U) \union part[x])
       /\ Cardinality(all(U) \union part[x]) = Cardinality(all(U)) + Cardinality(part[x])
  <2>1. /\ IsFiniteSet(all(U) \union part[x])
        /\ Cardinality(all(U) \union part[x]) =
              Cardinality(all(U)) + Cardinality(part[x])
                 - Cardinality(all(U) \intersect part[x])
    BY <1>6, <1>9, FS_Union
  <2>2. /\ Cardinality(all(U) \intersect part[x]) = 0
        /\ Cardinality(all(U)) \in Nat /\ Cardinality(part[x]) \in Nat
    BY <1>6, <1>8, <1>9, FS_EmptySet, FS_CardinalityType
  <2>. QED
    BY <2>1, <2>2
<1>12. IsFiniteSet(all(T)) /\ SumFunctionOnSet(f, T) = Cardinality(all(T))
  <2>1. Cardinality(all(U)) \in Nat /\ Cardinality(part[x]) \in Nat
    BY <1>6, <1>9, FS_CardinalityType
  <2>. QED
    BY <1>6, <1>8, <1>9, <1>10, <1>11, <2>1
<1>. QED
  BY <1>2, <1>12
=============================================================================
