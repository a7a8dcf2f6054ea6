---------------------------- MODULE SumTheorems ----------------------------
(***************************************************************************)
(* Facts about SumFunctionOnSet of the community modules, the sum of a     *)
(* function's values over a finite set: what the proofs about counters     *)
(* that are kept while a table grows rest on.                              *)
(*                                                                         *)
(* The sum is a fold, defined by recursion over subsets in an order that   *)
(* CHOOSE fixes.  The recursion is shown to have a solution (SumExists),   *)
(* to have one only (SumUnique), and not to depend on the order            *)
(* (SumRemove); every later fact follows from SumRemove by SetInduction.   *)
(***************************************************************************)
EXTENDS Integers, FiniteSets, Functions, FiniteSetTheorems, WellFoundedInduction, TLAPS

\* Induction over the subsets of a finite set, with the property given as the
\* set of those that have it.
LEMMA SetInduction ==
  ASSUME NEW S, IsFiniteSet(S), NEW Good,
         \A T \in SUBSET S : (\A U \in SUBSET T : U # T => U \in Good) => T \in Good
  PROVE  \A T \in SUBSET S : T \in Good
<1> DEFINE Bad == {T \in SUBSET S : T \notin Good}
<1>1. \A T \in SUBSET S : IsFiniteSet(T)
  BY FS_Subset
<1>2. FiniteSubsetsOf(S) = SUBSET S
  BY <1>1 DEF FiniteSubsetsOf
<1>3. IsWellFoundedOn(StrictSubsetOrdering(S), SUBSET S)
  BY <1>2, FS_StrictSubsetOrderingWellFounded
<1>4. SUFFICES ASSUME Bad # {} PROVE FALSE
  OBVIOUS
<1>5. PICK T \in Bad : \A U \in Bad : <<U, T>> \notin StrictSubsetOrdering(S)
  <2>1. Bad \subseteq SUBSET S
    OBVIOUS
  <2> HIDE DEF Bad
  <2>2. QED
    BY <1>3, <1>4, <2>1, WFMin
<1>6. ASSUME NEW U \in SUBSET T, U # T  PROVE U \in Good
  BY <1>5, <1>6 DEF StrictSubsetOrdering
<1>7. QED
  BY <1>5, <1>6

\* A finite set of numbers has a greatest and a least one.
LEMMA Extremes ==
  ASSUME NEW D, IsFiniteSet(D), D \subseteq Int
  PROVE  \A s \in SUBSET D : s # {} =>
           /\ \E x \in s : \A y \in s : y <= x
           /\ \E x \in s : \A y \in s : x <= y
<1> DEFINE Good == {s \in SUBSET D : s # {} =>
                      /\ \E x \in s : \A y \in s : y <= x
                      /\ \E x \in s : \A y \in s : x <= y}
<1>1. ASSUME NEW T \in SUBSET D, \A U \in SUBSET T : U # T => U \in Good
      PROVE  T \in Good
  <2>1. SUFFICES ASSUME NEW p \in T PROVE T \in Good
    OBVIOUS
  <2>2. T \ {p} \in Good
    BY <1>1
  <2>3. CASE T = {p}
    BY <2>3
  <2>4. CASE T # {p}
    <3>1. PICK x \in T \ {p} : \A y \in T \ {p} : y <= x
      BY <2>2, <2>4
    <3>2. PICK z \in T \ {p} : \A y \in T \ {p} : z <= y
      BY <2>2, <2>4
    <3>3. \E w \in T : \A y \in T : y <= w
      <4>1. CASE p <= x
        BY <3>1, <4>1
      <4>2. CASE ~(p <= x)
        BY <3>1, <4>2
      <4>3. QED
        BY <4>1, <4>2
    <3>4. \E w \in T : \A y \in T : w <= y
      <4>1. CASE z <= p
        BY <3>2, <4>1
      <4>2. CASE ~(z <= p)
        BY <3>2, <4>2
      <4>3. QED
        BY <4>1, <4>2
    <3>5. QED
      BY <3>3, <3>4
  <2>5. QED
    BY <2>3, <2>4
<1> HIDE DEF Good
<1>2. \A T \in SUBSET D : T \in Good
  BY <1>1, SetInduction
<1>3. QED
  BY <1>2 DEF Good

\* An interval of numbers is finite.
LEMMA FiniteInterval ==
  ASSUME NEW m \in Int, NEW n \in Int
  PROVE  IsFiniteSet(m..n)
BY FS_Interval

-----------------------------------------------------------------------------
(***************************************************************************)
(* The fold.                                                               *)
(***************************************************************************)
Pick(s) == CHOOSE x \in s : TRUE

\* g sums f over each subset of S.
IsSum(g, f, S) ==
  g = [s \in SUBSET S |-> IF s = {} THEN 0 ELSE f[Pick(s)] + g[s \ {Pick(s)}]]

SumIter(f, S) == CHOOSE g : IsSum(g, f, S)

\* The definition of the sum.
LEMMA SumUnfold ==
  ASSUME NEW f, NEW S
  PROVE  SumFunctionOnSet(f, S) = SumIter(f, S)[S]
BY DEF SumFunctionOnSet, FoldFunctionOnSet, MapThenFoldSet, SumIter, IsSum, Pick

LEMMA PickIn ==
  ASSUME NEW s, s # {}
  PROVE  Pick(s) \in s
BY DEF Pick

\* Solutions for a set and for a subset of it agree.
LEMMA SumUnique ==
  ASSUME NEW f, NEW S, IsFiniteSet(S), NEW T \in SUBSET S, NEW g, NEW h,
         IsSum(g, f, S), IsSum(h, f, T)
  PROVE  \A s \in SUBSET T : g[s] = h[s]
<1> DEFINE Good == {s \in SUBSET T : g[s] = h[s]}
<1>1. ASSUME NEW s \in SUBSET T, \A u \in SUBSET s : u # s => u \in Good
      PROVE  s \in Good
  <2>1. CASE s = {}
    BY <2>1 DEF IsSum
  <2>2. CASE s # {}
    <3>1. Pick(s) \in s
      BY <2>2, PickIn
    <3>2. s \ {Pick(s)} \in Good
      BY <3>1, <1>1
    <3>3. g[s] = f[Pick(s)] + g[s \ {Pick(s)}]
      BY <2>2 DEF IsSum
    <3>4. h[s] = f[Pick(s)] + h[s \ {Pick(s)}]
      BY <2>2 DEF IsSum
    <3>5. QED
      BY <3>2, <3>3, <3>4
  <2>3. QED
    BY <2>1, <2>2
<1>2. IsFiniteSet(T)
  BY FS_Subset
<1> HIDE DEF Good
<1>3. \A s \in SUBSET T : s \in Good
  BY <1>1, <1>2, SetInduction
<1>4. QED
  BY <1>3 DEF Good

\* There is a solution.
LEMMA SumExists ==
  ASSUME NEW f, NEW S, IsFiniteSet(S)
  PROVE  IsSum(SumIter(f, S), f, S)
<1> DEFINE Good == {T \in SUBSET S : \E g : IsSum(g, f, T)}
<1>1. ASSUME NEW T \in SUBSET S, \A U \in SUBSET T : U # T => U \in Good
      PROVE  T \in Good
  <2>1. CASE T = {}
    <3>1. IsSum([s \in SUBSET {} |-> 0], f, {})
      BY DEF IsSum
    <3>2. QED
      BY <2>1, <3>1
  <2>2. CASE T # {}
    <3> DEFINE p == Pick(T)
               g == [s \in SUBSET T |-> SumIter(f, s)[s]]
               k == [s \in SUBSET T |-> IF s = T THEN f[p] + g[T \ {p}] ELSE g[s]]
    <3>1. p \in T
      BY <2>2, PickIn
    <3>2. \A s \in SUBSET T : s # T => IsSum(SumIter(f, s), f, s)
      BY <1>1 DEF SumIter
    <3>3. ASSUME NEW s \in SUBSET T, s # T, s # {}
          PROVE  g[s] = f[Pick(s)] + g[s \ {Pick(s)}]
      <4> DEFINE t == s \ {Pick(s)}
      <4>1. Pick(s) \in s
        BY <3>3, PickIn
      <4>2. IsSum(SumIter(f, s), f, s) /\ IsSum(SumIter(f, t), f, t)
        BY <3>2, <3>3, <4>1
      <4>3. IsFiniteSet(s)
        BY FS_Subset
      <4>4. SumIter(f, s)[t] = SumIter(f, t)[t]
        BY <4>2, <4>3, SumUnique
      <4>5. SumIter(f, s)[s] = f[Pick(s)] + SumIter(f, s)[t]
        BY <4>2, <3>3 DEF IsSum
      <4>6. QED
        BY <4>4, <4>5
    <3>4. g[{}] = 0
      <4>1. IsSum(SumIter(f, {}), f, {})
        BY <3>2, <2>2
      <4>2. QED
        BY <4>1, <2>2 DEF IsSum
    <3>5. IsSum(k, f, T)
      <4> SUFFICES ASSUME NEW s \in SUBSET T
                   PROVE  k[s] = IF s = {} THEN 0 ELSE f[Pick(s)] + k[s \ {Pick(s)}]
        BY DEF IsSum
      <4>1. CASE s = {}
        BY <4>1, <3>4, <2>2
      <4>2. CASE s # {} /\ s # T
        <5>1. s \ {Pick(s)} # T
          BY <4>2
        <5>2. QED
          BY <4>2, <5>1, <3>3
      <4>3. CASE s = T
        BY <4>3, <2>2, <3>1
      <4>4. QED
        BY <4>1, <4>2, <4>3
    <3>6. QED
      BY <3>5
  <2>3. QED
    BY <2>1, <2>2
<1> HIDE DEF Good
<1>2. S \in Good
  BY <1>1, SetInduction
<1>3. QED
  BY <1>2 DEF Good, SumIter

\* The recursion of the definition, for the sum itself.
LEMMA SumPick ==
  ASSUME NEW f, NEW S, IsFiniteSet(S), S # {}
  PROVE  SumFunctionOnSet(f, S)
           = f[Pick(S)] + SumFunctionOnSet(f, S \ {Pick(S)})
<1> DEFINE T == S \ {Pick(S)}
<1>1. IsFiniteSet(T) /\ T \subseteq S
  BY FS_Subset
<1>2. IsSum(SumIter(f, S), f, S) /\ IsSum(SumIter(f, T), f, T)
  BY <1>1, SumExists
<1>3. SumIter(f, S)[T] = SumIter(f, T)[T]
  BY <1>1, <1>2, SumUnique
<1>4. SumIter(f, S)[S] = f[Pick(S)] + SumIter(f, S)[T]
  BY <1>2 DEF IsSum
<1>5. QED
  BY <1>3, <1>4, SumUnfold

LEMMA SumEmpty ==
  ASSUME NEW f
  PROVE  SumFunctionOnSet(f, {}) = 0
<1>1. IsSum(SumIter(f, {}), f, {})
  BY SumExists, FS_EmptySet
<1>2. QED
  BY <1>1, SumUnfold DEF IsSum

\* The sum of integers is one.
LEMMA SumInt ==
  ASSUME NEW f, NEW S, IsFiniteSet(S), \A x \in S : f[x] \in Int
  PROVE  SumFunctionOnSet(f, S) \in Int
<1> DEFINE Good == {T \in SUBSET S : SumFunctionOnSet(f, T) \in Int}
<1>1. ASSUME NEW T \in SUBSET S, \A U \in SUBSET T : U # T => U \in Good
      PROVE  T \in Good
  <2>1. CASE T = {}
    BY <2>1, SumEmpty
  <2>2. CASE T # {}
    <3>1. Pick(T) \in T /\ IsFiniteSet(T)
      BY <2>2, PickIn, FS_Subset
    <3>2. SumFunctionOnSet(f, T \ {Pick(T)}) \in Int
      BY <3>1, <1>1
    <3>3. QED
      BY <2>2, <3>1, <3>2, SumPick
  <2>3. QED
    BY <2>1, <2>2
<1> HIDE DEF Good
<1>2. S \in Good
  BY <1>1, SetInduction
<1>3. QED
  BY <1>2 DEF Good

\* Any element may be taken out first.
LEMMA SumRemove ==
  ASSUME NEW f, NEW S, IsFiniteSet(S), \A x \in S : f[x] \in Int, NEW e \in S
  PROVE  SumFunctionOnSet(f, S) = f[e] + SumFunctionOnSet(f, S \ {e})
<1> DEFINE Good == {T \in SUBSET S :
             \A x \in T : SumFunctionOnSet(f, T) = f[x] + SumFunctionOnSet(f, T \ {x})}
<1>1. ASSUME NEW T \in SUBSET S, \A U \in SUBSET T : U # T => U \in Good
      PROVE  T \in Good
  <2> SUFFICES ASSUME NEW x \in T
               PROVE  SumFunctionOnSet(f, T) = f[x] + SumFunctionOnSet(f, T \ {x})
    OBVIOUS
  <2> DEFINE p == Pick(T)
  <2>1. p \in T /\ IsFiniteSet(T)
    BY PickIn, FS_Subset
  <2>2. SumFunctionOnSet(f, T) = f[p] + SumFunctionOnSet(f, T \ {p})
    BY <2>1, SumPick
  <2>3. CASE x = p
    BY <2>2, <2>3
  <2>4. CASE x # p
    <3>1. T \ {p} \in Good /\ T \ {x} \in Good
      BY <2>1, <1>1
    <3>2. SumFunctionOnSet(f, T \ {p}) = f[x] + SumFunctionOnSet(f, (T \ {p}) \ {x})
      BY <3>1, <2>4
    <3>3. SumFunctionOnSet(f, T \ {x}) = f[p] + SumFunctionOnSet(f, (T \ {x}) \ {p})
      BY <3>1, <2>1, <2>4
    <3>4. (T \ {p}) \ {x} = (T \ {x}) \ {p}
      OBVIOUS
    <3>5. IsFiniteSet((T \ {x}) \ {p})
      BY <2>1, FS_Subset
    <3>6. SumFunctionOnSet(f, (T \ {x}) \ {p}) \in Int
      BY <3>5, SumInt
    <3>7. f[x] \in Int /\ f[p] \in Int
      BY <2>1
    <3> DEFINE rest == SumFunctionOnSet(f, (T \ {x}) \ {p})
    <3>8. f[p] + (f[x] + rest) = f[x] + (f[p] + rest)
      BY <3>6, <3>7
    <3>9. QED
      BY <2>2, <3>2, <3>3, <3>4, <3>8
  <2>5. QED
    BY <2>3, <2>4
<1> HIDE DEF Good
<1>2. S \in Good
  BY <1>1, SetInduction
<1>3. QED
  BY <1>2 DEF Good

\* One more element adds its value.
LEMMA SumAdd ==
  ASSUME NEW f, NEW S, IsFiniteSet(S), NEW e, e \notin S,
         \A x \in S \cup {e} : f[x] \in Int
  PROVE  SumFunctionOnSet(f, S \cup {e}) = f[e] + SumFunctionOnSet(f, S)
<1>1. IsFiniteSet(S \cup {e}) /\ (S \cup {e}) \ {e} = S
  BY FS_AddElement
<1>2. QED
  BY <1>1, SumRemove

-----------------------------------------------------------------------------
(***************************************************************************)
(* Comparing sums.                                                         *)
(***************************************************************************)
\* Functions with the same values have the same sum.
LEMMA SumSame ==
  ASSUME NEW f, NEW g, NEW S, IsFiniteSet(S),
         \A x \in S : f[x] \in Int /\ f[x] = g[x]
  PROVE  SumFunctionOnSet(f, S) = SumFunctionOnSet(g, S)
<1> DEFINE Good == {T \in SUBSET S : SumFunctionOnSet(f, T) = SumFunctionOnSet(g, T)}
<1>1. ASSUME NEW T \in SUBSET S, \A U \in SUBSET T : U # T => U \in Good
      PROVE  T \in Good
  <2>1. CASE T = {}
    BY <2>1, SumEmpty
  <2>2. CASE T # {}
    <3>1. PICK e \in T : TRUE
      BY <2>2
    <3>2. IsFiniteSet(T) /\ T \ {e} \in Good
      BY <1>1, FS_Subset
    <3>3. SumFunctionOnSet(f, T) = f[e] + SumFunctionOnSet(f, T \ {e})
      BY <3>2, SumRemove
    <3>4. SumFunctionOnSet(g, T) = g[e] + SumFunctionOnSet(g, T \ {e})
      BY <3>2, SumRemove
    <3>5. QED
      BY <3>2, <3>3, <3>4
  <2>3. QED
    BY <2>1, <2>2
<1> HIDE DEF Good
<1>2. S \in Good
  BY <1>1, SetInduction
<1>3. QED
  BY <1>2 DEF Good

\* Greater values have a greater sum.
LEMMA SumLeq ==
  ASSUME NEW f, NEW g, NEW S, IsFiniteSet(S),
         \A x \in S : f[x] \in Int /\ g[x] \in Int /\ f[x] <= g[x]
  PROVE  SumFunctionOnSet(f, S) <= SumFunctionOnSet(g, S)
<1> DEFINE Good == {T \in SUBSET S : SumFunctionOnSet(f, T) <= SumFunctionOnSet(g, T)}
<1>1. ASSUME NEW T \in SUBSET S, \A U \in SUBSET T : U # T => U \in Good
      PROVE  T \in Good
  <2>1. CASE T = {}
    BY <2>1, SumEmpty
  <2>2. CASE T # {}
    <3>1. PICK e \in T : TRUE
      BY <2>2
    <3>2. IsFiniteSet(T) /\ IsFiniteSet(T \ {e}) /\ T \ {e} \in Good
      BY <1>1, FS_Subset
    <3>3. SumFunctionOnSet(f, T) = f[e] + SumFunctionOnSet(f, T \ {e})
      BY <3>2, SumRemove
    <3>4. SumFunctionOnSet(g, T) = g[e] + SumFunctionOnSet(g, T \ {e})
      BY <3>2, SumRemove
    <3>5. /\ SumFunctionOnSet(f, T \ {e}) \in Int
          /\ SumFunctionOnSet(g, T \ {e}) \in Int
      BY <3>2, SumInt
    <3>6. SumFunctionOnSet(f, T \ {e}) <= SumFunctionOnSet(g, T \ {e})
      BY <3>2
    <3>7. SumFunctionOnSet(f, T) <= SumFunctionOnSet(g, T)
      BY <3>3, <3>4, <3>5, <3>6
    <3>8. QED
      BY <3>7
  <2>3. QED
    BY <2>1, <2>2
<1> HIDE DEF Good
<1>2. S \in Good
  BY <1>1, SetInduction
<1>3. QED
  BY <1>2 DEF Good

\* A sum of zeros is zero.
LEMMA SumZero ==
  ASSUME NEW f, NEW S, IsFiniteSet(S), \A x \in S : f[x] = 0
  PROVE  SumFunctionOnSet(f, S) = 0
<1> DEFINE Good == {T \in SUBSET S : SumFunctionOnSet(f, T) = 0}
<1>1. ASSUME NEW T \in SUBSET S, \A U \in SUBSET T : U # T => U \in Good
      PROVE  T \in Good
  <2>1. CASE T = {}
    BY <2>1, SumEmpty
  <2>2. CASE T # {}
    <3>1. PICK e \in T : TRUE
      BY <2>2
    <3>2. IsFiniteSet(T) /\ T \ {e} \in Good
      BY <1>1, FS_Subset
    <3>3. SumFunctionOnSet(f, T) = f[e] + SumFunctionOnSet(f, T \ {e})
      BY <3>2, SumRemove
    <3>4. QED
      BY <3>2, <3>3
  <2>3. QED
    BY <2>1, <2>2
<1> HIDE DEF Good
<1>2. S \in Good
  BY <1>1, SetInduction
<1>3. QED
  BY <1>2 DEF Good

\* The sum of naturals is one.
LEMMA SumNat ==
  ASSUME NEW f, NEW S, IsFiniteSet(S), \A x \in S : f[x] \in Nat
  PROVE  SumFunctionOnSet(f, S) \in Nat
<1> DEFINE zero == [x \in S |-> 0]
<1>1. SumFunctionOnSet(zero, S) = 0
  BY SumZero
<1>2. SumFunctionOnSet(zero, S) <= SumFunctionOnSet(f, S)
  BY SumLeq
<1>3. SumFunctionOnSet(f, S) \in Int
  BY SumInt
<1>4. QED
  BY <1>1, <1>2, <1>3

\* The sum over two disjoint sets.
LEMMA SumUnion ==
  ASSUME NEW f, NEW S, IsFiniteSet(S), NEW R, IsFiniteSet(R), R \cap S = {},
         \A x \in R \cup S : f[x] \in Int
  PROVE  SumFunctionOnSet(f, R \cup S) = SumFunctionOnSet(f, R) + SumFunctionOnSet(f, S)
<1> DEFINE Good == {T \in SUBSET S :
             SumFunctionOnSet(f, R \cup T) = SumFunctionOnSet(f, R) + SumFunctionOnSet(f, T)}
<1>0. SumFunctionOnSet(f, R) \in Int
  BY SumInt
<1>1. ASSUME NEW T \in SUBSET S, \A U \in SUBSET T : U # T => U \in Good
      PROVE  T \in Good
  <2>1. CASE T = {}
    BY <2>1, <1>0, SumEmpty
  <2>2. CASE T # {}
    <3>1. PICK e \in T : TRUE
      BY <2>2
    <3>2. IsFiniteSet(T) /\ IsFiniteSet(T \ {e}) /\ T \ {e} \in Good
      BY <1>1, FS_Subset
    <3>3. SumFunctionOnSet(f, T) = f[e] + SumFunctionOnSet(f, T \ {e})
      BY <3>2, SumRemove
    <3>4. IsFiniteSet(R \cup T) /\ e \in R \cup T /\ (R \cup T) \ {e} = R \cup (T \ {e})
      BY <3>2, FS_Union
    <3>5. SumFunctionOnSet(f, R \cup T) = f[e] + SumFunctionOnSet(f, R \cup (T \ {e}))
      BY <3>4, SumRemove
    <3>6. SumFunctionOnSet(f, T \ {e}) \in Int /\ f[e] \in Int
      BY <3>2, SumInt
    <3>7. SumFunctionOnSet(f, R \cup (T \ {e}))
            = SumFunctionOnSet(f, R) + SumFunctionOnSet(f, T \ {e})
      BY <3>2
    <3>8. SumFunctionOnSet(f, R \cup T) = SumFunctionOnSet(f, R) + SumFunctionOnSet(f, T)
      BY <3>3, <3>5, <3>6, <3>7, <1>0
    <3>9. QED
      BY <3>8
  <2>3. QED
    BY <2>1, <2>2
<1> HIDE DEF Good
<1>2. S \in Good
  BY <1>1, SetInduction
<1>3. QED
  BY <1>2 DEF Good

\* The sum over a subset, of values that are not negative, is no greater.
LEMMA SumSubset ==
  ASSUME NEW f, NEW S, IsFiniteSet(S), \A x \in S : f[x] \in Nat, NEW T \in SUBSET S
  PROVE  SumFunctionOnSet(f, T) <= SumFunctionOnSet(f, S)
<1>1. IsFiniteSet(T) /\ IsFiniteSet(S \ T) /\ T \cup (S \ T) = S
  BY FS_Subset
<1>2. SumFunctionOnSet(f, S) = SumFunctionOnSet(f, T) + SumFunctionOnSet(f, S \ T)
  BY <1>1, SumUnion
<1>3. SumFunctionOnSet(f, T) \in Nat /\ SumFunctionOnSet(f, S \ T) \in Nat
  BY <1>1, SumNat
<1>4. QED
  BY <1>2, <1>3

\* The sum moves with each of its values.
LEMMA SumChange ==
  ASSUME NEW f, NEW g, NEW S, IsFiniteSet(S), NEW e \in S,
         \A x \in S : f[x] \in Int /\ g[x] \in Int,
         \A x \in S \ {e} : f[x] = g[x]
  PROVE  SumFunctionOnSet(g, S) = SumFunctionOnSet(f, S) + (g[e] - f[e])
<1>1. IsFiniteSet(S \ {e})
  BY FS_Subset
<1>2. /\ SumFunctionOnSet(f, S) = f[e] + SumFunctionOnSet(f, S \ {e})
      /\ SumFunctionOnSet(g, S) = g[e] + SumFunctionOnSet(g, S \ {e})
  BY SumRemove
<1>3. SumFunctionOnSet(f, S \ {e}) = SumFunctionOnSet(g, S \ {e})
  BY <1>1, SumSame
<1>4. SumFunctionOnSet(f, S \ {e}) \in Int
  BY <1>1, SumInt
<1>5. QED
  BY <1>2, <1>3, <1>4

\* The image of a finite set is finite, and no larger.
LEMMA ImageFinite ==
  ASSUME NEW S, IsFiniteSet(S), NEW b
  PROVE  /\ IsFiniteSet({b[x] : x \in S})
         /\ Cardinality({b[x] : x \in S}) <= Cardinality(S)
<1> DEFINE Image == {b[x] : x \in S}
           f == [x \in S |-> b[x]]
<1>1. f \in Surjection(S, Image)
  BY DEF Surjection
<1> HIDE DEF Image, f
<1>2. QED
  BY <1>1, FS_Surjection DEF Image

\* b maps S to R, one to one.
Renames(b, S, R) ==
  /\ \A x \in S : b[x] \in R
  /\ \A y \in R : \E x \in S : b[x] = y
  /\ \A x, y \in S : b[x] = b[y] => x = y

\* Renaming the elements does not change the sum.
LEMMA SumImage ==
  ASSUME NEW f, NEW g, NEW b, NEW S, IsFiniteSet(S), NEW R, Renames(b, S, R),
         \A x \in S : f[x] \in Int /\ f[x] = g[b[x]]
  PROVE  SumFunctionOnSet(f, S) = SumFunctionOnSet(g, R)
<1> DEFINE Image(T) == {b[x] : x \in T}
           Good == {T \in SUBSET S : SumFunctionOnSet(f, T) = SumFunctionOnSet(g, Image(T))}
<1>0. \A x, y \in S : b[x] = b[y] => x = y
  BY DEF Renames
<1>1. ASSUME NEW T \in SUBSET S, \A U \in SUBSET T : U # T => U \in Good
      PROVE  T \in Good
  <2>1. CASE T = {}
    <3>1. Image(T) = {}
      BY <2>1
    <3>2. QED
      BY <3>1, <2>1, SumEmpty
  <2>2. CASE T # {}
    <3>1. PICK e \in T : TRUE
      BY <2>2
    <3>2. IsFiniteSet(T) /\ T \ {e} \in Good
      BY <1>1, FS_Subset
    <3>3. SumFunctionOnSet(f, T) = f[e] + SumFunctionOnSet(f, T \ {e})
      BY <3>2, SumRemove
    <3>4. IsFiniteSet(Image(T))
      BY <3>2, ImageFinite
    <3>5. b[e] \in Image(T) /\ Image(T) \ {b[e]} = Image(T \ {e})
      BY <1>0
    <3>6. \A y \in Image(T) : g[y] \in Int
      OBVIOUS
    <3>7. SumFunctionOnSet(f, T \ {e}) = SumFunctionOnSet(g, Image(T \ {e}))
      BY <3>2
    <3>8. SumFunctionOnSet(g, Image(T)) = g[b[e]] + SumFunctionOnSet(g, Image(T) \ {b[e]})
      <4> DEFINE I == Image(T)
      <4> HIDE DEF I
      <4>1. IsFiniteSet(I) /\ b[e] \in I /\ \A y \in I : g[y] \in Int
        BY <3>4, <3>5, <3>6 DEF I
      <4>2. SumFunctionOnSet(g, I) = g[b[e]] + SumFunctionOnSet(g, I \ {b[e]})
        BY <4>1, SumRemove
      <4>3. QED
        BY <4>2 DEF I
    <3>9. QED
      BY <3>3, <3>5, <3>7, <3>8
  <2>3. QED
    BY <2>1, <2>2
<1> HIDE DEF Good
<1>2. S \in Good
  BY <1>1, SetInduction
<1>3. Image(S) = R
  BY DEF Renames
<1>4. QED
  BY <1>2, <1>3 DEF Good

-----------------------------------------------------------------------------
(***************************************************************************)
(* A union of finite sets has at most as many elements as all of them      *)
(* together.                                                               *)
(***************************************************************************)
LEMMA UnionBound ==
  ASSUME NEW S, IsFiniteSet(S), NEW F, NEW w,
         \A x \in S : /\ IsFiniteSet(F[x]) /\ w[x] \in Nat
                      /\ Cardinality(F[x]) <= w[x]
  PROVE  /\ IsFiniteSet(UNION {F[x] : x \in S})
         /\ Cardinality(UNION {F[x] : x \in S}) <= SumFunctionOnSet(w, S)
<1> DEFINE All(T) == UNION {F[x] : x \in T}
           Good == {T \in SUBSET S : /\ IsFiniteSet(All(T))
                                     /\ Cardinality(All(T)) <= SumFunctionOnSet(w, T)}
<1>1. ASSUME NEW T \in SUBSET S, \A U \in SUBSET T : U # T => U \in Good
      PROVE  T \in Good
  <2>1. CASE T = {}
    <3>1. All(T) = {}
      BY <2>1
    <3>2. QED
      BY <3>1, <2>1, SumEmpty, FS_EmptySet
  <2>2. CASE T # {}
    <3>1. PICK e \in T : TRUE
      BY <2>2
    <3>2. IsFiniteSet(T) /\ IsFiniteSet(T \ {e}) /\ T \ {e} \in Good
      BY <1>1, FS_Subset
    <3>3. SumFunctionOnSet(w, T) = w[e] + SumFunctionOnSet(w, T \ {e})
      BY <3>2, SumRemove
    <3>4. SumFunctionOnSet(w, T \ {e}) \in Nat
      BY <3>2, SumNat
    <3> DEFINE R == All(T \ {e})
    <3>5. All(T) = F[e] \cup R
      OBVIOUS
    <3>6. IsFiniteSet(R) /\ Cardinality(R) <= SumFunctionOnSet(w, T \ {e})
      BY <3>2
    <3>7. IsFiniteSet(F[e]) /\ w[e] \in Nat /\ Cardinality(F[e]) <= w[e]
      OBVIOUS
    <3> HIDE DEF R, All
    <3>8. /\ IsFiniteSet(F[e] \cup R)
          /\ Cardinality(F[e] \cup R)
               = Cardinality(F[e]) + Cardinality(R) - Cardinality(F[e] \cap R)
          /\ Cardinality(F[e]) \in Nat /\ Cardinality(R) \in Nat
          /\ Cardinality(F[e] \cap R) \in Nat
      BY <3>6, <3>7, FS_Union, FS_CardinalityType, FS_Intersection
    <3>9. /\ IsFiniteSet(All(T))
          /\ Cardinality(All(T)) <= SumFunctionOnSet(w, T)
      BY <3>3, <3>4, <3>5, <3>6, <3>7, <3>8
    <3>10. QED
      BY <3>9
  <2>3. QED
    BY <2>1, <2>2
<1> HIDE DEF Good
<1>2. S \in Good
  BY <1>1, SetInduction
<1>3. QED
  BY <1>2 DEF Good

\* U is made up of the finite, disjoint sets F[x], for x in the finite set S.
Partition(U, S, F) ==
  /\ IsFiniteSet(S)
  /\ \A y : y \in U <=> \E x \in S : y \in F[x]
  /\ \A x \in S : IsFiniteSet(F[x])
  /\ \A x, z \in S : x # z => F[x] \cap F[z] = {}

\* A sum over the members of disjoint sets is the sum of the sums over each.
LEMMA SumFibres ==
  ASSUME NEW U, NEW S, NEW F, Partition(U, S, F),
         NEW f, \A y \in U : f[y] \in Int,
         NEW w, \A x \in S : w[x] = SumFunctionOnSet(f, F[x])
  PROVE  /\ IsFiniteSet(U)
         /\ SumFunctionOnSet(f, U) = SumFunctionOnSet(w, S)
<1> USE DEF Partition
<1> DEFINE All(T) == UNION {F[x] : x \in T}
           Good == {T \in SUBSET S :
                      /\ IsFiniteSet(All(T))
                      /\ SumFunctionOnSet(f, All(T)) = SumFunctionOnSet(w, T)}
<1>1. ASSUME NEW T \in SUBSET S, \A V \in SUBSET T : V # T => V \in Good
      PROVE  T \in Good
  <2>1. CASE T = {}
    <3>1. All(T) = {}
      BY <2>1
    <3>2. QED
      BY <3>1, <2>1, SumEmpty, FS_EmptySet
  <2>2. CASE T # {}
    <3>1. PICK e \in T : TRUE
      BY <2>2
    <3>2. IsFiniteSet(T) /\ IsFiniteSet(T \ {e}) /\ T \ {e} \in Good
      BY <1>1, FS_Subset
    <3>3. \A x \in T : w[x] \in Int
      BY SumInt
    <3>4. SumFunctionOnSet(w, T) = w[e] + SumFunctionOnSet(w, T \ {e})
      BY <3>2, <3>3, SumRemove
    <3> DEFINE R == All(T \ {e})
    <3>5. All(T) = F[e] \cup R /\ F[e] \cap R = {}
      OBVIOUS
    <3>6. IsFiniteSet(R) /\ SumFunctionOnSet(f, R) = SumFunctionOnSet(w, T \ {e})
      BY <3>2
    <3>7. IsFiniteSet(F[e]) /\ w[e] = SumFunctionOnSet(f, F[e])
      OBVIOUS
    <3>8. \A y \in F[e] \cup R : f[y] \in Int
      OBVIOUS
    <3> HIDE DEF R, All
    <3>9. SumFunctionOnSet(f, F[e] \cup R)
            = SumFunctionOnSet(f, F[e]) + SumFunctionOnSet(f, R)
      BY <3>5, <3>6, <3>7, <3>8, SumUnion
    <3>10. IsFiniteSet(F[e] \cup R)
      BY <3>6, <3>7, FS_Union
    <3>11. /\ IsFiniteSet(All(T))
           /\ SumFunctionOnSet(f, All(T)) = SumFunctionOnSet(w, T)
      BY <3>4, <3>5, <3>6, <3>7, <3>9, <3>10
    <3>12. QED
      BY <3>11
  <2>3. QED
    BY <2>1, <2>2
<1>2. IsFiniteSet(S)
  OBVIOUS
<1> HIDE DEF Good
<1>3. S \in Good
  BY <1>1, <1>2, SetInduction
<1>4. U = All(S)
  OBVIOUS
<1> HIDE DEF All
<1>5. QED
  BY <1>3, <1>4 DEF Good

\* Members whose value is zero do not count.
LEMMA SumPositive ==
  ASSUME NEW f, NEW S, IsFiniteSet(S), NEW T \in SUBSET S,
         \A x \in S : f[x] \in Int, \A x \in S \ T : f[x] = 0
  PROVE  SumFunctionOnSet(f, S) = SumFunctionOnSet(f, T)
<1>1. IsFiniteSet(T) /\ IsFiniteSet(S \ T) /\ T \cup (S \ T) = S
  BY FS_Subset
<1>2. SumFunctionOnSet(f, S) = SumFunctionOnSet(f, T) + SumFunctionOnSet(f, S \ T)
  BY <1>1, SumUnion
<1>3. SumFunctionOnSet(f, S \ T) = 0 /\ SumFunctionOnSet(f, T) \in Int
  BY <1>1, SumZero, SumInt
<1>4. QED
  BY <1>2, <1>3
=============================================================================
