---------------------------- MODULE FoldTheorems ----------------------------
(***************************************************************************)
(* Induction over finite sets, and facts about the sum of the values of a  *)
(* function (Functions!SumFunction), on which the books of Positions and   *)
(* Grid, the limits of RiskGate and the reports of GridDesign are defined. *)
(*                                                                         *)
(* Induction is stated with the set G of what has been reached in place of *)
(* a predicate, and follows from the well-foundedness of strict inclusion. *)
(***************************************************************************)
EXTENDS Functions, FiniteSetTheorems, TLAPS

-----------------------------------------------------------------------------
(* Induction *)

\* What holds of a set whenever it holds of its strict subsets holds of all
\* subsets of a finite set.
LEMMA SubsetInduction ==
  ASSUME NEW S, IsFiniteSet(S), NEW G,
         \A T \in SUBSET S :
           (\A U \in SUBSET T : U # T => U \in G) => T \in G
  PROVE  SUBSET S \subseteq G
<1> SUFFICES ASSUME (SUBSET S) \ G # {} PROVE FALSE
  OBVIOUS
<1> DEFINE R == StrictSubsetOrdering(S)
           D == SUBSET S
           B == D \ G
<1>a. FiniteSubsetsOf(S) = D
  BY FS_FiniteSubsetsOfFinite, Zenon
<1>b. IsWellFoundedOn(R, FiniteSubsetsOf(S))
  BY FS_StrictSubsetOrderingWellFounded, Zenon
<1>1. IsWellFoundedOn(R, D)
  BY <1>a, <1>b, Zenon
<1>c. B \subseteq D /\ B # {}
  OBVIOUS
<1>2. PICK T \in B : \A U \in B : ~ (<<U, T>> \in R)
  <2> HIDE DEF R, D, B
  <2>1. \A X : X \subseteq D /\ X # {} =>
               \E x \in X : \A y \in X : ~ (<<y, x>> \in R)
    BY <1>1, WFMin
  <2> QED BY <2>1, <1>c, Zenon
<1>3. \A U \in SUBSET T : U # T => U \in G
  <2> SUFFICES ASSUME NEW U \in SUBSET T, U # T, U \notin G PROVE FALSE
    OBVIOUS
  <2>1. U \in B
    OBVIOUS
  <2>2. <<U, T>> \in R
    BY <2>1 DEF StrictSubsetOrdering
  <2> QED
    BY <1>2, <2>1, <2>2
<1> QED
  BY <1>3

\* A set of natural numbers has a least element.
LEMMA LeastNatural ==
  ASSUME NEW A \in SUBSET Nat, A # {}
  PROVE  \E m \in A : \A n \in A : m <= n
<1>1. PICK k \in A : TRUE
  OBVIOUS
<1>2. SUFFICES ASSUME \A m \in A : \E n \in A : n < m
               PROVE  FALSE
  OBVIOUS
<1> DEFINE S == 0 .. k
           G == {T \in SUBSET S : \A m \in A : m <= k => T # 0 .. m}
<1>3. IsFiniteSet(S)
  BY FS_Interval
<1>4. \A T \in SUBSET S : (\A U \in SUBSET T : U # T => U \in G) => T \in G
  <2> SUFFICES ASSUME NEW T \in SUBSET S,
                      \A U \in SUBSET T : U # T => U \in G
               PROVE  T \in G
    OBVIOUS
  <2> SUFFICES ASSUME NEW m \in A, m <= k, T = 0 .. m PROVE FALSE
    OBVIOUS
  <2>1. PICK n \in A : n < m
    BY <1>2
  <2>2. 0 .. n \in SUBSET T /\ 0 .. n # T
    <3>1. m \in 0 .. m /\ m \notin 0 .. n
      BY <2>1
    <3> QED BY <2>1, <3>1
  <2>3. 0 .. n \in G
    BY <2>2
  <2> QED
    BY <2>1, <2>3
<1>5. SUBSET S \subseteq G
  <2> HIDE DEF S, G
  <2> QED BY <1>3, <1>4, SubsetInduction
<1>6. 0 .. k \in G
  BY <1>5, Zenon
<1> QED
  BY <1>6

\* Induction over the natural numbers.
LEMMA NatInductionSet ==
  ASSUME NEW A, 0 \in A, \A n \in Nat : n \in A => n + 1 \in A
  PROVE  Nat \subseteq A
<1> SUFFICES ASSUME Nat \ A # {} PROVE FALSE
  OBVIOUS
<1>1. PICK m \in Nat \ A : \A n \in Nat \ A : m <= n
  BY LeastNatural, Nat \ A \in SUBSET Nat
<1>2. m # 0 /\ m - 1 \in Nat
  BY <1>1
<1>3. m - 1 \in A
  BY <1>1, <1>2
<1>4. (m - 1) + 1 \in A
  BY <1>2, <1>3
<1> QED
  BY <1>1, <1>4

-----------------------------------------------------------------------------
(* Recursion over the subsets of a finite set *)

\* rec is the recursive function over the subsets of S that starts from base
\* and takes the element pick[s] off s.
IsRecursion(rec, S, base, pick, step) ==
  rec = [s \in SUBSET S |->
           IF s = {} THEN base ELSE step[<<s, rec[s \ {pick[s]}]>>]]

LEMMA RecursionExists ==
  ASSUME NEW S, IsFiniteSet(S), NEW V, NEW base \in V,
         NEW pick, \A s \in SUBSET S : s # {} => pick[s] \in s,
         NEW step, \A s \in SUBSET S, v \in V : step[<<s, v>>] \in V
  PROVE  \E rec \in [SUBSET S -> V] : IsRecursion(rec, S, base, pick, step)
<1> DEFINE Val(g, s) == IF s = {} THEN base ELSE step[<<s, g[s \ {pick[s]}]>>]
           Upto(g, n) == \A s \in SUBSET S :
                           Cardinality(s) <= n => g[s] = Val(g, s)
           A == {n \in Nat : \E g \in [SUBSET S -> V] : Upto(g, n)}
<1>0. \A s \in SUBSET S : IsFiniteSet(s) /\ Cardinality(s) \in Nat
  BY FS_Subset, FS_CardinalityType
<1>v. ASSUME NEW g \in [SUBSET S -> V], NEW s \in SUBSET S
      PROVE  Val(g, s) \in V
  <2>1. s # {} => s \ {pick[s]} \in SUBSET S
    OBVIOUS
  <2>2. s # {} => g[s \ {pick[s]}] \in V
    BY <2>1
  <2> QED
    BY <2>2
<1>1. 0 \in A
  <2> DEFINE g == [s \in SUBSET S |-> base]
  <2>1. \A s \in SUBSET S : Cardinality(s) <= 0 => s = {}
    BY <1>0, FS_EmptySet
  <2>2. Upto(g, 0) /\ g \in [SUBSET S -> V]
    BY <2>1
  <2> HIDE DEF g, Upto
  <2> QED
    BY <2>2
<1>2. ASSUME NEW n \in Nat, n \in A PROVE n + 1 \in A
  <2>1. PICK g \in [SUBSET S -> V] : Upto(g, n)
    BY <1>2
  <2> DEFINE h == [s \in SUBSET S |->
                     IF Cardinality(s) <= n THEN g[s] ELSE Val(g, s)]
  <2>2. h \in [SUBSET S -> V]
    <3> HIDE DEF Val
    <3> QED
      BY <1>v
  <2>3. ASSUME NEW s \in SUBSET S, Cardinality(s) <= n + 1
        PROVE  h[s] = Val(h, s)
    <3>1. h[s] = Val(g, s)
      <4> HIDE DEF Val
      <4>1. CASE Cardinality(s) <= n
        BY <4>1, <2>1
      <4>2. CASE ~ (Cardinality(s) <= n)
        BY <4>2
      <4> QED
        BY <4>1, <4>2
    <3>2. CASE s = {}
      BY <3>1, <3>2
    <3>3. CASE s # {}
      <4> DEFINE t == s \ {pick[s]}
      <4>1. t \in SUBSET S /\ Cardinality(t) = Cardinality(s) - 1
        BY <3>3, <1>0, FS_RemoveElement
      <4>2. Cardinality(t) <= n
        BY <4>1, <2>3, <1>0
      <4>3. h[t] = g[t]
        BY <4>1, <4>2
      <4> HIDE DEF h
      <4> QED
        BY <4>3, <3>1, <3>3
    <3> QED
      BY <3>2, <3>3
  <2>4. Upto(h, n + 1)
    BY <2>3
  <2> HIDE DEF h, Upto
  <2> QED
    BY <2>2, <2>4
<1>3. Nat \subseteq A
  <2> HIDE DEF A
  <2> QED
    BY <1>1, <1>2, NatInductionSet
<1>4. PICK g \in [SUBSET S -> V] : Upto(g, Cardinality(S))
  BY <1>3, FS_CardinalityType
<1>5. \A s \in SUBSET S : g[s] = Val(g, s)
  BY <1>4, <1>0, FS_Subset
<1>6. g = [s \in SUBSET S |-> Val(g, s)]
  <2>1. g = [s \in SUBSET S |-> g[s]]
    OBVIOUS
  <2> HIDE DEF Val
  <2> QED
    BY <2>1, <1>5
<1> QED
  BY <1>6 DEF IsRecursion

-----------------------------------------------------------------------------
(* Sums *)

\* The element that a sum takes first, and one step of a sum.
Some(s) == CHOOSE x \in s : TRUE

Added(f, sum, s) ==
  IF s = {} THEN 0 ELSE f[Some(s)] + sum[s \ {Some(s)}]

\* The sums of f over all subsets of S, as the library defines them.
IsSum(f, sum, S) == sum = [s \in SUBSET S |-> Added(f, sum, s)]
Sums(f, S) == CHOOSE sum : IsSum(f, sum, S)

LEMMA SumIsChosen ==
  ASSUME NEW f, NEW S
  PROVE  SumFunctionOnSet(f, S) = Sums(f, S)[S]
BY Zenon DEF SumFunctionOnSet, FoldFunctionOnSet, MapThenFoldSet, Sums, IsSum,
       Added, Some

LEMMA SomeIn == \A s : s # {} => Some(s) \in s
BY DEF Some

LEMMA SumsExist ==
  ASSUME NEW f, NEW S, IsFiniteSet(S), \A x \in S : f[x] \in Int
  PROVE  \E sum : IsSum(f, sum, S)
<1> DEFINE pick == [s \in SUBSET S |-> Some(s)]
           step == [p \in (SUBSET S) \X Int |->
                      IF p[1] = {} THEN 0 ELSE f[Some(p[1])] + p[2]]
<1>1. \A s \in SUBSET S : s # {} => pick[s] \in s
  BY SomeIn
<1>2. \A s \in SUBSET S, v \in Int :
        step[<<s, v>>] = IF s = {} THEN 0 ELSE f[Some(s)] + v
  OBVIOUS
<1>3. \A s \in SUBSET S, v \in Int : step[<<s, v>>] \in Int
  <2> SUFFICES ASSUME NEW s \in SUBSET S, NEW v \in Int
               PROVE  step[<<s, v>>] \in Int
    OBVIOUS
  <2>1. s # {} => f[Some(s)] \in Int
    BY SomeIn
  <2>2. step[<<s, v>>] = IF s = {} THEN 0 ELSE f[Some(s)] + v
    BY <1>2
  <2> HIDE DEF step
  <2> QED
    BY <2>1, <2>2
<1>4. \A s \in SUBSET S : pick[s] = Some(s)
  OBVIOUS
<1> HIDE DEF pick, step
<1>5. PICK rec \in [SUBSET S -> Int] : IsRecursion(rec, S, 0, pick, step)
  <2>1. 0 \in Int
    OBVIOUS
  <2> QED
    BY <1>1, <1>3, <2>1, RecursionExists, Zenon
<1>6. ASSUME NEW s \in SUBSET S
      PROVE  (IF s = {} THEN 0 ELSE step[<<s, rec[s \ {pick[s]}]>>])
               = Added(f, rec, s)
  <2>1. rec[s \ {Some(s)}] \in Int
    BY SomeIn
  <2> QED
    BY <1>2, <1>4, <2>1 DEF Added
<1>7. rec = [s \in SUBSET S |-> Added(f, rec, s)]
  BY <1>5, <1>6 DEF IsRecursion
<1> QED
  BY <1>7 DEF IsSum

LEMMA SumsAre ==
  ASSUME NEW f, NEW S, IsFiniteSet(S), \A x \in S : f[x] \in Int
  PROVE  \A s \in SUBSET S : Sums(f, S)[s] = Added(f, Sums(f, S), s)
<1>1. IsSum(f, Sums(f, S), S)
  BY SumsExist, Zenon DEF Sums
<1> DEFINE sum == Sums(f, S)
<1>2. sum = [s \in SUBSET S |-> Added(f, sum, s)]
  BY <1>1 DEF IsSum
<1> HIDE DEF sum
<1>3. \A s \in SUBSET S : sum[s] = Added(f, sum, s)
  BY <1>2
<1> QED BY <1>3 DEF sum

\* The sum over a subset does not depend on where it is taken.
LEMMA SumsAgree ==
  ASSUME NEW f, NEW S, IsFiniteSet(S), \A x \in S : f[x] \in Int,
         NEW T \in SUBSET S
  PROVE  \A s \in SUBSET T : Sums(f, S)[s] = Sums(f, T)[s]
<1> DEFINE G == {s \in SUBSET T : Sums(f, S)[s] = Sums(f, T)[s]}
<1>1. IsFiniteSet(T)
  BY FS_Subset
<1>2. \A s \in SUBSET T : (\A u \in SUBSET s : u # s => u \in G) => s \in G
  <2> SUFFICES ASSUME NEW s \in SUBSET T, 
                      \A u \in SUBSET s : u # s => u \in G
               PROVE  Sums(f, S)[s] = Sums(f, T)[s]
    OBVIOUS
  <2>1. Sums(f, S)[s] = Added(f, Sums(f, S), s)
    BY SumsAre
  <2>2. Sums(f, T)[s] = Added(f, Sums(f, T), s)
    BY <1>1, SumsAre
  <2>3. s # {} => s \ {Some(s)} \in SUBSET s /\ s \ {Some(s)} # s
    BY SomeIn
  <2>4. s # {} => Sums(f, S)[s \ {Some(s)}] = Sums(f, T)[s \ {Some(s)}]
    BY <2>3
  <2> QED BY <2>1, <2>2, <2>4 DEF Added
<1> HIDE DEF G
<1>3. SUBSET T \subseteq G
  BY <1>1, <1>2, SubsetInduction
<1> QED BY <1>3 DEF G

\* A sum is unfolded by one element.
LEMMA SumStep ==
  ASSUME NEW f, NEW S, IsFiniteSet(S), \A x \in S : f[x] \in Int
  PROVE  /\ SumFunctionOnSet(f, {}) = 0
         /\ S # {} => SumFunctionOnSet(f, S) =
                        f[Some(S)] + SumFunctionOnSet(f, S \ {Some(S)})
<1>1. SumFunctionOnSet(f, {}) = 0
  <2>1. Sums(f, {})[{}] = Added(f, Sums(f, {}), {})
    BY SumsAre, FS_EmptySet
  <2> QED BY <2>1, SumIsChosen DEF Added
<1>2. ASSUME S # {}
      PROVE  SumFunctionOnSet(f, S) =
                        f[Some(S)] + SumFunctionOnSet(f, S \ {Some(S)})
  <2> DEFINE T == S \ {Some(S)}
  <2>1. Sums(f, S)[S] = f[Some(S)] + Sums(f, S)[T]
    BY <1>2, SumsAre DEF Added
  <2>2. Sums(f, S)[T] = Sums(f, T)[T]
    BY SumsAgree
  <2> QED BY <2>1, <2>2, SumIsChosen
<1> QED BY <1>1, <1>2

\* Induction along a sum.
LEMMA SumInduction ==
  ASSUME NEW S, IsFiniteSet(S), NEW G, {} \in G,
         \A s \in SUBSET S : s # {} /\ s \ {Some(s)} \in G => s \in G
  PROVE  S \in G
<1>1. \A T \in SUBSET S : (\A U \in SUBSET T : U # T => U \in G) => T \in G
  BY SomeIn
<1>2. SUBSET S \subseteq G
  BY <1>1, SubsetInduction
<1> QED BY <1>2

LEMMA SumEmpty ==
  ASSUME NEW f
  PROVE  SumFunctionOnSet(f, {}) = 0
BY SumStep, FS_EmptySet, \A x \in {} : f[x] \in Int

LEMMA SumType ==
  ASSUME NEW f, NEW S, IsFiniteSet(S), \A x \in S : f[x] \in Int
  PROVE  SumFunctionOnSet(f, S) \in Int
<1> DEFINE G == {s \in SUBSET S : SumFunctionOnSet(f, s) \in Int}
<1>1. {} \in G
  BY SumEmpty
<1>2. \A s \in SUBSET S : s # {} /\ s \ {Some(s)} \in G => s \in G
  BY SumStep, SomeIn, FS_Subset
<1> HIDE DEF G
<1>3. S \in G
  BY <1>1, <1>2, SumInduction
<1> QED BY <1>3 DEF G

LEMMA SumSame ==
  ASSUME NEW f, NEW g, NEW S, IsFiniteSet(S), 
         \A x \in S : f[x] \in Int /\ f[x] = g[x]
  PROVE  SumFunctionOnSet(f, S) = SumFunctionOnSet(g, S)
<1> DEFINE G == {s \in SUBSET S :
                   SumFunctionOnSet(f, s) = SumFunctionOnSet(g, s)}
<1>1. {} \in G
  BY SumEmpty
<1>2. \A s \in SUBSET S : s # {} /\ s \ {Some(s)} \in G => s \in G
  BY SumStep, SomeIn, FS_Subset
<1> HIDE DEF G
<1>3. S \in G
  BY <1>1, <1>2, SumInduction
<1> QED BY <1>3 DEF G

LEMMA SumZero ==
  ASSUME NEW f, NEW S, IsFiniteSet(S), \A x \in S : f[x] = 0
  PROVE  SumFunctionOnSet(f, S) = 0
<1> DEFINE G == {s \in SUBSET S : SumFunctionOnSet(f, s) = 0}
<1>1. {} \in G
  BY SumEmpty
<1>2. \A s \in SUBSET S : s # {} /\ s \ {Some(s)} \in G => s \in G
  BY SumStep, SomeIn, FS_Subset
<1> HIDE DEF G
<1>3. S \in G
  BY <1>1, <1>2, SumInduction
<1> QED BY <1>3 DEF G

LEMMA SumMono ==
  ASSUME NEW f, NEW g, NEW S, IsFiniteSet(S), 
         \A x \in S : f[x] \in Int /\ g[x] \in Int /\ f[x] <= g[x]
  PROVE  SumFunctionOnSet(f, S) <= SumFunctionOnSet(g, S)
<1> DEFINE G == {s \in SUBSET S :
                   SumFunctionOnSet(f, s) <= SumFunctionOnSet(g, s)}
<1>1. {} \in G
  BY SumEmpty
<1>2. \A s \in SUBSET S : s # {} /\ s \ {Some(s)} \in G => s \in G
  <2> SUFFICES ASSUME NEW s \in SUBSET S, s # {}, s \ {Some(s)} \in G
               PROVE  s \in G
    OBVIOUS
  <2>1. IsFiniteSet(s) /\ IsFiniteSet(s \ {Some(s)})
    BY FS_Subset
  <2>2. /\ SumFunctionOnSet(f, s \ {Some(s)}) \in Int
        /\ SumFunctionOnSet(g, s \ {Some(s)}) \in Int
    BY <2>1, SumType
  <2>3. /\ SumFunctionOnSet(f, s) = f[Some(s)] + SumFunctionOnSet(f, s \ {Some(s)})
        /\ SumFunctionOnSet(g, s) = g[Some(s)] + SumFunctionOnSet(g, s \ {Some(s)})
    BY <2>1, SumStep
  <2>4. Some(s) \in S
    BY SomeIn
  <2> QED BY <2>2, <2>3, <2>4
<1> HIDE DEF G
<1>3. S \in G
  BY <1>1, <1>2, SumInduction
<1> QED BY <1>3 DEF G

LEMMA SumAdds ==
  ASSUME NEW f, NEW g, NEW h, NEW S, IsFiniteSet(S), 
         \A x \in S : f[x] \in Int /\ g[x] \in Int /\ h[x] = f[x] + g[x]
  PROVE  SumFunctionOnSet(h, S) =
           SumFunctionOnSet(f, S) + SumFunctionOnSet(g, S)
<1> DEFINE G == {s \in SUBSET S :
                   SumFunctionOnSet(h, s) =
                     SumFunctionOnSet(f, s) + SumFunctionOnSet(g, s)}
<1>1. {} \in G
  BY SumEmpty
<1>2. \A s \in SUBSET S : s # {} /\ s \ {Some(s)} \in G => s \in G
  <2> SUFFICES ASSUME NEW s \in SUBSET S, s # {}, s \ {Some(s)} \in G
               PROVE  s \in G
    OBVIOUS
  <2>1. IsFiniteSet(s) /\ IsFiniteSet(s \ {Some(s)})
    BY FS_Subset
  <2>2. /\ SumFunctionOnSet(f, s \ {Some(s)}) \in Int
        /\ SumFunctionOnSet(g, s \ {Some(s)}) \in Int
    BY <2>1, SumType
  <2>3. /\ SumFunctionOnSet(f, s) = f[Some(s)] + SumFunctionOnSet(f, s \ {Some(s)})
        /\ SumFunctionOnSet(g, s) = g[Some(s)] + SumFunctionOnSet(g, s \ {Some(s)})
        /\ SumFunctionOnSet(h, s) = h[Some(s)] + SumFunctionOnSet(h, s \ {Some(s)})
    BY <2>1, SumStep
  <2>4. Some(s) \in S
    BY SomeIn
  <2> QED BY <2>2, <2>3, <2>4
<1> HIDE DEF G
<1>3. S \in G
  BY <1>1, <1>2, SumInduction
<1> QED BY <1>3 DEF G

\* Any element may be taken out.
LEMMA SumOut ==
  ASSUME NEW f, NEW S, IsFiniteSet(S), \A x \in S : f[x] \in Int, NEW x \in S
  PROVE  SumFunctionOnSet(f, S) = f[x] + SumFunctionOnSet(f, S \ {x})
<1> DEFINE G == {s \in SUBSET S : \A y \in s :
          SumFunctionOnSet(f, s) = f[y] + SumFunctionOnSet(f, s \ {y})}
<1>1. \A s \in SUBSET S : (\A u \in SUBSET s : u # s => u \in G) => s \in G
  <2> SUFFICES ASSUME NEW s \in SUBSET S,
                      \A u \in SUBSET s : u # s => u \in G,
                      NEW y \in s
               PROVE  SumFunctionOnSet(f, s) =
                        f[y] + SumFunctionOnSet(f, s \ {y})
    OBVIOUS
  <2> DEFINE z == Some(s)
  <2>1. z \in s
    BY SomeIn
  <2>2. SumFunctionOnSet(f, s) = f[z] + SumFunctionOnSet(f, s \ {z})
    BY SumStep, FS_Subset
  <2>3. CASE y = z
    BY <2>2, <2>3
  <2>4. CASE y # z
    <3> HIDE DEF z
    <3>1. s \ {z} \in G /\ y \in s \ {z}
      BY <2>1, <2>4
    <3>2. SumFunctionOnSet(f, s \ {z}) =
            f[y] + SumFunctionOnSet(f, (s \ {z}) \ {y})
      BY <3>1
    <3>3. s \ {y} \in G /\ z \in s \ {y}
      BY <2>1, <2>4
    <3>4. SumFunctionOnSet(f, s \ {y}) =
            f[z] + SumFunctionOnSet(f, (s \ {y}) \ {z})
      BY <3>3
    <3>5. (s \ {y}) \ {z} = (s \ {z}) \ {y}
      OBVIOUS
    <3> DEFINE rest == SumFunctionOnSet(f, (s \ {z}) \ {y})
    <3>6. rest \in Int
      BY SumType, FS_Subset
    <3>7. f[y] \in Int /\ f[z] \in Int
      BY <2>1
    <3>8. SumFunctionOnSet(f, s) = f[z] + (f[y] + rest)
      BY <2>2, <3>2, Zenon
    <3>9. SumFunctionOnSet(f, s \ {y}) = f[z] + rest
      BY <3>4, <3>5, Zenon
    <3> HIDE DEF rest
    <3> QED BY <3>6, <3>7, <3>8, <3>9
  <2> QED BY <2>3, <2>4
<1> HIDE DEF G
<1>2. SUBSET S \subseteq G
  BY <1>1, SubsetInduction
<1> QED BY <1>2 DEF G

\* One value is replaced.
LEMMA SumUpdate ==
  ASSUME NEW f, NEW g, NEW S, IsFiniteSet(S), NEW x \in S,
         \A y \in S : f[y] \in Int /\ g[y] \in Int,
         \A y \in S : y # x => f[y] = g[y]
  PROVE  SumFunctionOnSet(g, S) = SumFunctionOnSet(f, S) - f[x] + g[x]
<1>1. IsFiniteSet(S \ {x})
  BY FS_RemoveElement
<1>2. /\ SumFunctionOnSet(f, S) = f[x] + SumFunctionOnSet(f, S \ {x})
      /\ SumFunctionOnSet(g, S) = g[x] + SumFunctionOnSet(g, S \ {x})
  BY SumOut
<1>3. SumFunctionOnSet(f, S \ {x}) = SumFunctionOnSet(g, S \ {x})
  BY <1>1, SumSame
<1>4. SumFunctionOnSet(f, S \ {x}) \in Int
  BY <1>1, SumType
<1> QED BY <1>2, <1>3, <1>4

\* Zeros do not count.
LEMMA SumInside ==
  ASSUME NEW f, NEW g, NEW S, IsFiniteSet(S), NEW T \in SUBSET S,
         \A x \in S : g[x] \in Int,
         \A x \in T : f[x] = g[x],
         \A x \in S \ T : g[x] = 0
  PROVE  SumFunctionOnSet(f, T) = SumFunctionOnSet(g, S)
<1> DEFINE G == {s \in SUBSET S : SumFunctionOnSet(g, s \cap T) =
                                   SumFunctionOnSet(g, s)}
<1>1. {} \in G
  BY SumEmpty
<1>2. ASSUME NEW s \in SUBSET S, s # {}, s \ {Some(s)} \in G
      PROVE  s \in G
  <2> DEFINE x == Some(s)
             t == s \ {x}
  <2>1. x \in s
    BY <1>2, SomeIn
  <2>2. SumFunctionOnSet(g, s) = g[x] + SumFunctionOnSet(g, t)
    BY <1>2, SumStep, FS_Subset
  <2>3. SumFunctionOnSet(g, t \cap T) = SumFunctionOnSet(g, t)
    BY <1>2
  <2>4. SumFunctionOnSet(g, t) \in Int
    BY SumType, FS_Subset
  <2>5. IsFiniteSet(s \cap T)
    BY FS_Subset, s \cap T \in SUBSET S
  <2> HIDE DEF x
  <2>6. CASE x \in T
    <3>1. x \in s \cap T /\ (s \cap T) \ {x} = t \cap T
      BY <2>1, <2>6
    <3>2. SumFunctionOnSet(g, s \cap T) =
            g[x] + SumFunctionOnSet(g, (s \cap T) \ {x})
      BY <2>5, <3>1, SumOut
    <3>3. SumFunctionOnSet(g, s \cap T) = SumFunctionOnSet(g, s)
      <4> HIDE DEF t
      <4> QED
        BY <2>2, <2>3, <3>1, <3>2
    <3> QED
      BY <3>3
  <2>7. CASE x \notin T
    <3>1. s \cap T = t \cap T /\ g[x] = 0
      BY <2>1, <2>7
    <3>2. SumFunctionOnSet(g, s \cap T) = SumFunctionOnSet(g, s)
      <4> HIDE DEF t
      <4>1. SumFunctionOnSet(g, s) = SumFunctionOnSet(g, t)
        BY <2>2, <2>4, <3>1
      <4>2. SumFunctionOnSet(g, s \cap T) = SumFunctionOnSet(g, t \cap T)
        BY <3>1, Zenon
      <4> QED
        BY <2>3, <4>1, <4>2, Zenon
    <3> QED
      BY <3>2
  <2> QED
    BY <2>6, <2>7
<1> HIDE DEF G
<1>3. S \in G
  BY <1>1, <1>2, SumInduction
<1>4. SumFunctionOnSet(g, T) = SumFunctionOnSet(g, S)
  <2>1. SumFunctionOnSet(g, S \cap T) = SumFunctionOnSet(g, S)
    BY <1>3 DEF G
  <2>2. S \cap T = T
    OBVIOUS
  <2> QED
    BY <2>1, <2>2
<1>5. SumFunctionOnSet(f, T) = SumFunctionOnSet(g, T)
  BY SumSame, FS_Subset
<1> QED
  BY <1>4, <1>5

\* Parts are summed up apart.
LEMMA SumUnion ==
  ASSUME NEW f, NEW S, IsFiniteSet(S), NEW T, IsFiniteSet(T),
         S \cap T = {}, \A x \in S \cup T : f[x] \in Int
  PROVE  SumFunctionOnSet(f, S \cup T) =
           SumFunctionOnSet(f, S) + SumFunctionOnSet(f, T)
<1> DEFINE G == {s \in SUBSET T :
                   SumFunctionOnSet(f, S \cup s) =
                     SumFunctionOnSet(f, S) + SumFunctionOnSet(f, s)}
<1>1. SumFunctionOnSet(f, S) \in Int
  BY SumType
<1>2. {} \in G
  <2>1. S \cup {} = S
    OBVIOUS
  <2>2. SumFunctionOnSet(f, S \cup {}) =
          SumFunctionOnSet(f, S) + SumFunctionOnSet(f, {})
    BY <1>1, <2>1, SumEmpty
  <2> QED BY <2>2
<1>3. ASSUME NEW s \in SUBSET T, s # {}, s \ {Some(s)} \in G
      PROVE  s \in G
  <2> DEFINE x == Some(s)
             t == s \ {x}
  <2>1. x \in s
    BY <1>3, SomeIn
  <2>2. IsFiniteSet(s) /\ IsFiniteSet(t) /\ IsFiniteSet(S \cup s)
    <3>1. IsFiniteSet(s) /\ IsFiniteSet(t)
      BY FS_Subset
    <3> QED BY <3>1, FS_Union
  <2> HIDE DEF x
  <2>3. x \in S \cup s /\ (S \cup s) \ {x} = S \cup t
    BY <2>1
  <2>4. SumFunctionOnSet(f, S \cup s) =
          f[x] + SumFunctionOnSet(f, (S \cup s) \ {x})
    BY <2>2, <2>3, SumOut
  <2>5. SumFunctionOnSet(f, s) = f[x] + SumFunctionOnSet(f, t)
    BY <2>1, <2>2, SumOut
  <2>6. SumFunctionOnSet(f, t) \in Int /\ f[x] \in Int
    BY <2>1, <2>2, SumType
  <2>7. SumFunctionOnSet(f, S \cup t) =
          SumFunctionOnSet(f, S) + SumFunctionOnSet(f, t)
    BY <1>3 DEF x
  <2> HIDE DEF t
  <2>8. SumFunctionOnSet(f, S \cup s) = f[x] + SumFunctionOnSet(f, S \cup t)
    BY <2>3, <2>4, Zenon
  <2> QED BY <1>1, <2>5, <2>6, <2>7, <2>8
<1> HIDE DEF G
<1>4. T \in G
  BY <1>2, <1>3, SumInduction
<1> QED BY <1>4 DEF G

\* A sum of values in proportion.
LEMMA SumScale ==
  ASSUME NEW f, NEW h, NEW S, IsFiniteSet(S), NEW k \in Int,
         \A x \in S : f[x] \in Int /\ h[x] = k * f[x]
  PROVE  SumFunctionOnSet(h, S) = k * SumFunctionOnSet(f, S)
<1> DEFINE G == {s \in SUBSET S :
                   SumFunctionOnSet(h, s) = k * SumFunctionOnSet(f, s)}
<1>1. {} \in G
  BY SumEmpty
<1>2. ASSUME NEW s \in SUBSET S, s # {}, s \ {Some(s)} \in G
      PROVE  s \in G
  <2> DEFINE x == Some(s)
             t == s \ {x}
  <2>1. x \in s
    BY <1>2, SomeIn
  <2>2. IsFiniteSet(s) /\ IsFiniteSet(t)
    BY FS_Subset
  <2>3. /\ SumFunctionOnSet(f, s) = f[x] + SumFunctionOnSet(f, t)
        /\ SumFunctionOnSet(h, s) = h[x] + SumFunctionOnSet(h, t)
    <3>1. \A y \in S : h[y] \in Int
      OBVIOUS
    <3> QED BY <2>1, <2>2, <3>1, SumOut
  <2>4. PICK u \in Int, v \in Int :
          u = SumFunctionOnSet(f, t) /\ v = f[x]
    BY <2>1, <2>2, SumType
  <2>5. h[x] = k * v /\ SumFunctionOnSet(h, t) = k * u
    BY <1>2, <2>1, <2>4
  <2>6. k * v + k * u = k * (v + u)
    OBVIOUS
  <2> QED BY <2>3, <2>4, <2>5, <2>6
<1> HIDE DEF G
<1>3. S \in G
  BY <1>1, <1>2, SumInduction
<1> QED BY <1>3 DEF G

\* A sum of one value.
LEMMA SumConstant ==
  ASSUME NEW h, NEW S, IsFiniteSet(S), NEW a \in Int, \A x \in S : h[x] = a
  PROVE  SumFunctionOnSet(h, S) = Cardinality(S) * a
<1> DEFINE G == {s \in SUBSET S :
                   SumFunctionOnSet(h, s) = Cardinality(s) * a}
<1>1. {} \in G
  <2>1. SumFunctionOnSet(h, {}) = 0 /\ Cardinality({}) = 0
    BY SumEmpty, FS_EmptySet
  <2>2. 0 * a = 0
    OBVIOUS
  <2> QED BY <2>1, <2>2
<1>2. ASSUME NEW s \in SUBSET S, s # {}, s \ {Some(s)} \in G
      PROVE  s \in G
  <2> DEFINE x == Some(s)
             t == s \ {x}
  <2>1. x \in s
    BY <1>2, SomeIn
  <2>2. IsFiniteSet(s) /\ IsFiniteSet(t)
    BY FS_Subset
  <2>3. PICK n \in Nat : n = Cardinality(t) /\ Cardinality(s) = n + 1
    <3>1. Cardinality(t) = Cardinality(s) - 1
      BY <2>1, <2>2, FS_RemoveElement
    <3>2. Cardinality(t) \in Nat /\ Cardinality(s) \in Nat
      BY <2>2, FS_CardinalityType
    <3> QED BY <3>1, <3>2
  <2>4. SumFunctionOnSet(h, s) = a + n * a
    <3>1. SumFunctionOnSet(h, s) = h[x] + SumFunctionOnSet(h, t)
      BY <2>1, <2>2, SumOut
    <3>2. SumFunctionOnSet(h, t) = n * a /\ h[x] = a
      BY <1>2, <2>1, <2>3
    <3> QED BY <3>1, <3>2
  <2>5. a + n * a = (n + 1) * a
    OBVIOUS
  <2> QED BY <2>3, <2>4, <2>5
<1> HIDE DEF G
<1>3. S \in G
  BY <1>1, <1>2, SumInduction
<1> QED BY <1>3 DEF G
=============================================================================
