-------------------------- MODULE IndicatorProofs --------------------------
(***************************************************************************)
(* Facts about the indicators, for all periods, prices and lengths of the  *)
(* buffer: an average is a function of the values so far, the values that  *)
(* are missing from a series are left out of its average, and what is      *)
(* known of a bar does not change as bars come in.  The averages are       *)
(* recursive functions, so the induction is over their places.             *)
(***************************************************************************)
EXTENDS Indicators, FoldTheorems, SequenceTheorems

-----------------------------------------------------------------------------
(* The averages of the indicators *)

LEMMA IndicatorNumbers ==
  /\ \A c \in Closes : c \in Nat /\ c > 0
  /\ \A w \in Wicks : w \in Nat
  /\ Buffer \in Nat /\ Buffer >= 2 /\ MaxBars \in Nat
  /\ Unit \in Nat /\ Unit > 0 /\ MinCandles \in Nat /\ MinCandles >= 2
  /\ RsiPeriod \in Nat /\ RsiPeriod > 0 /\ RsiPeriod <= Unit
  /\ AdxPeriod \in Nat /\ AdxPeriod > 0 /\ BandPeriod \in Nat /\ BandPeriod > 0
  /\ Fast \in Nat /\ Fast > 0 /\ Slow \in Nat /\ Slow > 0
  /\ SignalPeriod \in Nat /\ SignalPeriod > 0
BY IndicatorsAssumption DEF IndicatorsAssumption

\* A value of an average from the one before it.
Step(s, period, num, den, last, i) ==
  IF i < period THEN NaN
  ELSE IF i = period THEN Num(Total(s, 1, period) \div period)
  ELSE Num((s[i] * num + last.is * (den - num)) \div den)

IsAverage(avg, s, period, num, den) ==
  avg = [i \in DOMAIN s |-> Step(s, period, num, den, avg[i - 1], i)]

Average(s, period, num, den) ==
  CHOOSE avg : IsAverage(avg, s, period, num, den)

LEMMA SmoothedIsChosen ==
  ASSUME NEW s, NEW period, NEW num, NEW den
  PROVE  Smoothed(s, period, num, den) = Average(s, period, num, den)
BY Zenon DEF Smoothed, Average, IsAverage, Step

\* Such an average exists for any values in places from the first one on.
LEMMA AverageExists ==
  ASSUME NEW s, NEW m \in Nat, DOMAIN s = 1..m, NEW period \in Nat \ {0},
         NEW num, NEW den
  PROVE  \E avg : IsAverage(avg, s, period, num, den)
<1> DEFINE Val(last, i) == Step(s, period, num, den, last, i)
           A == {n \in Nat : \E g :
                   DOMAIN g = 1..n /\ \A i \in 1..n : g[i] = Val(g[i - 1], i)}
<1>0. \A x, y : Val(x, 1) = Val(y, 1)
  BY DEF Step
<1> HIDE DEF Val
<1>1. 0 \in A
  <2>1. PICK g : g = [i \in 1..0 |-> NaN]
    OBVIOUS
  <2>2. DOMAIN g = 1..0 /\ \A i \in 1..0 : g[i] = Val(g[i - 1], i)
    BY <2>1
  <2> QED BY <2>2
<1>2. ASSUME NEW n \in Nat, n \in A PROVE n + 1 \in A
  <2>1. PICK g : DOMAIN g = 1..n /\ \A i \in 1..n : g[i] = Val(g[i - 1], i)
    BY <1>2
  <2>2. PICK h : h = [i \in 1..(n + 1) |-> IF i <= n THEN g[i]
                                            ELSE Val(g[n], n + 1)]
    OBVIOUS
  <2>3. DOMAIN h = 1..(n + 1)
    BY <2>2
  <2>4. ASSUME NEW i \in 1..(n + 1) PROVE h[i] = Val(h[i - 1], i)
    <3>1. CASE i = 1 /\ n = 0
      BY <1>0, <2>2, <3>1
    <3>2. CASE i = 1 /\ n > 0
      <4>1. 1 \in 1..n /\ h[1] = g[1]
        BY <2>2, <3>2
      <4>2. g[1] = Val(g[1 - 1], 1)
        BY <2>1, <4>1
      <4>3. Val(g[1 - 1], 1) = Val(h[1 - 1], 1)
        BY <1>0
      <4> QED BY <3>2, <4>1, <4>2, <4>3
    <3>3. CASE i > 1 /\ i <= n
      <4>1. i \in 1..n /\ i - 1 \in 1..n
        BY <3>3
      <4>2. h[i] = g[i] /\ h[i - 1] = g[i - 1]
        BY <2>2, <3>3, <4>1
      <4> QED BY <2>1, <4>1, <4>2
    <3>4. CASE i > 1 /\ i = n + 1
      <4>1. n \in 1..(n + 1) /\ i - 1 = n
        BY <3>4
      <4>2. h[i] = Val(g[n], n + 1) /\ h[n] = g[n]
        BY <2>2, <3>4, <4>1
      <4> QED BY <3>4, <4>1, <4>2
    <3> QED BY <3>1, <3>2, <3>3, <3>4
  <2> QED BY <2>3, <2>4
<1>3. m \in A
  <2> HIDE DEF A
  <2> QED BY <1>1, <1>2, NatInductionSet
<1>4. PICK g : DOMAIN g = 1..m /\ \A i \in 1..m : g[i] = Val(g[i - 1], i)
  BY <1>3
<1>5. PICK h : h = [i \in 1..m |-> g[i]]
  OBVIOUS
<1>6. DOMAIN h = 1..m /\ \A i \in 1..m : h[i] = Val(h[i - 1], i)
  <2> SUFFICES ASSUME NEW i \in 1..m PROVE h[i] = Val(h[i - 1], i)
    BY <1>5
  <2>1. CASE i = 1
    <3>1. h[1] = g[1] /\ g[1] = Val(g[1 - 1], 1)
      BY <1>4, <1>5, <2>1
    <3> QED BY <1>0, <2>1, <3>1
  <2>2. CASE i > 1
    <3>1. i - 1 \in 1..m
      BY <2>2
    <3> QED BY <1>4, <1>5, <3>1
  <2> QED BY <2>1, <2>2
<1>7. h = [i \in 1..m |-> Val(h[i - 1], i)]
  <2>1. h = [i \in 1..m |-> h[i]]
    BY <1>5
  <2> QED BY <1>6, <2>1
<1> QED BY <1>7 DEF IsAverage, Val

\* The values avg of an average, place by place.
Smooth(avg, s, m, period, num, den) ==
  /\ DOMAIN avg = 1..m
  /\ \A i \in 1..m :
       /\ i < period => avg[i] = NaN
       /\ i = period => avg[i] = Num(Total(s, 1, period) \div period)
       /\ i > period => avg[i] =
            Num((s[i] * num + avg[i - 1].is * (den - num)) \div den)

LEMMA SmoothedIs ==
  ASSUME NEW s, NEW m \in Nat, DOMAIN s = 1..m, NEW period \in Nat \ {0},
         NEW num, NEW den
  PROVE  Smooth(Smoothed(s, period, num, den), s, m, period, num, den)
<1> DEFINE avg == Smoothed(s, period, num, den)
<1>1. IsAverage(avg, s, period, num, den)
  BY AverageExists, SmoothedIsChosen DEF Average
<1> HIDE DEF avg
<1>2. avg = [i \in 1..m |-> Step(s, period, num, den, avg[i - 1], i)]
  BY <1>1 DEF IsAverage
<1>3. DOMAIN avg = 1..m
      /\ \A i \in 1..m : avg[i] = Step(s, period, num, den, avg[i - 1], i)
  BY <1>2
<1>4. Smooth(avg, s, m, period, num, den)
  BY <1>3 DEF Step, Smooth
<1> QED BY <1>4 DEF avg

\* Values and NaN are told apart.
LEMMA NumIs ==
  /\ NaN.value = FALSE
  /\ \A x : Num(x).value = TRUE /\ Num(x).is = x
BY DEF NaN, Num

Summable(s, m) == m \in Nat /\ DOMAIN s = 1..m /\ \A i \in 1..m : s[i] \in Int

LEMMA TotalIs ==
  ASSUME NEW s, NEW m, Summable(s, m), NEW a \in Nat \ {0}, NEW b \in Int,
         b <= m
  PROVE  Total(s, a, b) \in Int
<1>1. IsFiniteSet(a..b)
  BY FS_Interval
<1>2. \A i \in a..b : s[i] \in Int
  BY DEF Summable
<1> QED BY <1>1, <1>2, SumType DEF Total

\* An average has no values in its first places, and whole numbers then.
LEMMA SmoothedType ==
  ASSUME NEW s, NEW m, Summable(s, m), NEW period \in Nat \ {0},
         NEW num \in Int, NEW den \in Nat \ {0},
         NEW avg, avg = Smoothed(s, period, num, den)
  PROVE  /\ DOMAIN avg = 1..m
         /\ \A i \in 1..m :
              /\ avg[i].value \in BOOLEAN
              /\ avg[i].value <=> i >= period
              /\ i < period => avg[i] = NaN
              /\ i >= period => avg[i].is \in Int /\ avg[i] = Num(avg[i].is)
<1>1. m \in Nat /\ DOMAIN s = 1..m
  BY DEF Summable
<1>2. /\ DOMAIN avg = 1..m
      /\ \A i \in 1..m :
           /\ i < period => avg[i] = NaN
           /\ i = period => avg[i] = Num(Total(s, 1, period) \div period)
           /\ i > period => avg[i] =
                Num((s[i] * num + avg[i - 1].is * (den - num)) \div den)
  <2>1. Smooth(avg, s, m, period, num, den)
    BY <1>1, SmoothedIs
  <2> QED BY <2>1 DEF Smooth
<1> DEFINE A == {n \in Nat : n \in 1..m /\ n >= period =>
                   avg[n].is \in Int /\ avg[n] = Num(avg[n].is)}
<1>3. 0 \in A
  OBVIOUS
<1>4. ASSUME NEW n \in Nat, n \in A PROVE n + 1 \in A
  <2> SUFFICES ASSUME n + 1 \in 1..m, n + 1 >= period
               PROVE  avg[n + 1].is \in Int /\ avg[n + 1] = Num(avg[n + 1].is)
    OBVIOUS
  <2>1. CASE n + 1 = period
    <3>1. PICK t \in Int : t = Total(s, 1, period)
      BY <1>1, <2>1, TotalIs
    <3>2. t \div period \in Int
      OBVIOUS
    <3>3. avg[n + 1] = Num(t \div period)
      BY <1>2, <2>1, <3>1
    <3> QED BY <3>2, <3>3, NumIs
  <2>2. CASE n + 1 > period
    <3>1. n \in 1..m /\ n >= period /\ (n + 1) - 1 = n
      BY <1>1, <2>2
    <3>2. avg[n].is \in Int
      BY <1>4, <3>1
    <3>3. PICK x \in Int : x = s[n + 1] * num + avg[n].is * (den - num)
      BY <3>2 DEF Summable
    <3>4. x \div den \in Int
      OBVIOUS
    <3>5. avg[n + 1] = Num(x \div den)
      BY <1>2, <2>2, <3>1, <3>3
    <3> QED BY <3>4, <3>5, NumIs
  <2> QED BY <2>1, <2>2
<1>5. Nat \subseteq A
  <2> HIDE DEF A
  <2> QED BY <1>3, <1>4, NatInductionSet
<1>6. \A i \in 1..m : i >= period =>
                        avg[i].is \in Int /\ avg[i] = Num(avg[i].is)
  BY <1>1, <1>5
<1>7. ASSUME NEW i \in 1..m
      PROVE  /\ avg[i].value \in BOOLEAN
             /\ avg[i].value <=> i >= period
             /\ i < period => avg[i] = NaN
  <2>1. CASE i < period
    <3>1. avg[i] = NaN /\ ~(i >= period)
      BY <1>1, <1>2, <2>1
    <3> QED BY <3>1, NumIs
  <2>2. CASE i >= period
    <3>0. PICK v : avg[i] = Num(v)
      BY <1>6, <2>2
    <3>1. avg[i].value = TRUE
      BY <3>0, NumIs
    <3>2. i >= period /\ ~(i < period)
      BY <1>1, <2>2
    <3> QED BY <3>1, <3>2, Zenon
  <2> QED BY <1>1, <2>1, <2>2
<1>8. DOMAIN avg = 1..m
  BY <1>2
<1> QED BY <1>6, <1>7, <1>8

\* More values change nothing of what an average was before them.
LEMMA SmoothedCausal ==
  ASSUME NEW s, NEW m, Summable(s, m), NEW t, NEW k, Summable(t, k), m <= k,
         \A i \in 1..m : t[i] = s[i], NEW period \in Nat \ {0},
         NEW num \in Int, NEW den \in Nat \ {0}
  PROVE  \A i \in 1..m : Smoothed(t, period, num, den)[i] =
                           Smoothed(s, period, num, den)[i]
<1>1. PICK x, y : x = Smoothed(s, period, num, den)
                  /\ y = Smoothed(t, period, num, den)
  OBVIOUS
<1>2. m \in Nat /\ k \in Nat /\ DOMAIN s = 1..m /\ DOMAIN t = 1..k
  BY DEF Summable
<1>3. \A i \in 1..m :
        /\ i < period => x[i] = NaN
        /\ i = period => x[i] = Num(Total(s, 1, period) \div period)
        /\ i > period => x[i] =
             Num((s[i] * num + x[i - 1].is * (den - num)) \div den)
  <2>1. Smooth(x, s, m, period, num, den)
    BY <1>1, <1>2, SmoothedIs
  <2> QED BY <2>1 DEF Smooth
<1>4. \A i \in 1..k :
        /\ i < period => y[i] = NaN
        /\ i = period => y[i] = Num(Total(t, 1, period) \div period)
        /\ i > period => y[i] =
             Num((t[i] * num + y[i - 1].is * (den - num)) \div den)
  <2>1. Smooth(y, t, k, period, num, den)
    BY <1>1, <1>2, SmoothedIs
  <2> QED BY <2>1 DEF Smooth
<1> DEFINE A == {n \in Nat : n \in 1..m => y[n] = x[n]}
<1>5. 0 \in A
  OBVIOUS
<1>6. ASSUME NEW n \in Nat, n \in A PROVE n + 1 \in A
  <2> SUFFICES ASSUME n + 1 \in 1..m PROVE y[n + 1] = x[n + 1]
    OBVIOUS
  <2>0. n + 1 \in 1..k /\ t[n + 1] = s[n + 1]
    BY <1>2
  <2>1. CASE n + 1 < period
    BY <1>3, <1>4, <2>0, <2>1
  <2>2. CASE n + 1 = period
    <3>1. IsFiniteSet(1..period)
      BY FS_Interval
    <3>2. \A i \in 1..period : t[i] \in Int /\ t[i] = s[i]
      BY <1>2, <2>2 DEF Summable
    <3>3. Total(t, 1, period) = Total(s, 1, period)
      BY <3>1, <3>2, SumSame DEF Total
    <3> QED BY <1>3, <1>4, <2>0, <2>2, <3>3
  <2>3. CASE n + 1 > period
    <3>1. n \in 1..m /\ (n + 1) - 1 = n
      BY <1>2, <2>3
    <3>2. y[n] = x[n]
      BY <1>6, <3>1
    <3> QED BY <1>3, <1>4, <2>0, <2>3, <3>1, <3>2
  <2> QED BY <1>2, <2>1, <2>2, <2>3
<1>7. Nat \subseteq A
  <2> HIDE DEF A
  <2> QED BY <1>5, <1>6, NatInductionSet
<1>8. \A i \in 1..m : y[i] = x[i]
  BY <1>2, <1>7
<1> QED BY <1>1, <1>8

\* Values that are there are whole numbers.
Sparse(s, m) ==
  /\ m \in Nat /\ DOMAIN s = 1..m
  /\ \A i \in 1..m : s[i].value \in BOOLEAN /\ (s[i].value => s[i].is \in Int)

\* The values up to a place are counted one by one.
LEMMA RankStep ==
  ASSUME NEW s, NEW m \in Nat, DOMAIN s = 1..m
  PROVE  /\ HasValue(s) \in SUBSET (1..m) /\ IsFiniteSet(HasValue(s))
         /\ Cardinality(HasValue(s)) \in Nat
         /\ Rank(s, 0) = 0 /\ Rank(s, m) = Cardinality(HasValue(s))
         /\ \A i \in 0..m : Rank(s, i) \in Nat
         /\ \A i \in 1..m : Rank(s, i) =
              Rank(s, i - 1) + (IF i \in HasValue(s) THEN 1 ELSE 0)
<1> DEFINE H == HasValue(s)
           U(i) == {j \in H : j <= i}
<1>1. H \in SUBSET (1..m)
  BY DEF HasValue
<1>2. IsFiniteSet(1..m)
  BY FS_Interval
<1> HIDE DEF H
<1>3. IsFiniteSet(H) /\ Cardinality(H) \in Nat
  BY <1>1, <1>2, FS_Subset, FS_CardinalityType
<1>4. \A i : U(i) \subseteq H /\ IsFiniteSet(U(i)) /\ Cardinality(U(i)) \in Nat
  <2> TAKE i
  <2>1. U(i) \in SUBSET H
    OBVIOUS
  <2> HIDE DEF U
  <2> QED BY <1>3, <2>1, FS_Subset, FS_CardinalityType
<1>5. U(0) = {} /\ U(m) = H
  <2>1. \A j \in H : ~(j <= 0) /\ j <= m
    BY <1>1
  <2> QED BY <2>1
<1>6. ASSUME NEW i \in 1..m
      PROVE  Cardinality(U(i)) =
               Cardinality(U(i - 1)) + (IF i \in H THEN 1 ELSE 0)
  <2>1. CASE i \in H
    <3>0. \A j \in H : j <= i <=> j <= i - 1 \/ j = i
      BY <1>1
    <3>9. i <= i /\ ~(i <= i - 1)
      OBVIOUS
    <3>1. U(i) = U(i - 1) \cup {i} /\ i \notin U(i - 1)
      BY <2>1, <3>0, <3>9, Zenon
    <3> HIDE DEF U
    <3>2. Cardinality(U(i)) = Cardinality(U(i - 1)) + 1
      BY <1>4, <3>1, FS_AddElement
    <3> QED BY <2>1, <3>2
  <2>2. CASE i \notin H
    <3>0. \A j \in H : j <= i <=> j <= i - 1
      BY <1>1, <2>2
    <3>1. U(i) = U(i - 1)
      BY <3>0
    <3> HIDE DEF U
    <3> QED BY <1>4, <2>2, <3>1
  <2> QED BY <2>1, <2>2
<1>7. \A i : Rank(s, i) = Cardinality(U(i))
  BY DEF Rank, H
<1> HIDE DEF U
<1>8. Cardinality({}) = 0
  BY FS_EmptySet
<1>9. /\ Rank(s, 0) = 0 /\ Rank(s, m) = Cardinality(H)
      /\ \A i \in 0..m : Rank(s, i) \in Nat
      /\ \A i \in 1..m :
           Rank(s, i) = Rank(s, i - 1) + (IF i \in H THEN 1 ELSE 0)
  <2>1. Rank(s, 0) = 0 /\ Rank(s, m) = Cardinality(H)
    BY <1>5, <1>7, <1>8
  <2>2. \A i \in 0..m : Rank(s, i) \in Nat
    BY <1>4, <1>7
  <2> QED BY <1>6, <1>7, <2>1, <2>2
<1> QED BY <1>1, <1>3, <1>9 DEF H

\* Each count is that of one value.
LEMMA RankOfOne ==
  ASSUME NEW s, NEW m \in Nat, DOMAIN s = 1..m
  PROVE  /\ \A i \in HasValue(s) : Rank(s, i) \in 1..Cardinality(HasValue(s))
         /\ \A i, j \in HasValue(s) : Rank(s, i) = Rank(s, j) => i = j
         /\ \A n \in 1..Cardinality(HasValue(s)) :
              \E i \in HasValue(s) : Rank(s, i) = n
<1> DEFINE H == HasValue(s)
           c == Cardinality(H)
           r == [i \in 0..m |-> Rank(s, i)]
<1>1. /\ H \in SUBSET (1..m) /\ c \in Nat /\ r[0] = 0 /\ r[m] = c
      /\ \A i \in 0..m : r[i] \in Nat
      /\ \A i \in 1..m : r[i] = r[i - 1] + (IF i \in H THEN 1 ELSE 0)
  BY RankStep
<1>2. \A i \in 1..m : r[i] = Rank(s, i)
  OBVIOUS
<1> HIDE DEF H, c, r
<1>3. \A d \in Nat : \A i \in 0..m : i + d <= m => r[i] <= r[i + d]
  <2> DEFINE A == {d \in Nat : \A i \in 0..m : i + d <= m => r[i] <= r[i + d]}
  <2>1. 0 \in A
    BY <1>1
  <2>2. ASSUME NEW d \in Nat, d \in A PROVE d + 1 \in A
    <3> SUFFICES ASSUME NEW i \in 0..m, i + (d + 1) <= m
                 PROVE  r[i] <= r[i + (d + 1)]
      OBVIOUS
    <3>1. r[i] <= r[i + d] /\ i + d \in 0..m
      BY <2>2
    <3>2. i + (d + 1) \in 1..m /\ (i + (d + 1)) - 1 = i + d
      OBVIOUS
    <3>3. r[i + (d + 1)] = r[i + d] + (IF i + (d + 1) \in H THEN 1 ELSE 0)
      BY <1>1, <3>2
    <3>4. r[i] \in Nat /\ r[i + d] \in Nat
      BY <1>1, <3>1
    <3> QED BY <3>1, <3>3, <3>4
  <2>3. Nat \subseteq A
    <3> HIDE DEF A
    <3> QED BY <2>1, <2>2, NatInductionSet
  <2> QED BY <2>3
<1>4. \A i, j \in 0..m : i <= j => r[i] <= r[j]
  <2> SUFFICES ASSUME NEW i \in 0..m, NEW j \in 0..m, i <= j
               PROVE  r[i] <= r[j]
    OBVIOUS
  <2>1. PICK d \in Nat : i + d = j
    <3>1. j - i \in Nat /\ i + (j - i) = j
      OBVIOUS
    <3> QED BY <3>1
  <2>2. i + d <= m
    BY <2>1
  <2>3. r[i] <= r[i + d]
    BY <1>3, <2>2
  <2> QED BY <2>1, <2>3
<1>5. \A i, j \in H : i < j => r[i] < r[j]
  <2> SUFFICES ASSUME NEW i \in H, NEW j \in H, i < j PROVE r[i] < r[j]
    OBVIOUS
  <2>1. i \in 1..m /\ j \in 1..m /\ j - 1 \in 0..m /\ i <= j - 1
    BY <1>1
  <2>2. r[i] <= r[j - 1] /\ r[j] = r[j - 1] + 1
    BY <1>1, <1>4, <2>1
  <2> QED BY <1>1, <2>1, <2>2
<1>6. \A i \in H : r[i] \in 1..c
  <2> SUFFICES ASSUME NEW i \in H PROVE r[i] \in 1..c
    OBVIOUS
  <2>1. i \in 1..m /\ i - 1 \in 0..m
    BY <1>1
  <2>2. r[i] = r[i - 1] + 1 /\ r[i] <= r[m]
    BY <1>1, <1>4, <2>1
  <2> QED BY <1>1, <2>1, <2>2
<1>7. ASSUME NEW n \in 1..c PROVE \E i \in H : r[i] = n
  <2> DEFINE B == {i \in 1..m : r[i] >= n}
  <2>1. m \in B
    <3>1. m # 0
      BY <1>1
    <3> QED BY <1>1, <3>1
  <2>2. PICK i \in B : \A j \in B : i <= j
    <3>1. B \in SUBSET Nat /\ B # {}
      BY <2>1
    <3> HIDE DEF B
    <3> QED BY <3>1, LeastNatural
  <2>3. i \in 1..m /\ r[i] >= n /\ i - 1 \in 0..m
    OBVIOUS
  <2>4. r[i - 1] < n
    <3>1. CASE i = 1
      BY <1>1, <3>1
    <3>2. CASE i > 1
      <4>1. i - 1 \in 1..m /\ i - 1 \notin B
        BY <2>2, <2>3, <3>2
      <4> QED BY <1>1, <2>3, <4>1
    <3> QED BY <2>3, <3>1, <3>2
  <2>5. i \in H /\ r[i] = n
    BY <1>1, <2>3, <2>4
  <2> QED BY <2>5
<1>8. \A i \in H : i \in 1..m
  BY <1>1
<1> QED
  <2>1. \A i \in HasValue(s) : Rank(s, i) = r[i] /\ i \in Nat
    BY <1>2, <1>8 DEF H
  <2>2. \A i, j \in H : Rank(s, i) = Rank(s, j) => i = j
    <3> SUFFICES ASSUME NEW i \in H, NEW j \in H, i # j,
                        Rank(s, i) = Rank(s, j)
                 PROVE  FALSE
      OBVIOUS
    <3>1. r[i] = r[j] /\ i \in Nat /\ j \in Nat /\ r[i] \in Nat
      BY <1>1, <1>8, <2>1 DEF H
    <3> QED BY <1>5, <3>1
  <2> QED BY <1>6, <1>7, <2>1, <2>2 DEF H, c

\* The values of a series, by their count.
LEMMA ValuesAre ==
  ASSUME NEW s, NEW m, Sparse(s, m)
  PROVE  /\ Summable(Values(s), Cardinality(HasValue(s)))
         /\ HasValue(s) = {i \in 1..m : s[i].value}
         /\ \A i \in HasValue(s) :
              /\ Rank(s, i) \in 1..Cardinality(HasValue(s))
              /\ Values(s)[Rank(s, i)] = s[i].is
         /\ \A n \in 1..Cardinality(HasValue(s)) :
              \E i \in HasValue(s) : Rank(s, i) = n
<1> DEFINE H == HasValue(s)
           c == Cardinality(H)
<1>1. m \in Nat /\ DOMAIN s = 1..m
  BY DEF Sparse
<1>2. H = {i \in 1..m : s[i].value}
  BY <1>1 DEF HasValue
<1>3. /\ c \in Nat
      /\ \A i \in H : Rank(s, i) \in 1..c
      /\ \A i, j \in H : Rank(s, i) = Rank(s, j) => i = j
      /\ \A n \in 1..c : \E i \in H : Rank(s, i) = n
  BY <1>1, RankStep, RankOfOne
<1>4. \A i \in H : s[i].is \in Int
  BY <1>2 DEF Sparse
<1>5. Values(s) = [n \in 1..c |-> s[CHOOSE i \in H : Rank(s, i) = n].is]
  BY DEF Values
<1> HIDE DEF H, c
<1>6. ASSUME NEW i \in H PROVE Values(s)[Rank(s, i)] = s[i].is
  <2>1. Rank(s, i) \in 1..c
    BY <1>3
  <2>2. (CHOOSE j \in H : Rank(s, j) = Rank(s, i)) = i
    BY <1>3
  <2> QED BY <1>5, <2>1, <2>2
<1>7. Summable(Values(s), c)
  <2>1. \A n \in 1..c : Values(s)[n] \in Int
    BY <1>3, <1>4, <1>6
  <2>2. DOMAIN Values(s) = 1..c
    BY <1>5
  <2> QED BY <1>3, <2>1, <2>2 DEF Summable
<1> QED BY <1>2, <1>3, <1>6, <1>7 DEF H, c

\* An average of sparse values has values only where they are.
LEMMA AveragedType ==
  ASSUME NEW s, NEW m, Sparse(s, m), NEW period \in Nat \ {0},
         NEW num \in Int, NEW den \in Nat \ {0},
         NEW avg, avg = Averaged(s, period, num, den)
  PROVE  /\ Sparse(avg, m)
         /\ \A i \in 1..m : avg[i].value => s[i].value
         /\ \A i \in 1..m : ~s[i].value => avg[i] = NaN
<1> DEFINE H == HasValue(s)
           c == Cardinality(H)
<1>1. PICK x : x = Smoothed(Values(s), period, num, den)
  OBVIOUS
<1>2. m \in Nat /\ DOMAIN s = 1..m /\ \A i \in 1..m : s[i].value \in BOOLEAN
  BY DEF Sparse
<1>3. avg = [i \in 1..m |-> IF s[i].value THEN x[Rank(s, i)] ELSE NaN]
  BY <1>1, <1>2 DEF Averaged
<1>4. \A n \in 1..c : x[n].value \in BOOLEAN /\ (x[n].value => x[n].is \in Int)
  <2>1. Summable(Values(s), c)
    BY ValuesAre
  <2> HIDE DEF H, c
  <2>2. /\ c \in Nat
        /\ \A n \in 1..c : /\ x[n].value \in BOOLEAN
                           /\ x[n].value <=> n >= period
                           /\ n >= period => x[n].is \in Int
    BY <1>1, <2>1, SmoothedType DEF Summable
  <2> QED BY <2>2
<1>5. \A i \in 1..m : s[i].value => i \in H /\ Rank(s, i) \in 1..c
  BY ValuesAre
<1> HIDE DEF H, c
<1>6. ASSUME NEW i \in 1..m
      PROVE  /\ avg[i].value \in BOOLEAN /\ (avg[i].value => avg[i].is \in Int)
             /\ avg[i].value => s[i].value
             /\ ~s[i].value => avg[i] = NaN
  <2>1. CASE s[i].value
    <3>1. avg[i] = x[Rank(s, i)]
      BY <1>3, <2>1
    <3> QED BY <1>4, <1>5, <2>1, <3>1
  <2>2. CASE ~s[i].value
    <3>1. avg[i] = NaN
      BY <1>3, <2>2
    <3> QED BY <2>2, <3>1, NumIs
  <2> QED BY <1>2, <2>1, <2>2
<1>7. DOMAIN avg = 1..m
  BY <1>3
<1> QED BY <1>2, <1>6, <1>7 DEF Sparse

\* More values change nothing of what it was before them.
LEMMA AveragedCausal ==
  ASSUME NEW s, NEW m, Sparse(s, m), NEW t, NEW k, Sparse(t, k), m <= k,
         \A i \in 1..m : t[i] = s[i], NEW period \in Nat \ {0},
         NEW num \in Int, NEW den \in Nat \ {0}
  PROVE  \A i \in 1..m : Averaged(t, period, num, den)[i] =
                           Averaged(s, period, num, den)[i]
<1> DEFINE H == HasValue(s)
           c == Cardinality(H)
           I == HasValue(t)
           d == Cardinality(I)
<1>1. /\ m \in Nat /\ DOMAIN s = 1..m /\ k \in Nat /\ DOMAIN t = 1..k
  BY DEF Sparse
<1>2. /\ Summable(Values(s), c) /\ H = {i \in 1..m : s[i].value}
      /\ \A i \in H : Rank(s, i) \in 1..c /\ Values(s)[Rank(s, i)] = s[i].is
      /\ \A n \in 1..c : \E i \in H : Rank(s, i) = n
  BY ValuesAre
<1>3. /\ Summable(Values(t), d) /\ I = {i \in 1..k : t[i].value}
      /\ \A i \in I : Rank(t, i) \in 1..d /\ Values(t)[Rank(t, i)] = t[i].is
  BY ValuesAre
<1>4. \A i \in 1..m : Rank(t, i) = Rank(s, i)
  <2> SUFFICES ASSUME NEW i \in 1..m PROVE Rank(t, i) = Rank(s, i)
    OBVIOUS
  <2> HIDE DEF H, c, I, d
  <2>1. {j \in I : j <= i} = {j \in H : j <= i}
    BY <1>1, <1>2, <1>3
  <2> QED BY <2>1 DEF Rank, H, I
<1>5. c <= d
  <2>1. H \subseteq I
    <3> HIDE DEF H, I
    <3> QED BY <1>1, <1>2, <1>3
  <2>2. IsFiniteSet(I)
    BY <1>1, RankStep
  <2> QED BY <2>1, <2>2, FS_Subset
<1>6. PICK x, y : x = Smoothed(Values(s), period, num, den)
                  /\ y = Smoothed(Values(t), period, num, den)
  OBVIOUS
<1>7. /\ \A i \in 1..m : Averaged(s, period, num, den)[i] =
           IF s[i].value THEN x[Rank(s, i)] ELSE NaN
      /\ \A i \in 1..k : Averaged(t, period, num, den)[i] =
           IF t[i].value THEN y[Rank(t, i)] ELSE NaN
  BY <1>1, <1>6 DEF Averaged
<1> HIDE DEF H, c, I, d
<1>8. \A n \in 1..c : Values(t)[n] = Values(s)[n]
  <2> SUFFICES ASSUME NEW n \in 1..c PROVE Values(t)[n] = Values(s)[n]
    OBVIOUS
  <2>1. PICK i \in H : Rank(s, i) = n
    BY <1>2
  <2>2. i \in 1..m /\ i \in I /\ t[i] = s[i]
    BY <1>1, <1>2, <1>3, <2>1
  <2>3. Rank(t, i) = n
    BY <1>4, <2>1, <2>2
  <2> QED BY <1>2, <1>3, <2>1, <2>2, <2>3
<1>9. \A n \in 1..c : y[n] = x[n]
  BY <1>2, <1>3, <1>5, <1>6, <1>8, SmoothedCausal
<1> SUFFICES ASSUME NEW i \in 1..m
             PROVE  Averaged(t, period, num, den)[i] =
                      Averaged(s, period, num, den)[i]
  OBVIOUS
<1>10. i \in 1..k /\ t[i] = s[i]
  BY <1>1
<1>11. s[i].value => Rank(s, i) \in 1..c
  BY <1>2
<1> QED BY <1>4, <1>7, <1>9, <1>10, <1>11

\* A market, and the same market later on.
Grows(t, s) ==
  /\ s \in Seq(AllBars) /\ t \in Seq(AllBars)
  /\ Len(s) >= 1 /\ Len(s) <= Len(t)
  /\ \A i \in 1..Len(s) : t[i] = s[i]

LEMMA BarIs ==
  ASSUME NEW ks \in Seq(AllBars)
  PROVE  /\ Len(ks) \in Nat
         /\ \A i \in 1..Len(ks) :
              /\ ks[i] \in AllBars
              /\ ks[i].close \in Nat /\ ks[i].wick \in Nat
              /\ High(ks[i]) \in Int /\ Low(ks[i]) \in Int
              /\ High(ks[i]) - Low(ks[i]) = 2 * ks[i].wick
              /\ Volume(ks[i]) \in {0, 1}
<1>1. \A b \in AllBars : b.close \in Closes /\ b.wick \in Wicks
  BY DEF AllBars
<1>2. \A b \in AllBars : b.close \in Nat /\ b.wick \in Nat
  BY <1>1, IndicatorNumbers
<1>3. Len(ks) \in Nat /\ \A i \in 1..Len(ks) : ks[i] \in AllBars
  OBVIOUS
<1> QED BY <1>2, <1>3 DEF High, Low, Volume

\* What the averages are taken of.
Rises(ks) == [i \in DOMAIN Moves(ks) |-> Unit * Greater(Moves(ks)[i], 0)]

Falls(ks) == [i \in DOMAIN Moves(ks) |-> Unit * Greater(-Moves(ks)[i], 0)]

Up(ks, i) == High(ks[i + 1]) - High(ks[i])

Down(ks, i) == Low(ks[i]) - Low(ks[i + 1])

PlusMoves(ks) ==
  [i \in 1..Len(ks) - 1 |->
     IF Up(ks, i) > Down(ks, i) /\ Up(ks, i) > 0 THEN Up(ks, i) * Unit ELSE 0]

MinusMoves(ks) ==
  [i \in 1..Len(ks) - 1 |->
     IF Down(ks, i) > Up(ks, i) /\ Down(ks, i) > 0 THEN Down(ks, i) * Unit
     ELSE 0]

Traded(ks) == [i \in 1..Len(ks) |-> Unit * Volume(ks[i])]

Signed(ks) ==
  [i \in DOMAIN Moves(ks) |->
     IF Moves(ks)[i] > 0 THEN Unit * Volume(ks[i + 1])
     ELSE IF Moves(ks)[i] < 0 THEN -Unit * Volume(ks[i + 1]) ELSE 0]

ClosesOf(ks) == [n \in 1..Len(ks) |-> ks[n].close]

SquaresOf(ks) == [n \in 1..Len(ks) |-> ks[n].close * ks[n].close]

LEMMA MovesAre ==
  ASSUME NEW ks \in Seq(AllBars)
  PROVE  /\ DOMAIN Moves(ks) = 1..(Len(ks) - 1)
         /\ \A i \in 1..(Len(ks) - 1) :
              /\ i \in 1..Len(ks) /\ i + 1 \in 1..Len(ks)
              /\ Moves(ks)[i] = ks[i + 1].close - ks[i].close
              /\ Moves(ks)[i] \in Int
<1>1. Len(ks) \in Nat /\ \A i \in 1..Len(ks) : ks[i].close \in Nat
  BY BarIs
<1>2. Moves(ks) = [i \in 1..(Len(ks) - 1) |-> ks[i + 1].close - ks[i].close]
  BY DEF Moves
<1>3. \A i \in 1..(Len(ks) - 1) : i \in 1..Len(ks) /\ i + 1 \in 1..Len(ks)
  BY <1>1
<1> QED BY <1>1, <1>2, <1>3

LEMMA DirectionsAreInt ==
  ASSUME NEW ks \in Seq(AllBars), NEW i \in 1..(Len(ks) - 1)
  PROVE  Up(ks, i) \in Int /\ Down(ks, i) \in Int
BY MovesAre, BarIs DEF Up, Down

LEMMA InputsAreInt ==
  ASSUME NEW ks \in Seq(AllBars), NEW n, n = Len(ks), n >= 1
  PROVE  /\ Summable(Ticks(ks), n) /\ Summable(TrueRange(ks), n)
         /\ Summable(Traded(ks), n)
         /\ Summable(ClosesOf(ks), n) /\ Summable(SquaresOf(ks), n)
         /\ Summable(Rises(ks), n - 1) /\ Summable(Falls(ks), n - 1)
         /\ Summable(PlusMoves(ks), n - 1) /\ Summable(MinusMoves(ks), n - 1)
         /\ Summable(Signed(ks), n - 1) /\ Summable(OnBalance(ks), n)
<1>1. /\ n \in Nat /\ n - 1 \in Nat
      /\ \A i \in 1..n : /\ ks[i].close \in Nat /\ ks[i].wick \in Nat
                         /\ High(ks[i]) \in Int /\ Low(ks[i]) \in Int
                         /\ Volume(ks[i]) \in Int
  <2>1. n \in Nat /\ n - 1 \in Nat
    OBVIOUS
  <2>2. \A i \in 1..n : /\ ks[i].close \in Nat /\ ks[i].wick \in Nat
                        /\ High(ks[i]) \in Int /\ Low(ks[i]) \in Int
                        /\ Volume(ks[i]) \in {0, 1}
    BY BarIs
  <2> QED BY <2>1, <2>2
<1>2. Unit \in Nat
  BY IndicatorNumbers
<1>3. \A i \in 1..(n - 1) : i \in 1..n /\ i + 1 \in 1..n
  BY <1>1
<1>4. /\ DOMAIN Moves(ks) = 1..(n - 1)
      /\ \A i \in 1..(n - 1) : Moves(ks)[i] \in Int
  BY MovesAre
<1>5. Summable(Ticks(ks), n)
  BY <1>1, <1>2 DEF Summable, Ticks
<1>6. Summable(TrueRange(ks), n)
  <2>1. DOMAIN TrueRange(ks) = 1..n
    BY DEF TrueRange
  <2>2. ASSUME NEW i \in 1..n PROVE TrueRange(ks)[i] \in Int
    <3>1. CASE i = 1
      <4>1. TrueRange(ks)[i] = Unit * (High(ks[i]) - Low(ks[i]))
        BY <3>1 DEF TrueRange
      <4> QED BY <1>1, <1>2, <4>1
    <3>2. CASE i # 1
      <4>1. PICK p : p = ks[i - 1].close
        OBVIOUS
      <4>2. p \in Int
        <5>1. i - 1 \in 1..n
          BY <1>1, <3>2
        <5> QED BY <1>1, <4>1, <5>1
      <4>3. TrueRange(ks)[i] =
              Unit * Greater(High(ks[i]) - Low(ks[i]),
                       Greater(Abs(High(ks[i]) - p), Abs(Low(ks[i]) - p)))
        BY <3>2, <4>1 DEF TrueRange
      <4>4. Greater(High(ks[i]) - Low(ks[i]),
                    Greater(Abs(High(ks[i]) - p), Abs(Low(ks[i]) - p))) \in Int
        BY <1>1, <4>2 DEF Greater, Abs
      <4> QED BY <1>2, <4>3, <4>4
    <3> QED BY <3>1, <3>2
  <2> QED BY <1>1, <2>1, <2>2 DEF Summable
<1>7. Summable(Traded(ks), n)
  BY <1>1, <1>2 DEF Summable, Traded
<1>8. Summable(ClosesOf(ks), n) /\ Summable(SquaresOf(ks), n)
  BY <1>1 DEF Summable, ClosesOf, SquaresOf
<1>9. Summable(Rises(ks), n - 1) /\ Summable(Falls(ks), n - 1)
  <2>1. DOMAIN Rises(ks) = 1..(n - 1) /\ DOMAIN Falls(ks) = 1..(n - 1)
    BY <1>4 DEF Rises, Falls
  <2>2. ASSUME NEW i \in 1..(n - 1)
        PROVE  Rises(ks)[i] \in Int /\ Falls(ks)[i] \in Int
    <3>1. PICK x \in Int, y \in Int :
            x = Greater(Moves(ks)[i], 0) /\ y = Greater(-Moves(ks)[i], 0)
      BY <1>4 DEF Greater
    <3>2. Unit * x \in Int /\ Unit * y \in Int
      BY <1>2
    <3>3. Rises(ks)[i] = Unit * x /\ Falls(ks)[i] = Unit * y
      BY <1>4, <3>1 DEF Rises, Falls
    <3> QED BY <3>2, <3>3
  <2> QED BY <1>1, <2>1, <2>2 DEF Summable
<1>10. \A i \in 1..(n - 1) : Up(ks, i) \in Int /\ Down(ks, i) \in Int
  BY DirectionsAreInt
<1>11. Summable(PlusMoves(ks), n - 1) /\ Summable(MinusMoves(ks), n - 1)
  <2>1. /\ DOMAIN PlusMoves(ks) = 1..(n - 1)
        /\ DOMAIN MinusMoves(ks) = 1..(n - 1)
    BY DEF PlusMoves, MinusMoves
  <2>2. ASSUME NEW i \in 1..(n - 1)
        PROVE  PlusMoves(ks)[i] \in Int /\ MinusMoves(ks)[i] \in Int
    <3>1. PICK x \in Int, y \in Int : x = Up(ks, i) /\ y = Down(ks, i)
      BY <1>10
    <3>2. x * Unit \in Int /\ y * Unit \in Int
      BY <1>2
    <3>3. /\ PlusMoves(ks)[i] = IF x > y /\ x > 0 THEN x * Unit ELSE 0
          /\ MinusMoves(ks)[i] = IF y > x /\ y > 0 THEN y * Unit ELSE 0
      BY <3>1 DEF PlusMoves, MinusMoves
    <3> QED BY <3>2, <3>3
  <2> QED BY <1>1, <2>1, <2>2 DEF Summable
<1>12. Summable(Signed(ks), n - 1)
  <2>1. DOMAIN Signed(ks) = 1..(n - 1)
    BY <1>4 DEF Signed
  <2>2. ASSUME NEW i \in 1..(n - 1) PROVE Signed(ks)[i] \in Int
    <3>1. PICK v \in Int : v = Volume(ks[i + 1])
      BY <1>1, <1>3
    <3>2. Signed(ks)[i] = IF Moves(ks)[i] > 0 THEN Unit * v
                          ELSE IF Moves(ks)[i] < 0 THEN -Unit * v ELSE 0
      BY <1>4, <3>1 DEF Signed
    <3>3. Unit * v \in Int /\ -Unit * v \in Int
      BY <1>2
    <3> QED BY <3>2, <3>3
  <2> QED BY <1>1, <2>1, <2>2 DEF Summable
<1>13. Summable(OnBalance(ks), n)
  <2>1. OnBalance(ks) = [i \in 1..n |-> Total(Signed(ks), 1, i - 1)]
    BY DEF OnBalance, Signed
  <2>2. ASSUME NEW i \in 1..n PROVE Total(Signed(ks), 1, i - 1) \in Int
    <3>1. i - 1 \in Int /\ i - 1 <= n - 1
      BY <1>1
    <3> QED BY <1>12, <3>1, TotalIs
  <2> QED BY <1>1, <2>1, <2>2 DEF Summable
<1> QED
  BY <1>5, <1>6, <1>7, <1>8, <1>9, <1>11, <1>12, <1>13

LEMMA TotalSame ==
  ASSUME NEW s, NEW m, Summable(s, m), NEW t, \A i \in 1..m : t[i] = s[i],
         NEW a \in Nat \ {0}, NEW b \in Int, b <= m
  PROVE  Total(t, a, b) = Total(s, a, b)
<1>1. IsFiniteSet(a..b)
  BY FS_Interval
<1>2. \A i \in a..b : t[i] \in Int /\ t[i] = s[i]
  BY DEF Summable
<1> QED BY <1>1, <1>2, SumSame DEF Total

LEMMA InputsGrow ==
  ASSUME NEW t, NEW s, Grows(t, s), NEW n, n = Len(s)
  PROVE  /\ \A i \in 1..n : /\ Ticks(t)[i] = Ticks(s)[i]
                            /\ TrueRange(t)[i] = TrueRange(s)[i]
                            /\ Traded(t)[i] = Traded(s)[i]
                            /\ ClosesOf(t)[i] = ClosesOf(s)[i]
                            /\ SquaresOf(t)[i] = SquaresOf(s)[i]
                            /\ OnBalance(t)[i] = OnBalance(s)[i]
         /\ \A i \in 1..(n - 1) : /\ Rises(t)[i] = Rises(s)[i]
                                  /\ Falls(t)[i] = Falls(s)[i]
                                  /\ PlusMoves(t)[i] = PlusMoves(s)[i]
                                  /\ MinusMoves(t)[i] = MinusMoves(s)[i]
                                  /\ Signed(t)[i] = Signed(s)[i]
<1>1. /\ s \in Seq(AllBars) /\ t \in Seq(AllBars)
      /\ n \in Nat /\ Len(t) \in Nat /\ n >= 1 /\ n <= Len(t)
      /\ \A i \in 1..n : i \in 1..Len(t) /\ t[i] = s[i]
  BY DEF Grows
<1>2. \A i \in 1..(n - 1) : /\ i \in 1..n /\ i + 1 \in 1..n
                            /\ i \in 1..(Len(t) - 1)
  BY <1>1
<1>3. /\ DOMAIN Moves(s) = 1..(n - 1) /\ DOMAIN Moves(t) = 1..(Len(t) - 1)
      /\ \A i \in 1..(n - 1) : Moves(t)[i] = Moves(s)[i]
  BY <1>1, <1>2, MovesAre
<1>4. ASSUME NEW i \in 1..n
      PROVE  /\ Ticks(t)[i] = Ticks(s)[i] /\ Traded(t)[i] = Traded(s)[i]
             /\ ClosesOf(t)[i] = ClosesOf(s)[i]
             /\ SquaresOf(t)[i] = SquaresOf(s)[i]
  <2>1. i \in 1..Len(t) /\ i \in 1..Len(s) /\ t[i] = s[i]
    BY <1>1
  <2> QED BY <2>1 DEF Ticks, Traded, ClosesOf, SquaresOf
<1>5. ASSUME NEW i \in 1..n PROVE TrueRange(t)[i] = TrueRange(s)[i]
  <2>1. i \in 1..Len(t) /\ i \in 1..Len(s) /\ t[i] = s[i]
    BY <1>1
  <2>2. i # 1 => t[i - 1] = s[i - 1]
    <3>1. i # 1 => i - 1 \in 1..n
      BY <1>1
    <3> QED BY <1>1, <3>1
  <2>3. CASE i = 1
    BY <2>1, <2>3 DEF TrueRange
  <2>4. CASE i # 1
    BY <2>1, <2>2, <2>4 DEF TrueRange
  <2> QED BY <2>3, <2>4
<1>6. ASSUME NEW i \in 1..(n - 1)
      PROVE  /\ Rises(t)[i] = Rises(s)[i] /\ Falls(t)[i] = Falls(s)[i]
             /\ PlusMoves(t)[i] = PlusMoves(s)[i]
             /\ MinusMoves(t)[i] = MinusMoves(s)[i]
             /\ Signed(t)[i] = Signed(s)[i]
  <2>1. t[i] = s[i] /\ t[i + 1] = s[i + 1] /\ Moves(t)[i] = Moves(s)[i]
    BY <1>1, <1>2, <1>3
  <2>2. i \in DOMAIN Moves(s) /\ i \in DOMAIN Moves(t)
        /\ i \in 1..Len(s) - 1 /\ i \in 1..Len(t) - 1
    BY <1>2, <1>3
  <2>3. Up(t, i) = Up(s, i) /\ Down(t, i) = Down(s, i)
    BY <2>1 DEF Up, Down
  <2>4. Rises(t)[i] = Rises(s)[i] /\ Falls(t)[i] = Falls(s)[i]
    BY <2>1, <2>2 DEF Rises, Falls
  <2>5. /\ PlusMoves(t)[i] = PlusMoves(s)[i]
        /\ MinusMoves(t)[i] = MinusMoves(s)[i]
    BY <2>2, <2>3 DEF PlusMoves, MinusMoves
  <2>6. Signed(t)[i] = Signed(s)[i]
    BY <2>1, <2>2 DEF Signed
  <2> QED BY <2>4, <2>5, <2>6
<1>7. ASSUME NEW i \in 1..n PROVE OnBalance(t)[i] = OnBalance(s)[i]
  <2>1. /\ OnBalance(s) = [j \in 1..n |-> Total(Signed(s), 1, j - 1)]
        /\ OnBalance(t) = [j \in 1..Len(t) |-> Total(Signed(t), 1, j - 1)]
    BY DEF OnBalance, Signed
  <2>2. Summable(Signed(s), n - 1) /\ i - 1 \in Int /\ i - 1 <= n - 1
    BY <1>1, InputsAreInt
  <2>3. Total(Signed(t), 1, i - 1) = Total(Signed(s), 1, i - 1)
    BY <1>6, <2>2, TotalSame
  <2> QED BY <1>1, <2>1, <2>3
<1> QED BY <1>4, <1>5, <1>6, <1>7

\* The averages of a market do not change as it grows.
LEMMA RmaCausal ==
  ASSUME NEW s, NEW m, Summable(s, m), NEW t, NEW k, Summable(t, k), m <= k,
         \A i \in 1..m : t[i] = s[i], NEW period \in Nat \ {0}
  PROVE  \A i \in 1..m : Rma(t, period)[i] = Rma(s, period)[i]
BY SmoothedCausal, 1 \in Int DEF Rma

LEMMA EmaCausal ==
  ASSUME NEW s, NEW m, Summable(s, m), NEW t, NEW k, Summable(t, k), m <= k,
         \A i \in 1..m : t[i] = s[i], NEW period \in Nat \ {0}
  PROVE  \A i \in 1..m : Ema(t, period)[i] = Ema(s, period)[i]
<1>1. 2 \in Int /\ period + 1 \in Nat \ {0}
  OBVIOUS
<1> QED BY <1>1, SmoothedCausal DEF Ema

LEMMA RmaType ==
  ASSUME NEW s, NEW m, Summable(s, m), NEW period \in Nat \ {0}
  PROVE  \A i \in 1..m : /\ Rma(s, period)[i].value \in BOOLEAN
                         /\ Rma(s, period)[i].value <=> i >= period
                         /\ i >= period => Rma(s, period)[i].is \in Int
BY SmoothedType, 1 \in Int DEF Rma

LEMMA EmaType ==
  ASSUME NEW s, NEW m, Summable(s, m), NEW period \in Nat \ {0}
  PROVE  \A i \in 1..m : /\ Ema(s, period)[i].value \in BOOLEAN
                         /\ Ema(s, period)[i].value <=> i >= period
                         /\ i >= period => Ema(s, period)[i].is \in Int
<1>1. 2 \in Int /\ period + 1 \in Nat \ {0}
  OBVIOUS
<1> QED BY <1>1, SmoothedType DEF Ema

LEMMA SmaCausal ==
  ASSUME NEW s, NEW m, Summable(s, m), NEW t, NEW k, Summable(t, k), m <= k,
         \A i \in 1..m : t[i] = s[i], NEW period \in Nat \ {0}
  PROVE  \A i \in 1..m : Sma(t, period)[i] = Sma(s, period)[i]
<1>1. m \in Nat /\ k \in Nat /\ DOMAIN s = 1..m /\ DOMAIN t = 1..k
  BY DEF Summable
<1> SUFFICES ASSUME NEW i \in 1..m PROVE Sma(t, period)[i] = Sma(s, period)[i]
  OBVIOUS
<1>2. /\ Sma(s, period)[i] =
           IF i < period THEN NaN
           ELSE Num(Total(s, i - period + 1, i) \div period)
      /\ Sma(t, period)[i] =
           IF i < period THEN NaN
           ELSE Num(Total(t, i - period + 1, i) \div period)
  BY <1>1 DEF Sma
<1>3. CASE i < period
  BY <1>2, <1>3
<1>4. CASE ~(i < period)
  <2>1. i - period + 1 \in Nat \ {0} /\ i \in Int /\ i <= m
    BY <1>1, <1>4
  <2>2. Total(t, i - period + 1, i) = Total(s, i - period + 1, i)
    BY <2>1, TotalSame
  <2> QED BY <1>2, <1>4, <2>2
<1> QED BY <1>3, <1>4

\* A grown market and its inputs, in one place.
LEMMA GrowsIs ==
  ASSUME NEW t, NEW s, Grows(t, s), NEW n, n = Len(s), NEW k, k = Len(t)
  PROVE  /\ n \in Nat /\ k \in Nat /\ n >= 1 /\ n <= k /\ k >= 1
         /\ n - 1 \in Nat /\ n - 1 <= k - 1
         /\ s \in Seq(AllBars) /\ t \in Seq(AllBars)
         /\ \A i \in 1..n : i \in 1..k /\ t[i] = s[i]
BY DEF Grows

-----------------------------------------------------------------------------

Share(g, l) ==
  Num(IF l = 0 THEN [up |-> 1, of |-> 1] ELSE [up |-> g, of |-> g + l])

LEMMA RsiIs ==
  ASSUME NEW ks, NEW i \in 1..Len(ks)
  PROVE  Rsi(ks, RsiPeriod)[i] =
           IF i <= RsiPeriod THEN NaN
           ELSE Share(Rma(Rises(ks), RsiPeriod)[i - 1].is,
                      Rma(Falls(ks), RsiPeriod)[i - 1].is)
BY DEF Rsi, Rises, Falls, Share

LEMMA RsiGrows ==
  ASSUME NEW t, NEW s, Grows(t, s), NEW i \in 1..Len(s)
  PROVE  Rsi(t, RsiPeriod)[i] = Rsi(s, RsiPeriod)[i]
<1>1. PICK n, k : n = Len(s) /\ k = Len(t)
  OBVIOUS
<1>2. /\ n \in Nat /\ k \in Nat /\ n >= 1 /\ n <= k /\ k >= 1
      /\ n - 1 \in Nat /\ n - 1 <= k - 1
      /\ s \in Seq(AllBars) /\ t \in Seq(AllBars)
      /\ \A j \in 1..n : j \in 1..k /\ t[j] = s[j]
  BY <1>1, GrowsIs
<1>3. CASE i <= RsiPeriod
  BY <1>1, <1>2, <1>3, RsiIs
<1>4. CASE ~(i <= RsiPeriod)
  <2>1. RsiPeriod \in Nat \ {0}
    BY IndicatorNumbers
  <2>2. i - 1 \in 1..(n - 1)
    BY <1>1, <1>2, <1>4, <2>1
  <2>3. /\ Summable(Rises(s), n - 1) /\ Summable(Falls(s), n - 1)
        /\ Summable(Rises(t), k - 1) /\ Summable(Falls(t), k - 1)
    BY <1>1, <1>2, InputsAreInt
  <2>4. \A j \in 1..(n - 1) : Rises(t)[j] = Rises(s)[j]
                              /\ Falls(t)[j] = Falls(s)[j]
    BY <1>1, InputsGrow
  <2>5. Rma(Rises(t), RsiPeriod)[i - 1] =
          Rma(Rises(s), RsiPeriod)[i - 1]
    <3>1. \A j \in 1..(n - 1) : Rises(t)[j] = Rises(s)[j]
      BY <2>4
    <3>2. \A j \in 1..(n - 1) : Rma(Rises(t), RsiPeriod)[j] =
                                Rma(Rises(s), RsiPeriod)[j]
      BY <1>2, <2>1, <2>3, <3>1, RmaCausal
    <3> QED BY <2>2, <3>2
  <2>6. Rma(Falls(t), RsiPeriod)[i - 1] =
          Rma(Falls(s), RsiPeriod)[i - 1]
    <3>1. \A j \in 1..(n - 1) : Falls(t)[j] = Falls(s)[j]
      BY <2>4
    <3>2. \A j \in 1..(n - 1) : Rma(Falls(t), RsiPeriod)[j] =
                                Rma(Falls(s), RsiPeriod)[j]
      BY <1>2, <2>1, <2>3, <3>1, RmaCausal
    <3> QED BY <2>2, <3>2
  <2> QED BY <1>1, <1>2, <1>4, <2>5, <2>6, RsiIs
<1> QED BY <1>3, <1>4

-----------------------------------------------------------------------------

MacdLine(ks) ==
  [i \in 1..Len(ks) |->
     IF Ema(Ticks(ks), Fast)[i].value /\ Ema(Ticks(ks), Slow)[i].value
       THEN Num(Ema(Ticks(ks), Fast)[i].is - Ema(Ticks(ks), Slow)[i].is)
       ELSE NaN]

SignalLine(ks) == Averaged(MacdLine(ks), SignalPeriod, 2, SignalPeriod + 1)

LEMMA MacdIs ==
  ASSUME NEW ks, NEW i \in 1..Len(ks)
  PROVE  MacdHistogram(ks)[i] =
           IF SignalLine(ks)[i].value
             THEN Num(MacdLine(ks)[i].is - SignalLine(ks)[i].is) ELSE NaN
BY DEF MacdHistogram, MacdLine, SignalLine

LEMMA MacdLineIs ==
  ASSUME NEW ks \in Seq(AllBars), Len(ks) >= 1
  PROVE  Sparse(MacdLine(ks), Len(ks))
<1>1. Len(ks) \in Nat /\ Summable(Ticks(ks), Len(ks))
  BY InputsAreInt
<1>2. Fast \in Nat \ {0} /\ Slow \in Nat \ {0}
  BY IndicatorNumbers
<1>3. DOMAIN MacdLine(ks) = 1..Len(ks)
  BY DEF MacdLine
<1>4. ASSUME NEW i \in 1..Len(ks)
      PROVE  /\ MacdLine(ks)[i].value \in BOOLEAN
             /\ MacdLine(ks)[i].value => MacdLine(ks)[i].is \in Int
  <2>1. /\ Ema(Ticks(ks), Fast)[i].value <=> i >= Fast
        /\ i >= Fast => Ema(Ticks(ks), Fast)[i].is \in Int
    BY <1>1, <1>2, EmaType
  <2>2. /\ Ema(Ticks(ks), Slow)[i].value <=> i >= Slow
        /\ i >= Slow => Ema(Ticks(ks), Slow)[i].is \in Int
    BY <1>1, <1>2, EmaType
  <2>3. CASE i >= Fast /\ i >= Slow
    <3>1. PICK x \in Int : x = Ema(Ticks(ks), Fast)[i].is
                               - Ema(Ticks(ks), Slow)[i].is
      BY <2>1, <2>2, <2>3
    <3>2. MacdLine(ks)[i] = Num(x)
      BY <2>1, <2>2, <2>3, <3>1 DEF MacdLine
    <3> QED BY <3>2, NumIs
  <2>4. CASE ~(i >= Fast /\ i >= Slow)
    <3>1. MacdLine(ks)[i] = NaN
      BY <2>1, <2>2, <2>4 DEF MacdLine
    <3> QED BY <3>1, NumIs
  <2> QED BY <2>3, <2>4
<1> QED BY <1>1, <1>3, <1>4 DEF Sparse

LEMMA MacdGrows ==
  ASSUME NEW t, NEW s, Grows(t, s), NEW i \in 1..Len(s)
  PROVE  MacdHistogram(t)[i] = MacdHistogram(s)[i]
<1>1. PICK n, k : n = Len(s) /\ k = Len(t)
  OBVIOUS
<1>2. /\ n \in Nat /\ k \in Nat /\ n >= 1 /\ n <= k /\ k >= 1
      /\ n - 1 \in Nat /\ n - 1 <= k - 1
      /\ s \in Seq(AllBars) /\ t \in Seq(AllBars)
      /\ \A j \in 1..n : j \in 1..k /\ t[j] = s[j]
  BY <1>1, GrowsIs
<1>3. /\ Fast \in Nat \ {0} /\ Slow \in Nat \ {0}
      /\ SignalPeriod \in Nat \ {0} /\ SignalPeriod + 1 \in Nat \ {0}
      /\ 2 \in Int
  BY IndicatorNumbers
<1>4. /\ Summable(Ticks(s), n) /\ Summable(Ticks(t), k)
      /\ \A j \in 1..n : Ticks(t)[j] = Ticks(s)[j]
  BY <1>1, <1>2, InputsAreInt, InputsGrow
<1>5. \A j \in 1..n : Ema(Ticks(t), Fast)[j] = Ema(Ticks(s), Fast)[j]
  BY <1>2, <1>3, <1>4, EmaCausal
<1>6. \A j \in 1..n : Ema(Ticks(t), Slow)[j] = Ema(Ticks(s), Slow)[j]
  BY <1>2, <1>3, <1>4, EmaCausal
<1>7. \A j \in 1..n : MacdLine(t)[j] = MacdLine(s)[j]
  BY <1>1, <1>2, <1>5, <1>6 DEF MacdLine
<1>8. Sparse(MacdLine(s), n) /\ Sparse(MacdLine(t), k)
  BY <1>1, <1>2, MacdLineIs
<1>9. SignalLine(t)[i] = SignalLine(s)[i]
  BY <1>1, <1>2, <1>3, <1>7, <1>8, AveragedCausal DEF SignalLine
<1> QED BY <1>1, <1>2, <1>7, <1>9, MacdIs

-----------------------------------------------------------------------------

LEMMA AtrGrows ==
  ASSUME NEW t, NEW s, Grows(t, s), NEW i \in 1..Len(s),
         NEW period \in Nat \ {0}
  PROVE  Atr(t, period)[i] = Atr(s, period)[i]
<1>1. PICK n, k : n = Len(s) /\ k = Len(t)
  OBVIOUS
<1>2. /\ n \in Nat /\ k \in Nat /\ n >= 1 /\ n <= k /\ k >= 1
      /\ s \in Seq(AllBars) /\ t \in Seq(AllBars)
  BY <1>1, GrowsIs
<1>3. /\ Summable(TrueRange(s), n) /\ Summable(TrueRange(t), k)
      /\ \A j \in 1..n : TrueRange(t)[j] = TrueRange(s)[j]
  BY <1>1, <1>2, InputsAreInt, InputsGrow
<1> QED BY <1>1, <1>2, <1>3, RmaCausal DEF Atr

Heading(p, q, a) ==
  IF p.value /\ a.is > 0
    THEN Num([plus |-> p.is, minus |-> q.is, atr |-> a.is]) ELSE NaN

LEMMA DirectionalIs ==
  ASSUME NEW ks
  PROVE  /\ DOMAIN Directional(ks) = 1..Len(ks)
         /\ \A i \in 1..Len(ks) : Directional(ks)[i] =
              IF i > 1 THEN Heading(Rma(PlusMoves(ks), AdxPeriod)[i - 1],
                                    Rma(MinusMoves(ks), AdxPeriod)[i - 1],
                                    Atr(ks, AdxPeriod)[i])
              ELSE NaN
BY DEF Directional, PlusMoves, MinusMoves, Heading, Atr, Up, Down

LEMMA DirectionalGrows ==
  ASSUME NEW t, NEW s, Grows(t, s), NEW i \in 1..Len(s)
  PROVE  Directional(t)[i] = Directional(s)[i]
<1>1. PICK n, k : n = Len(s) /\ k = Len(t)
  OBVIOUS
<1>2. /\ n \in Nat /\ k \in Nat /\ n >= 1 /\ n <= k /\ k >= 1
      /\ n - 1 \in Nat /\ n - 1 <= k - 1
      /\ s \in Seq(AllBars) /\ t \in Seq(AllBars)
      /\ \A j \in 1..n : j \in 1..k /\ t[j] = s[j]
  BY <1>1, GrowsIs
<1>3. CASE ~(i > 1)
  BY <1>1, <1>2, <1>3, DirectionalIs
<1>4. CASE i > 1
  <2>1. AdxPeriod \in Nat \ {0}
    BY IndicatorNumbers
  <2>2. i - 1 \in 1..(n - 1)
    BY <1>1, <1>2, <1>4
  <2>3. /\ Summable(PlusMoves(s), n - 1) /\ Summable(MinusMoves(s), n - 1)
        /\ Summable(PlusMoves(t), k - 1) /\ Summable(MinusMoves(t), k - 1)
    BY <1>1, <1>2, InputsAreInt
  <2>4. \A j \in 1..(n - 1) : PlusMoves(t)[j] = PlusMoves(s)[j]
                              /\ MinusMoves(t)[j] = MinusMoves(s)[j]
    BY <1>1, InputsGrow
  <2>5. Rma(PlusMoves(t), AdxPeriod)[i - 1] =
          Rma(PlusMoves(s), AdxPeriod)[i - 1]
    <3>1. \A j \in 1..(n - 1) : PlusMoves(t)[j] = PlusMoves(s)[j]
      BY <2>4
    <3>2. \A j \in 1..(n - 1) : Rma(PlusMoves(t), AdxPeriod)[j] =
                                Rma(PlusMoves(s), AdxPeriod)[j]
      BY <1>2, <2>1, <2>3, <3>1, RmaCausal
    <3> QED BY <2>2, <3>2
  <2>6. Rma(MinusMoves(t), AdxPeriod)[i - 1] =
          Rma(MinusMoves(s), AdxPeriod)[i - 1]
    <3>1. \A j \in 1..(n - 1) : MinusMoves(t)[j] = MinusMoves(s)[j]
      BY <2>4
    <3>2. \A j \in 1..(n - 1) : Rma(MinusMoves(t), AdxPeriod)[j] =
                                Rma(MinusMoves(s), AdxPeriod)[j]
      BY <1>2, <2>1, <2>3, <3>1, RmaCausal
    <3> QED BY <2>2, <3>2
  <2>7. Atr(t, AdxPeriod)[i] = Atr(s, AdxPeriod)[i]
    BY <2>1, AtrGrows
  <2> QED BY <1>1, <1>2, <1>4, <2>5, <2>6, <2>7, DirectionalIs
<1> QED BY <1>3, <1>4

Indices(ks) == [i \in 1..Len(ks) |-> Index(Directional(ks)[i])]

LEMMA AdxIs ==
  ASSUME NEW ks
  PROVE  Adx(ks) = Averaged(Indices(ks), AdxPeriod, 1, AdxPeriod)
BY DEF Adx, Indices

\* What directions are made of.
LEMMA DirectionalType ==
  ASSUME NEW ks \in Seq(AllBars), NEW i \in 1..Len(ks)
  PROVE  \/ Directional(ks)[i] = NaN
         \/ /\ i > 1 /\ i >= AdxPeriod /\ Atr(ks, AdxPeriod)[i].is > 0
            /\ \E x, y \in Int : \E a : Directional(ks)[i] =
                 Num([plus |-> x, minus |-> y, atr |-> a])
<1>1. PICK n : n = Len(ks)
  OBVIOUS
<1>2. n \in Nat /\ n >= 1 /\ i \in 1..n /\ n - 1 \in Nat
  BY <1>1
<1>3. CASE ~(i > 1)
  BY <1>3, DirectionalIs
<1>4. CASE i > 1
  <2>1. i - 1 \in 1..(n - 1) /\ AdxPeriod \in Nat \ {0}
    BY <1>2, <1>4, IndicatorNumbers
  <2>2. PICK p, q, a : /\ p = Rma(PlusMoves(ks), AdxPeriod)[i - 1]
                       /\ q = Rma(MinusMoves(ks), AdxPeriod)[i - 1]
                       /\ a = Atr(ks, AdxPeriod)[i]
    OBVIOUS
  <2>3. Directional(ks)[i] = Heading(p, q, a)
    BY <1>4, <2>2, DirectionalIs
  <2>4. Summable(PlusMoves(ks), n - 1) /\ Summable(MinusMoves(ks), n - 1)
    BY <1>1, <1>2, InputsAreInt
  <2>5. /\ p.value <=> i - 1 >= AdxPeriod
        /\ i - 1 >= AdxPeriod => p.is \in Int
    BY <2>1, <2>2, <2>4, RmaType
  <2>6. i - 1 >= AdxPeriod => q.is \in Int
    BY <2>1, <2>2, <2>4, RmaType
  <2>7. CASE p.value /\ a.is > 0
    <3>0. i - 1 >= AdxPeriod /\ i >= AdxPeriod
      BY <1>2, <2>1, <2>5, <2>7
    <3>1. p.is \in Int /\ q.is \in Int
      BY <2>5, <2>6, <3>0
    <3>2. Directional(ks)[i] =
            Num([plus |-> p.is, minus |-> q.is, atr |-> a.is])
      BY <2>3, <2>7 DEF Heading
    <3> QED BY <1>4, <2>2, <2>7, <3>0, <3>1, <3>2
  <2>8. CASE ~(p.value /\ a.is > 0)
    BY <2>3, <2>8 DEF Heading
  <2> QED BY <2>7, <2>8
<1> QED BY <1>3, <1>4

\* A bar has an index only where it has a direction.
LEMMA IndexType ==
  ASSUME NEW ks \in Seq(AllBars), NEW i \in 1..Len(ks)
  PROVE  /\ Indices(ks)[i].value \in BOOLEAN
         /\ Indices(ks)[i].value => /\ Indices(ks)[i].is \in Int
                                    /\ Directional(ks)[i].value
<1>1. Indices(ks)[i] = Index(Directional(ks)[i])
  BY DEF Indices
<1>2. CASE Directional(ks)[i] = NaN
  <2>1. Indices(ks)[i] = NaN
    BY <1>1, <1>2, NumIs DEF Index
  <2> QED BY <2>1, NumIs
<1>3. ASSUME NEW x \in Int, NEW y \in Int, NEW a,
             Directional(ks)[i] = Num([plus |-> x, minus |-> y, atr |-> a])
      PROVE  /\ Indices(ks)[i].value \in BOOLEAN
             /\ Indices(ks)[i].value => /\ Indices(ks)[i].is \in Int
                                        /\ Directional(ks)[i].value
  <2>1. /\ Directional(ks)[i].value /\ Directional(ks)[i].is.plus = x
        /\ Directional(ks)[i].is.minus = y
    BY <1>3, NumIs
  <2>2. Indices(ks)[i] =
          IF x + y > 0 THEN Num((100 * Unit * Abs(x - y)) \div (x + y))
          ELSE NaN
    BY <1>1, <2>1 DEF Index
  <2>3. CASE x + y > 0
    <3>1. PICK z \in Int : z = 100 * Unit * Abs(x - y)
      <4>1. Unit \in Nat /\ Abs(x - y) \in Int
        BY IndicatorNumbers DEF Abs
      <4> QED BY <4>1
    <3>2. PICK d \in Nat \ {0} : d = x + y
      BY <2>3
    <3>3. z \div d \in Int
      OBVIOUS
    <3>4. Indices(ks)[i] = Num(z \div d)
      BY <2>2, <2>3, <3>1, <3>2
    <3> QED BY <2>1, <3>3, <3>4, NumIs
  <2>4. CASE ~(x + y > 0)
    <3>1. Indices(ks)[i] = NaN
      BY <2>2, <2>4
    <3> QED BY <3>1, NumIs
  <2> QED BY <2>3, <2>4
<1> QED BY <1>2, <1>3, DirectionalType

LEMMA IndicesAreSparse ==
  ASSUME NEW ks \in Seq(AllBars)
  PROVE  Sparse(Indices(ks), Len(ks))
<1>1. Len(ks) \in Nat /\ DOMAIN Indices(ks) = 1..Len(ks)
  BY DEF Indices
<1> QED BY <1>1, IndexType DEF Sparse

LEMMA AdxGrows ==
  ASSUME NEW t, NEW s, Grows(t, s), NEW i \in 1..Len(s)
  PROVE  Adx(t)[i] = Adx(s)[i]
<1>1. PICK n, k : n = Len(s) /\ k = Len(t)
  OBVIOUS
<1>2. /\ n \in Nat /\ k \in Nat /\ n >= 1 /\ n <= k /\ k >= 1
      /\ n - 1 \in Nat /\ n - 1 <= k - 1
      /\ s \in Seq(AllBars) /\ t \in Seq(AllBars)
      /\ \A j \in 1..n : j \in 1..k /\ t[j] = s[j]
  BY <1>1, GrowsIs
<1>3. Sparse(Indices(s), n) /\ Sparse(Indices(t), k)
  BY <1>1, <1>2, IndicesAreSparse
<1>4. \A j \in 1..n : Directional(t)[j] = Directional(s)[j]
  BY <1>1, DirectionalGrows
<1>5. \A j \in 1..n : Indices(t)[j] = Indices(s)[j]
  BY <1>1, <1>2, <1>4 DEF Indices
<1>6. AdxPeriod \in Nat \ {0} /\ 1 \in Int
  BY IndicatorNumbers
<1>7. \A j \in 1..n : Averaged(Indices(t), AdxPeriod, 1, AdxPeriod)[j] =
                        Averaged(Indices(s), AdxPeriod, 1, AdxPeriod)[j]
  BY <1>2, <1>3, <1>5, <1>6, AveragedCausal
<1> QED BY <1>1, <1>7, AdxIs

-----------------------------------------------------------------------------

Band(sum, squares) ==
  Num([mean |-> sum, variance |-> BandPeriod * squares - sum * sum])

Between(b, off) ==
  IF b.value /\ b.is.variance > 0 /\ b.is.mean * b.is.mean # 4 * b.is.variance
    THEN Num([off |-> off, outside |-> off * off >= 4 * b.is.variance])
    ELSE NaN

LEMMA BandsAre ==
  ASSUME NEW ks, NEW i \in 1..Len(ks)
  PROVE  Bands(ks)[i] =
           IF i < BandPeriod THEN NaN
           ELSE Band(Total(ClosesOf(ks), i - BandPeriod + 1, i),
                     Total(SquaresOf(ks), i - BandPeriod + 1, i))
BY DEF Bands, Band, ClosesOf, SquaresOf

LEMMA PositionIs ==
  ASSUME NEW ks, NEW i \in 1..Len(ks)
  PROVE  BandPosition(ks)[i] =
           Between(Bands(ks)[i],
                   BandPeriod * ks[i].close - Bands(ks)[i].is.mean)
BY DEF BandPosition, Between

LEMMA PositionGrows ==
  ASSUME NEW t, NEW s, Grows(t, s), NEW i \in 1..Len(s)
  PROVE  BandPosition(t)[i] = BandPosition(s)[i]
<1>1. PICK n, k : n = Len(s) /\ k = Len(t)
  OBVIOUS
<1>2. /\ n \in Nat /\ k \in Nat /\ n >= 1 /\ n <= k /\ k >= 1
      /\ n - 1 \in Nat /\ n - 1 <= k - 1
      /\ s \in Seq(AllBars) /\ t \in Seq(AllBars)
      /\ \A j \in 1..n : j \in 1..k /\ t[j] = s[j]
  BY <1>1, GrowsIs
<1>3. BandPeriod \in Nat \ {0}
  BY IndicatorNumbers
<1>4. Summable(ClosesOf(s), n) /\ Summable(SquaresOf(s), n)
  BY <1>1, <1>2, InputsAreInt
<1>5. \A j \in 1..n : ClosesOf(t)[j] = ClosesOf(s)[j]
                      /\ SquaresOf(t)[j] = SquaresOf(s)[j]
  BY <1>1, InputsGrow
<1>6. i \in 1..k /\ t[i] = s[i]
  BY <1>1, <1>2
<1>7. Bands(t)[i] = Bands(s)[i]
  <2>1. CASE i < BandPeriod
    BY <1>1, <1>6, <2>1, BandsAre
  <2>2. CASE ~(i < BandPeriod)
    <3>1. i - BandPeriod + 1 \in Nat \ {0} /\ i \in Int /\ i <= n
      BY <1>1, <1>2, <1>3, <2>2
    <3>2. Total(ClosesOf(t), i - BandPeriod + 1, i) =
            Total(ClosesOf(s), i - BandPeriod + 1, i)
      BY <1>4, <1>5, <3>1, TotalSame
    <3>3. Total(SquaresOf(t), i - BandPeriod + 1, i) =
            Total(SquaresOf(s), i - BandPeriod + 1, i)
      BY <1>4, <1>5, <3>1, TotalSame
    <3> QED BY <1>1, <1>6, <2>2, <3>2, <3>3, BandsAre
  <2> QED BY <2>1, <2>2
<1> QED BY <1>1, <1>6, <1>7, PositionIs

Channel(m, a) ==
  IF m.value /\ a.value
    THEN Num([upper |-> m.is + 2 * a.is, lower |-> m.is - 2 * a.is]) ELSE NaN

LEMMA KeltnerIs ==
  ASSUME NEW ks, NEW i \in 1..Len(ks)
  PROVE  Keltner(ks)[i] = Channel(Ema(Ticks(ks), Slow)[i], Atr(ks, Fast)[i])
BY DEF Keltner, Channel

LEMMA KeltnerGrows ==
  ASSUME NEW t, NEW s, Grows(t, s), NEW i \in 1..Len(s)
  PROVE  Keltner(t)[i] = Keltner(s)[i]
<1>1. PICK n, k : n = Len(s) /\ k = Len(t)
  OBVIOUS
<1>2. /\ n \in Nat /\ k \in Nat /\ n >= 1 /\ n <= k /\ k >= 1
      /\ n - 1 \in Nat /\ n - 1 <= k - 1
      /\ s \in Seq(AllBars) /\ t \in Seq(AllBars)
      /\ \A j \in 1..n : j \in 1..k /\ t[j] = s[j]
  BY <1>1, GrowsIs
<1>3. Fast \in Nat \ {0} /\ Slow \in Nat \ {0}
  BY IndicatorNumbers
<1>4. /\ Summable(Ticks(s), n) /\ Summable(Ticks(t), k)
      /\ \A j \in 1..n : Ticks(t)[j] = Ticks(s)[j]
  BY <1>1, <1>2, InputsAreInt, InputsGrow
<1>5. Ema(Ticks(t), Slow)[i] = Ema(Ticks(s), Slow)[i]
  BY <1>1, <1>2, <1>3, <1>4, EmaCausal
<1>6. Atr(t, Fast)[i] = Atr(s, Fast)[i]
  BY <1>3, AtrGrows
<1> QED BY <1>1, <1>2, <1>5, <1>6, KeltnerIs

-----------------------------------------------------------------------------

VolumesTo(ks, i) == [n \in 1..i |-> Volume(ks[n])]

MoneyTo(ks, i) ==
  [n \in 1..i |-> Volume(ks[n]) * (High(ks[n]) + Low(ks[n]) + ks[n].close)]

LEMMA VwapIs ==
  ASSUME NEW ks, NEW i \in 1..Len(ks)
  PROVE  OverVwap(ks)[i] =
           IF SumFunction(VolumesTo(ks, i)) = 0 THEN NaN
           ELSE Num(3 * SumFunction(VolumesTo(ks, i)) * ks[i].close
                    - SumFunction(MoneyTo(ks, i)))
BY DEF OverVwap, VolumesTo, MoneyTo

LEMMA VwapGrows ==
  ASSUME NEW t, NEW s, Grows(t, s), NEW i \in 1..Len(s)
  PROVE  OverVwap(t)[i] = OverVwap(s)[i]
<1>1. PICK n, k : n = Len(s) /\ k = Len(t)
  OBVIOUS
<1>2. /\ n \in Nat /\ k \in Nat /\ n >= 1 /\ n <= k /\ k >= 1
      /\ n - 1 \in Nat /\ n - 1 <= k - 1
      /\ s \in Seq(AllBars) /\ t \in Seq(AllBars)
      /\ \A j \in 1..n : j \in 1..k /\ t[j] = s[j]
  BY <1>1, GrowsIs
<1>3. \A j \in 1..i : t[j] = s[j]
  BY <1>1, <1>2
<1>4. VolumesTo(t, i) = VolumesTo(s, i) /\ MoneyTo(t, i) = MoneyTo(s, i)
  BY <1>3 DEF VolumesTo, MoneyTo
<1>5. i \in 1..k /\ t[i] = s[i]
  BY <1>1, <1>2
<1> QED BY <1>1, <1>4, <1>5, VwapIs

Over(x, a) ==
  IF a.value /\ a.is # 0 THEN Num([over |-> x - a.is, avg |-> Abs(a.is)])
  ELSE NaN

LEMMA ObvGrows ==
  ASSUME NEW t, NEW s, Grows(t, s), NEW i \in 1..Len(s)
  PROVE  OverAverage(OnBalance(t))[i] = OverAverage(OnBalance(s))[i]
<1>1. PICK n, k : n = Len(s) /\ k = Len(t)
  OBVIOUS
<1>2. /\ n \in Nat /\ k \in Nat /\ n >= 1 /\ n <= k /\ k >= 1
      /\ n - 1 \in Nat /\ n - 1 <= k - 1
      /\ s \in Seq(AllBars) /\ t \in Seq(AllBars)
      /\ \A j \in 1..n : j \in 1..k /\ t[j] = s[j]
  BY <1>1, GrowsIs
<1>3. PICK x, y : x = OnBalance(s) /\ y = OnBalance(t)
  OBVIOUS
<1>4. Summable(x, n) /\ Summable(y, k) /\ \A j \in 1..n : y[j] = x[j]
  BY <1>1, <1>2, <1>3, InputsAreInt, InputsGrow
<1>5. BandPeriod \in Nat \ {0}
  BY IndicatorNumbers
<1>6. Sma(y, BandPeriod)[i] = Sma(x, BandPeriod)[i]
  BY <1>1, <1>2, <1>4, <1>5, SmaCausal
<1>7. /\ i \in 1..n /\ i \in 1..k /\ y[i] = x[i]
      /\ DOMAIN x = 1..n /\ DOMAIN y = 1..k
  BY <1>1, <1>2, <1>4 DEF Summable
<1>8. OverAverage(x)[i] = Over(x[i], Sma(x, BandPeriod)[i])
  BY <1>7 DEF OverAverage, Over
<1>9. OverAverage(y)[i] = Over(y[i], Sma(y, BandPeriod)[i])
  BY <1>7 DEF OverAverage, Over
<1> QED BY <1>3, <1>6, <1>7, <1>8, <1>9

Ratio(x, a) ==
  IF a.value /\ a.is > 0 THEN Num([now |-> x, avg |-> a.is]) ELSE NaN

LEMMA RatioIs ==
  ASSUME NEW ks, NEW i \in 1..Len(ks)
  PROVE  VolumeRatio(ks)[i] =
           Ratio(Unit * Volume(ks[i]), Sma(Traded(ks), BandPeriod)[i])
BY DEF VolumeRatio, Ratio, Traded

LEMMA RatioGrows ==
  ASSUME NEW t, NEW s, Grows(t, s), NEW i \in 1..Len(s)
  PROVE  VolumeRatio(t)[i] = VolumeRatio(s)[i]
<1>1. PICK n, k : n = Len(s) /\ k = Len(t)
  OBVIOUS
<1>2. /\ n \in Nat /\ k \in Nat /\ n >= 1 /\ n <= k /\ k >= 1
      /\ n - 1 \in Nat /\ n - 1 <= k - 1
      /\ s \in Seq(AllBars) /\ t \in Seq(AllBars)
      /\ \A j \in 1..n : j \in 1..k /\ t[j] = s[j]
  BY <1>1, GrowsIs
<1>3. /\ Summable(Traded(s), n) /\ Summable(Traded(t), k)
      /\ \A j \in 1..n : Traded(t)[j] = Traded(s)[j]
  BY <1>1, <1>2, InputsAreInt, InputsGrow
<1>4. BandPeriod \in Nat \ {0}
  BY IndicatorNumbers
<1>5. Sma(Traded(t), BandPeriod)[i] = Sma(Traded(s), BandPeriod)[i]
  BY <1>1, <1>2, <1>3, <1>4, SmaCausal
<1> QED BY <1>1, <1>2, <1>5, RatioIs

LEMMA ReturnsGrow ==
  ASSUME NEW t, NEW s, Grows(t, s), NEW i \in 1..Len(s)
  PROVE  Returns(t, 1)[i] = Returns(s, 1)[i]
<1>1. PICK n, k : n = Len(s) /\ k = Len(t)
  OBVIOUS
<1>2. /\ n \in Nat /\ k \in Nat /\ n >= 1 /\ n <= k /\ k >= 1
      /\ n - 1 \in Nat /\ n - 1 <= k - 1
      /\ s \in Seq(AllBars) /\ t \in Seq(AllBars)
      /\ \A j \in 1..n : j \in 1..k /\ t[j] = s[j]
  BY <1>1, GrowsIs
<1>3. i \in 1..n /\ i \in 1..k /\ (i > 1 => i - 1 \in 1..n)
  BY <1>1, <1>2
<1>4. /\ Returns(s, 1)[i] =
           IF i > 1 THEN Num(s[i].close - s[i - 1].close) ELSE NaN
      /\ Returns(t, 1)[i] =
           IF i > 1 THEN Num(t[i].close - t[i - 1].close) ELSE NaN
  BY <1>1, <1>3 DEF Returns
<1> QED BY <1>2, <1>3, <1>4

-----------------------------------------------------------------------------

LEMMA FeaturesAre ==
  ASSUME NEW ks, NEW i
  PROVE  FeatureSet(Arrays(ks), i) =
           [rsi |-> Rsi(ks, RsiPeriod)[i], macd |-> MacdHistogram(ks)[i],
            atr |-> Atr(ks, AdxPeriod)[i], adx |-> Adx(ks)[i],
            di |-> Directional(ks)[i], position |-> BandPosition(ks)[i],
            keltner |-> Keltner(ks)[i], vwap |-> OverVwap(ks)[i],
            obv |-> OverAverage(OnBalance(ks))[i],
            ratio |-> VolumeRatio(ks)[i], ret |-> Returns(ks, 1)[i]]
BY DEF FeatureSet, Arrays

\* What is known of a bar stays as it is when the market goes on.
LEMMA FeaturesStay ==
  ASSUME NEW t, NEW s, Grows(t, s), NEW i \in 1..Len(s)
  PROVE  FeatureSet(Arrays(t), i) = FeatureSet(Arrays(s), i)
<1>1. AdxPeriod \in Nat \ {0}
  BY IndicatorNumbers
<1>2. /\ Rsi(t, RsiPeriod)[i] = Rsi(s, RsiPeriod)[i]
      /\ MacdHistogram(t)[i] = MacdHistogram(s)[i]
      /\ Atr(t, AdxPeriod)[i] = Atr(s, AdxPeriod)[i]
      /\ Adx(t)[i] = Adx(s)[i]
      /\ Directional(t)[i] = Directional(s)[i]
  BY <1>1, RsiGrows, MacdGrows, AtrGrows, AdxGrows, DirectionalGrows
<1>3. /\ BandPosition(t)[i] = BandPosition(s)[i]
      /\ Keltner(t)[i] = Keltner(s)[i]
      /\ OverVwap(t)[i] = OverVwap(s)[i]
  BY PositionGrows, KeltnerGrows, VwapGrows
<1>4. /\ OverAverage(OnBalance(t))[i] = OverAverage(OnBalance(s))[i]
      /\ VolumeRatio(t)[i] = VolumeRatio(s)[i]
      /\ Returns(t, 1)[i] = Returns(s, 1)[i]
  BY ObvGrows, RatioGrows, ReturnsGrow
<1> QED BY <1>2, <1>3, <1>4, FeaturesAre, Zenon

\* A function on the places from 1 to n is a sequence of that length.
LEMMA LengthIs ==
  ASSUME NEW n \in Nat, NEW f, DOMAIN f = 1..n, f = [i \in 1..n |-> f[i]]
  PROVE  Len(f) = n
<1> DEFINE S == {f[i] : i \in 1..n}
<1>1. f \in [1..n -> S]
  OBVIOUS
<1> HIDE DEF S
<1>2. f \in Seq(S)
  BY <1>1
<1>3. DOMAIN f = 1..Len(f) /\ Len(f) \in Nat
  BY <1>2, LenProperties
<1> QED BY <1>3

LEMMA LastIs == \A s : Last(s) = s[Len(s)]
BY DEF Last

LEMMA QuotientIs ==
  ASSUME NEW x \in Int, NEW d \in Nat \ {0}, NEW q \in Int
  PROVE  /\ x = q * d => x \div d = q
         /\ x >= q * d => x \div d >= q
<1>1. PICK v \in Int : v = x \div d
  OBVIOUS
<1>2. v * d <= x /\ x < v * d + d
  BY <1>1
<1>3. x >= q * d => v >= q
  <2> SUFFICES ASSUME x >= q * d, v + 1 <= q PROVE FALSE
    OBVIOUS
  <2>1. PICK e \in Nat : q = v + 1 + e
    <3>1. q - (v + 1) \in Nat /\ q = v + 1 + (q - (v + 1))
      OBVIOUS
    <3> QED BY <3>1
  <2>2. e * d \in Nat /\ q * d = v * d + d + e * d
    BY <2>1
  <2>3. v * d \in Int /\ q * d \in Int
    OBVIOUS
  <2> QED BY <1>2, <2>2, <2>3
<1>4. x = q * d => v <= q
  <2> SUFFICES ASSUME x = q * d, q + 1 <= v PROVE FALSE
    OBVIOUS
  <2>1. PICK e \in Nat : v = q + 1 + e
    <3>1. v - (q + 1) \in Nat /\ v = q + 1 + (v - (q + 1))
      OBVIOUS
    <3> QED BY <3>1
  <2>2. e * d \in Nat /\ v * d = q * d + d + e * d
    BY <2>1
  <2>3. v * d \in Int /\ q * d \in Int
    OBVIOUS
  <2> QED BY <1>2, <2>2, <2>3
<1>5. q * d \in Int
  OBVIOUS
<1> QED BY <1>1, <1>3, <1>4, <1>5

\* The average of values that are all the same.
LEMMA SmoothedConstant ==
  ASSUME NEW s, NEW m, Summable(s, m), NEW c \in Int, \A i \in 1..m : s[i] = c,
         NEW period \in Nat \ {0}, NEW num \in Int, NEW den \in Nat \ {0}
  PROVE  \A i \in 1..m : i >= period =>
           Smoothed(s, period, num, den)[i] = Num(c)
<1>1. m \in Nat /\ DOMAIN s = 1..m
  BY DEF Summable
<1>2. PICK avg : avg = Smoothed(s, period, num, den)
  OBVIOUS
<1>3. \A i \in 1..m :
        /\ i = period => avg[i] = Num(Total(s, 1, period) \div period)
        /\ i > period => avg[i] =
             Num((s[i] * num + avg[i - 1].is * (den - num)) \div den)
  <2>1. Smooth(avg, s, m, period, num, den)
    BY <1>1, <1>2, SmoothedIs
  <2> QED BY <2>1 DEF Smooth
<1> DEFINE A == {n \in Nat : n \in 1..m /\ n >= period => avg[n] = Num(c)}
<1>4. 0 \in A
  OBVIOUS
<1>5. ASSUME NEW n \in Nat, n \in A PROVE n + 1 \in A
  <2> SUFFICES ASSUME n + 1 \in 1..m, n + 1 >= period
               PROVE  avg[n + 1] = Num(c)
    OBVIOUS
  <2>1. CASE n + 1 = period
    <3>1. IsFiniteSet(1..period) /\ Cardinality(1..period) = period
      BY FS_Interval
    <3>2. \A i \in 1..period : s[i] = c
      BY <1>1, <2>1
    <3>3. PICK x \in Int : x = Total(s, 1, period)
      BY <1>1, <2>1, TotalIs
    <3>4. x = period * c
      BY <3>1, <3>2, <3>3, SumConstant DEF Total
    <3>5. x \div period = c
      <4>1. period * c = c * period
        OBVIOUS
      <4> QED BY <3>4, <4>1, QuotientIs
    <3> QED BY <1>3, <2>1, <3>3, <3>5
  <2>2. CASE n + 1 > period
    <3>1. n \in 1..m /\ n >= period /\ (n + 1) - 1 = n
      BY <1>1, <2>2
    <3>2. avg[n].is = c
      BY <1>5, <3>1, NumIs
    <3>3. PICK x \in Int : x = c * num + c * (den - num)
      OBVIOUS
    <3>4. x = c * den
      BY <3>3
    <3>5. x \div den = c
      BY <3>4, QuotientIs
    <3> QED BY <1>3, <2>2, <3>1, <3>2, <3>3, <3>5
  <2> QED BY <2>1, <2>2
<1>6. Nat \subseteq A
  <2> HIDE DEF A
  <2> QED BY <1>4, <1>5, NatInductionSet
<1>7. \A i \in 1..m : i >= period => avg[i] = Num(c)
  BY <1>1, <1>6
<1> QED BY <1>2, <1>7

\* The average of values that are not negative is not, and it is positive where
\* a value is at least the period.
LEMMA RmaIsPositive ==
  ASSUME NEW s, NEW m, Summable(s, m), \A i \in 1..m : s[i] >= 0,
         NEW period \in Nat \ {0}
  PROVE  \A i \in 1..m : i >= period =>
           /\ Rma(s, period)[i].is \in Nat
           /\ s[i] >= period => Rma(s, period)[i].is > 0
<1>1. m \in Nat /\ DOMAIN s = 1..m /\ 1 \in Int
  BY DEF Summable
<1>2. PICK avg : avg = Rma(s, period)
  OBVIOUS
<1>3. \A i \in 1..m :
        /\ i = period => avg[i] = Num(Total(s, 1, period) \div period)
        /\ i > period => avg[i] =
             Num((s[i] * 1 + avg[i - 1].is * (period - 1)) \div period)
  <2>1. Smooth(avg, s, m, period, 1, period)
    BY <1>1, <1>2, SmoothedIs DEF Rma
  <2> QED BY <2>1 DEF Smooth
<1> DEFINE A == {n \in Nat : n \in 1..m /\ n >= period =>
                   /\ avg[n].is \in Nat
                   /\ s[n] >= period => avg[n].is > 0}
<1>4. 0 \in A
  OBVIOUS
<1>5. ASSUME NEW n \in Nat, n \in A PROVE n + 1 \in A
  <2> SUFFICES ASSUME n + 1 \in 1..m, n + 1 >= period
               PROVE  /\ avg[n + 1].is \in Nat
                      /\ s[n + 1] >= period => avg[n + 1].is > 0
    OBVIOUS
  <2>0. ASSUME NEW x \in Int, x >= 0, s[n + 1] >= period => x >= period,
               avg[n + 1] = Num(x \div period)
        PROVE  /\ avg[n + 1].is \in Nat
               /\ s[n + 1] >= period => avg[n + 1].is > 0
    <3>1. PICK v \in Int : v = x \div period
      OBVIOUS
    <3>2. avg[n + 1].is = v
      BY <2>0, <3>1, NumIs
    <3>3. v >= 0
      <4>1. x >= 0 * period
        BY <2>0
      <4> QED BY <3>1, <4>1, QuotientIs
    <3>4. x >= period => v >= 1
      <4>1. 1 * period = period
        OBVIOUS
      <4> QED BY <3>1, <4>1, QuotientIs
    <3> QED BY <2>0, <3>2, <3>3, <3>4
  <2>1. CASE n + 1 = period
    <3>1. IsFiniteSet(1..period) /\ IsFiniteSet((1..period) \ {n + 1})
      BY FS_Interval, FS_Subset
    <3>2. \A i \in 1..period : s[i] \in Int /\ s[i] >= 0
      BY <1>1, <2>1 DEF Summable
    <3>3. PICK x \in Int, y \in Int :
            /\ x = SumFunctionOnSet(s, 1..period)
            /\ y = SumFunctionOnSet(s, (1..period) \ {n + 1})
      BY <3>1, <3>2, SumType
    <3>4. x = s[n + 1] + y
      <4>1. n + 1 \in 1..period /\ \A i \in 1..period : s[i] \in Int
        BY <2>1, <3>2
      <4>2. SumFunctionOnSet(s, 1..period) =
              s[n + 1] + SumFunctionOnSet(s, (1..period) \ {n + 1})
        BY <3>1, <4>1, SumOut
      <4> QED BY <3>3, <4>2
    <3>5. y >= 0
      <4>1. PICK z : z = [i \in 1..period |-> 0]
        OBVIOUS
      <4>2. \A i \in (1..period) \ {n + 1} : z[i] = 0 /\ z[i] \in Int
                                             /\ s[i] \in Int /\ z[i] <= s[i]
        BY <3>2, <4>1
      <4>3. SumFunctionOnSet(z, (1..period) \ {n + 1}) = 0
        BY <3>1, <4>2, SumZero
      <4>4. SumFunctionOnSet(z, (1..period) \ {n + 1}) <= y
        BY <3>1, <3>3, <4>2, SumMono
      <4> QED BY <4>3, <4>4
    <3>6. s[n + 1] \in Int /\ s[n + 1] >= 0
      BY <2>1, <3>2
    <3>7. x >= 0 /\ (s[n + 1] >= period => x >= period)
      BY <3>4, <3>5, <3>6
    <3>8. avg[n + 1] = Num(x \div period)
      BY <1>3, <2>1, <3>3 DEF Total
    <3> QED BY <2>0, <3>7, <3>8
  <2>2. CASE n + 1 > period
    <3>1. n \in 1..m /\ n >= period /\ (n + 1) - 1 = n
      BY <1>1, <2>2
    <3>2. PICK a \in Nat : a = avg[n].is
      BY <1>5, <3>1
    <3>3. PICK b \in Nat : b = a * (period - 1)
      <4>1. period - 1 \in Nat
        OBVIOUS
      <4> QED BY <4>1
    <3>4. s[n + 1] \in Int /\ s[n + 1] >= 0
      BY DEF Summable
    <3>5. PICK x \in Int : x = s[n + 1] * 1 + b
      BY <3>4
    <3>6. x >= 0 /\ (s[n + 1] >= period => x >= period)
      BY <3>4, <3>5
    <3>7. avg[n + 1] = Num(x \div period)
      BY <1>3, <2>2, <3>1, <3>2, <3>3, <3>5
    <3> QED BY <2>0, <3>6, <3>7
  <2> QED BY <2>1, <2>2
<1>6. Nat \subseteq A
  <2> HIDE DEF A
  <2> QED BY <1>4, <1>5, NatInductionSet
<1>7. \A i \in 1..m : i >= period => /\ avg[i].is \in Nat
                                     /\ s[i] >= period => avg[i].is > 0
  BY <1>1, <1>6
<1> QED BY <1>2, <1>7

LEMMA StrengthOf ==
  ASSUME NEW ks \in Seq(AllBars), Len(ks) >= 2,
         Rsi(ks, RsiPeriod)[Len(ks)].value, NEW r,
         r = Rsi(ks, RsiPeriod)[Len(ks)].is
  PROVE  /\ r.up \in 0..r.of /\ r.of > 0
         /\ r.up = r.of => Last(Moves(ks)) >= 0
<1>1. PICK n \in Nat : n = Len(ks)
  OBVIOUS
<1>2. n >= 2 /\ n \in 1..Len(ks) /\ n - 1 \in 1..(n - 1) /\ n - 1 \in Nat
  BY <1>1
<1>3. RsiPeriod \in Nat \ {0} /\ Unit \in Nat /\ RsiPeriod <= Unit
  BY IndicatorNumbers
<1>4. n > RsiPeriod
  <2> SUFFICES ASSUME n <= RsiPeriod PROVE FALSE
    BY <1>3
  <2>1. Rsi(ks, RsiPeriod)[n] = NaN
    BY <1>2, RsiIs
  <2> QED BY <1>1, <2>1, NumIs
<1>5. n - 1 >= RsiPeriod
  BY <1>3, <1>4
<1>6. Summable(Rises(ks), n - 1) /\ Summable(Falls(ks), n - 1)
  BY <1>1, <1>2, InputsAreInt
<1>7. /\ DOMAIN Moves(ks) = 1..(n - 1)
      /\ \A i \in 1..(n - 1) : Moves(ks)[i] \in Int
  BY <1>1, MovesAre
<1>8. ASSUME NEW i \in 1..(n - 1)
      PROVE  /\ Rises(ks)[i] >= 0 /\ Falls(ks)[i] >= 0
             /\ Moves(ks)[i] < 0 => Falls(ks)[i] >= RsiPeriod
  <2>1. PICK x \in Int : x = Moves(ks)[i]
    BY <1>7
  <2>2. PICK a \in Nat, b \in Nat : a = Greater(x, 0) /\ b = Greater(-x, 0)
    BY DEF Greater
  <2>3. Rises(ks)[i] = Unit * a /\ Falls(ks)[i] = Unit * b
    BY <1>7, <2>1, <2>2 DEF Rises, Falls
  <2>4. Unit * a >= 0 /\ Unit * b >= 0
    BY <1>3
  <2>5. ASSUME x < 0 PROVE Unit * b >= RsiPeriod
    <3>1. b >= 1
      BY <2>2, <2>5 DEF Greater
    <3>2. PICK e \in Nat : b = 1 + e
      <4>1. b - 1 \in Nat /\ b = 1 + (b - 1)
        BY <3>1
      <4> QED BY <4>1
    <3>3. Unit * b = Unit + Unit * e /\ Unit * e \in Nat
      BY <1>3, <3>2
    <3> QED BY <1>3, <3>3
  <2> QED BY <2>1, <2>3, <2>4, <2>5
<1>9. PICK g, l : /\ g = Rma(Rises(ks), RsiPeriod)[n - 1].is
                  /\ l = Rma(Falls(ks), RsiPeriod)[n - 1].is
  OBVIOUS
<1>10. g \in Nat
  <2>1. \A i \in 1..(n - 1) : Rises(ks)[i] >= 0
    BY <1>8
  <2> QED BY <1>2, <1>3, <1>5, <1>6, <1>9, <2>1, RmaIsPositive
<1>11. l \in Nat /\ (Falls(ks)[n - 1] >= RsiPeriod => l > 0)
  <2>1. \A i \in 1..(n - 1) : Falls(ks)[i] >= 0
    BY <1>8
  <2> QED BY <1>2, <1>3, <1>5, <1>6, <1>9, <2>1, RmaIsPositive
<1>12. r = IF l = 0 THEN [up |-> 1, of |-> 1] ELSE [up |-> g, of |-> g + l]
  <2>1. Rsi(ks, RsiPeriod)[n] = Share(g, l)
    BY <1>2, <1>3, <1>4, <1>9, RsiIs
  <2> QED BY <1>1, <2>1, NumIs DEF Share
<1>13. Last(Moves(ks)) = Moves(ks)[n - 1]
  <2>1. Moves(ks) = [i \in 1..(n - 1) |-> Moves(ks)[i]]
    BY <1>1 DEF Moves
  <2>2. Len(Moves(ks)) = n - 1
    BY <1>2, <1>7, <2>1, LengthIs
  <2> QED BY <2>2, LastIs
<1>14. CASE l = 0
  <2>1. Moves(ks)[n - 1] \in Int /\ ~(Moves(ks)[n - 1] < 0)
    BY <1>2, <1>7, <1>8, <1>11, <1>14
  <2>2. Last(Moves(ks)) >= 0
    BY <1>13, <2>1
  <2>3. r.up = 1 /\ r.of = 1
    BY <1>12, <1>14
  <2> QED BY <2>2, <2>3
<1>15. CASE l # 0
  <2>1. r.up = g /\ r.of = g + l
    BY <1>12, <1>15
  <2> QED BY <1>10, <1>11, <1>15, <2>1
<1> QED BY <1>14, <1>15

\* A trend comes with its direction.
LEMMA TrendOf ==
  ASSUME NEW ks \in Seq(AllBars), NEW i \in 1..Len(ks), Adx(ks)[i].value
  PROVE  Directional(ks)[i].value
<1>1. PICK x : x = Averaged(Indices(ks), AdxPeriod, 1, AdxPeriod)
  OBVIOUS
<1>2. AdxPeriod \in Nat \ {0} /\ 1 \in Int /\ Sparse(Indices(ks), Len(ks))
  BY IndicatorNumbers, IndicesAreSparse
<1>3. x[i].value => Indices(ks)[i].value
  BY <1>1, <1>2, AveragedType
<1> QED BY <1>1, <1>3, AdxIs, IndexType

-----------------------------------------------------------------------------
(* A market at rest *)

AtRest(ks) ==
  \A i \in 1..Len(ks) : ks[i] = [close |-> ks[1].close, wick |-> 0]

LEMMA RestIs ==
  ASSUME NEW ks \in Seq(AllBars), AtRest(ks), NEW n, n = Len(ks), n >= 1
  PROVE  \E c \in Nat :
           \A i \in 1..n : /\ ks[i].close = c /\ ks[i].wick = 0
                           /\ Ticks(ks)[i] = c * Unit /\ TrueRange(ks)[i] = 0
                           /\ ClosesOf(ks)[i] = c /\ SquaresOf(ks)[i] = c * c
                           /\ Volume(ks[i]) = 0
<1>1. PICK c : c = ks[1].close
  OBVIOUS
<1>2. n \in Nat /\ c \in Nat /\ Unit \in Nat
  BY <1>1, BarIs, IndicatorNumbers
<1>3. ASSUME NEW i \in 1..n
      PROVE  /\ ks[i].close = c /\ ks[i].wick = 0
             /\ Ticks(ks)[i] = c * Unit /\ TrueRange(ks)[i] = 0
             /\ ClosesOf(ks)[i] = c /\ SquaresOf(ks)[i] = c * c
             /\ Volume(ks[i]) = 0
  <2>1. ks[i].close = c /\ ks[i].wick = 0
    BY <1>1 DEF AtRest
  <2>2. Volume(ks[i]) = 0 /\ High(ks[i]) = c /\ Low(ks[i]) = c
    BY <1>2, <2>1 DEF Volume, High, Low
  <2>3. ks[i].close * Unit = c * Unit /\ ks[i].close * ks[i].close = c * c
    BY <2>1
  <2>4. /\ Ticks(ks)[i] = c * Unit /\ ClosesOf(ks)[i] = c
        /\ SquaresOf(ks)[i] = c * c
    BY <2>1, <2>3 DEF Ticks, ClosesOf, SquaresOf
  <2>5. TrueRange(ks)[i] = 0
    <3>0. Unit * 0 = 0 /\ c - c = 0
      BY <1>2
    <3>1. CASE i = 1
      <4>1. TrueRange(ks)[i] = Unit * (High(ks[i]) - Low(ks[i]))
        BY <3>1 DEF TrueRange
      <4> QED BY <2>2, <3>0, <4>1
    <3>2. CASE i # 1
      <4>1. ks[i - 1].close = c
        <5>1. i - 1 \in 1..n
          BY <1>2, <3>2
        <5> QED BY <1>1, <5>1 DEF AtRest
      <4>2. TrueRange(ks)[i] =
              Unit * Greater(c - c, Greater(Abs(c - c), Abs(c - c)))
        BY <2>2, <3>2, <4>1 DEF TrueRange
      <4>3. Greater(c - c, Greater(Abs(c - c), Abs(c - c))) = 0
        BY <1>2 DEF Greater, Abs
      <4> QED BY <3>0, <4>2, <4>3
    <3> QED BY <3>1, <3>2
  <2> QED BY <2>1, <2>2, <2>4, <2>5
<1> QED BY <1>2, <1>3

LEMMA RestHasNoPosition ==
  ASSUME NEW ks \in Seq(AllBars), AtRest(ks), NEW n, n = Len(ks), n >= 1
  PROVE  ~BandPosition(ks)[n].value
<1>1. PICK c \in Nat : \A i \in 1..n : ClosesOf(ks)[i] = c
                                       /\ SquaresOf(ks)[i] = c * c
  BY RestIs
<1>2. n \in Nat /\ n \in 1..Len(ks) /\ BandPeriod \in Nat \ {0}
  BY IndicatorNumbers
<1>3. BandPosition(ks)[n] =
        Between(Bands(ks)[n], BandPeriod * ks[n].close - Bands(ks)[n].is.mean)
  BY <1>2, PositionIs
<1>4. CASE n < BandPeriod
  <2>1. Bands(ks)[n] = NaN
    BY <1>2, <1>4, BandsAre
  <2> QED BY <1>3, <2>1, NumIs DEF Between
<1>5. CASE ~(n < BandPeriod)
  <2>1. PICK a \in Nat \ {0} : a = n - BandPeriod + 1
    <3>1. n - BandPeriod + 1 \in Nat \ {0}
      BY <1>2, <1>5
    <3> QED BY <3>1
  <2>2. /\ IsFiniteSet(a..n) /\ Cardinality(a..n) = BandPeriod
        /\ a..n \subseteq 1..n
    <3>1. n - a + 1 = BandPeriod /\ a <= n
      BY <1>2, <2>1
    <3>2. IsFiniteSet(a..n) /\ Cardinality(a..n) = BandPeriod
      BY <1>2, <3>1, FS_Interval
    <3>3. a..n \subseteq 1..n
      BY <1>2
    <3> QED BY <3>2, <3>3
  <2>3. Total(ClosesOf(ks), a, n) = BandPeriod * c
    <3>1. \A i \in a..n : ClosesOf(ks)[i] = c
      BY <1>1, <2>2
    <3> QED BY <2>2, <3>1, SumConstant DEF Total
  <2>4. Total(SquaresOf(ks), a, n) = BandPeriod * (c * c)
    <3>1. \A i \in a..n : SquaresOf(ks)[i] = c * c
      BY <1>1, <2>2
    <3>2. c * c \in Int
      OBVIOUS
    <3> QED BY <2>2, <3>1, <3>2, SumConstant DEF Total
  <2>5. Bands(ks)[n] = Band(BandPeriod * c, BandPeriod * (c * c))
    BY <1>2, <1>5, <2>1, <2>3, <2>4, BandsAre
  <2>6. BandPeriod * (BandPeriod * (c * c))
          - (BandPeriod * c) * (BandPeriod * c) = 0
    BY <1>2
  <2>7. Bands(ks)[n].is.variance = 0
    BY <2>5, <2>6, NumIs DEF Band
  <2>8. BandPosition(ks)[n] = NaN
    BY <1>3, <2>7 DEF Between
  <2> QED BY <2>8, NumIs
<1> QED BY <1>4, <1>5

LEMMA RestHasNoDirection ==
  ASSUME NEW ks \in Seq(AllBars), AtRest(ks), NEW n, n = Len(ks), n >= 1
  PROVE  ~Directional(ks)[n].value /\ ~Adx(ks)[n].value
<1>1. \A i \in 1..n : TrueRange(ks)[i] = 0
  BY RestIs
<1>2. /\ n \in Nat /\ n \in 1..Len(ks) /\ AdxPeriod \in Nat \ {0}
      /\ 0 \in Int /\ 1 \in Int
  BY IndicatorNumbers
<1>3. Summable(TrueRange(ks), n)
  BY InputsAreInt
<1>4. n >= AdxPeriod => Atr(ks, AdxPeriod)[n].is = 0
  <2>1. n >= AdxPeriod => Atr(ks, AdxPeriod)[n] = Num(0)
    BY <1>1, <1>2, <1>3, SmoothedConstant DEF Atr, Rma
  <2> QED BY <2>1, NumIs
<1>5. Directional(ks)[n] = NaN
  BY <1>2, <1>4, DirectionalType
<1>6. ~Directional(ks)[n].value
  BY <1>5, NumIs
<1> QED BY <1>2, <1>6, TrendOf

LEMMA RestHasNoVwap ==
  ASSUME NEW ks \in Seq(AllBars), AtRest(ks), NEW n, n = Len(ks), n >= 1
  PROVE  ~OverVwap(ks)[n].value
<1>1. \A i \in 1..n : Volume(ks[i]) = 0
  BY RestIs
<1>2. n \in Nat /\ n \in 1..Len(ks) /\ IsFiniteSet(1..n)
  BY FS_Interval
<1>3. PICK f : f = VolumesTo(ks, n)
  OBVIOUS
<1>4. DOMAIN f = 1..n /\ \A i \in 1..n : f[i] = 0
  BY <1>1, <1>3 DEF VolumesTo
<1>5. SumFunction(f) = SumFunctionOnSet(f, DOMAIN f)
  BY DEF SumFunction
<1>6. SumFunction(f) = 0
  BY <1>2, <1>4, <1>5, SumZero
<1>7. OverVwap(ks)[n] = NaN
  BY <1>2, <1>3, <1>6, VwapIs
<1> QED BY <1>7, NumIs

LEMMA AveragedConstant ==
  ASSUME NEW s, NEW m, Sparse(s, m), NEW c \in Int,
         \A i \in 1..m : s[i].value => s[i].is = c,
         NEW period \in Nat \ {0}, NEW num \in Int, NEW den \in Nat \ {0},
         NEW i \in 1..m, Averaged(s, period, num, den)[i].value
  PROVE  s[i].value /\ Averaged(s, period, num, den)[i].is = c
<1> DEFINE H == HasValue(s)
           d == Cardinality(H)
<1>1. m \in Nat /\ DOMAIN s = 1..m
  BY DEF Sparse
<1>2. /\ Summable(Values(s), d) /\ H = {j \in 1..m : s[j].value}
      /\ \A j \in H : Rank(s, j) \in 1..d /\ Values(s)[Rank(s, j)] = s[j].is
      /\ \A n \in 1..d : \E j \in H : Rank(s, j) = n
  BY ValuesAre
<1> HIDE DEF H, d
<1>3. \A n \in 1..d : Values(s)[n] = c
  <2> SUFFICES ASSUME NEW n \in 1..d PROVE Values(s)[n] = c
    OBVIOUS
  <2>1. PICK j \in H : Rank(s, j) = n
    BY <1>2
  <2> QED BY <1>2, <2>1
<1>4. PICK x : x = Smoothed(Values(s), period, num, den)
  OBVIOUS
<1>5. Averaged(s, period, num, den)[i] =
        IF s[i].value THEN x[Rank(s, i)] ELSE NaN
  BY <1>1, <1>4 DEF Averaged
<1>6. s[i].value
  BY <1>5, NumIs
<1>7. Rank(s, i) \in 1..d
  BY <1>2, <1>6
<1>8. /\ d \in Nat /\ (x[Rank(s, i)].value <=> Rank(s, i) >= period)
  <2>1. \A n \in 1..d : x[n].value <=> n >= period
    BY <1>2, <1>4, SmoothedType
  <2> QED BY <1>2, <1>7, <2>1 DEF Summable
<1>9. x[Rank(s, i)] = Num(c)
  <2>1. Rank(s, i) >= period
    BY <1>5, <1>6, <1>8
  <2> QED BY <1>2, <1>3, <1>4, <1>7, <2>1, SmoothedConstant
<1> QED BY <1>5, <1>6, <1>9, NumIs

LEMMA RestHasNoMomentum ==
  ASSUME NEW ks \in Seq(AllBars), AtRest(ks), NEW n, n = Len(ks), n >= 1,
         MacdHistogram(ks)[n].value
  PROVE  MacdHistogram(ks)[n].is = 0
<1>1. PICK c \in Nat : \A i \in 1..n : Ticks(ks)[i] = c * Unit
  BY RestIs
<1>2. /\ n \in Nat /\ n \in 1..Len(ks) /\ Unit \in Nat
      /\ Fast \in Nat \ {0} /\ Slow \in Nat \ {0}
      /\ Fast + 1 \in Nat \ {0} /\ Slow + 1 \in Nat \ {0}
      /\ SignalPeriod \in Nat \ {0} /\ SignalPeriod + 1 \in Nat \ {0}
      /\ 2 \in Int /\ 0 \in Int
  BY IndicatorNumbers
<1>3. PICK e \in Int : e = c * Unit
  BY <1>2
<1>4. Summable(Ticks(ks), n) /\ \A i \in 1..n : Ticks(ks)[i] = e
  BY <1>1, <1>3, InputsAreInt
<1>5. Sparse(MacdLine(ks), n)
  BY MacdLineIs
<1>6. ASSUME NEW i \in 1..n, MacdLine(ks)[i].value
      PROVE  MacdLine(ks)[i].is = 0
  <2>1. PICK x, y : x = Ema(Ticks(ks), Fast)[i] /\ y = Ema(Ticks(ks), Slow)[i]
    OBVIOUS
  <2>2. MacdLine(ks)[i] =
          IF x.value /\ y.value THEN Num(x.is - y.is) ELSE NaN
    BY <2>1 DEF MacdLine
  <2>3. x.value /\ y.value
    BY <1>6, <2>2, NumIs
  <2>4. i >= Fast
    BY <1>2, <1>4, <2>1, <2>3, EmaType
  <2>5. i >= Slow
    BY <1>2, <1>4, <2>1, <2>3, EmaType
  <2>6. x = Num(e)
    BY <1>2, <1>4, <2>1, <2>4, SmoothedConstant DEF Ema
  <2>7. y = Num(e)
    BY <1>2, <1>4, <2>1, <2>5, SmoothedConstant DEF Ema
  <2>8. MacdLine(ks)[i] = Num(0)
    <3>1. x.is - y.is = 0
      BY <2>6, <2>7, NumIs
    <3> QED BY <2>2, <2>3, <3>1
  <2> QED BY <2>8, NumIs
<1>7. PICK x, y : x = MacdLine(ks)[n] /\ y = SignalLine(ks)[n]
  OBVIOUS
<1>8. MacdHistogram(ks)[n] = IF y.value THEN Num(x.is - y.is) ELSE NaN
  BY <1>2, <1>7, MacdIs
<1>9. y.value
  BY <1>8, NumIs
<1>10. MacdLine(ks)[n].value /\ y.is = 0
  BY <1>2, <1>5, <1>6, <1>7, <1>9, AveragedConstant DEF SignalLine
<1>11. x.is = 0
  BY <1>2, <1>6, <1>7, <1>10
<1>12. MacdHistogram(ks)[n] = Num(0)
  <2>1. x.is - y.is = 0
    BY <1>10, <1>11
  <2> QED BY <1>8, <1>9, <2>1
<1> QED BY <1>12, NumIs

-----------------------------------------------------------------------------
(* The indicators *)

\* The buffer holds the last bars, and what is reported is computed of them.
IndicatorsInv ==
  /\ seen \in 0..MaxBars
  /\ series \in Seq(AllBars)
  /\ Len(series) = IF seen < Buffer THEN seen ELSE Buffer
  /\ computed = FeaturesOf(series)
  /\ backtested = Precompute(series)

LEMMA InitIndicators ==
  ASSUME IndicatorsInit
  PROVE  IndicatorsInv
<1>1. series = <<>> /\ seen = 0 /\ computed = NaN /\ backtested = <<>>
  BY DEF IndicatorsInit
<1>2. series \in Seq(AllBars) /\ Len(series) = 0
  BY <1>1
<1>3. FeaturesOf(series) = NaN
  BY <1>2 DEF FeaturesOf
<1>4. Precompute(series) = <<>>
  <2>1. Precompute(series) \in [1..0 -> {}]
    BY <1>2 DEF Precompute
  <2>2. Precompute(series) \in Seq({})
    BY <2>1
  <2> QED BY <2>2
<1>5. 0 \in 0..MaxBars /\ 0 < Buffer
  BY IndicatorNumbers
<1> QED BY <1>1, <1>2, <1>3, <1>4, <1>5 DEF IndicatorsInv

\* A bar comes in last, and the oldest goes when there is no more room.
LEMMA BarComesLast ==
  ASSUME IndicatorsInv, NEW k \in AllBars, Bar(k)
  PROVE  /\ seen \in Nat /\ seen < MaxBars /\ seen' = seen + 1
         /\ series' \in Seq(AllBars)
         /\ Len(series') = IF seen' < Buffer THEN seen' ELSE Buffer
         /\ seen < Buffer => /\ Len(series) = seen /\ Len(series') = seen + 1
                             /\ \A i \in 1..seen : series'[i] = series[i]
<1>1. /\ seen \in Nat /\ series \in Seq(AllBars)
      /\ Len(series) = IF seen < Buffer THEN seen ELSE Buffer
  BY DEF IndicatorsInv
<1>2. Buffer \in Nat /\ Buffer >= 2
  BY IndicatorNumbers
<1>3. PICK all : all = Append(series, k)
  OBVIOUS
<1>4. /\ seen < MaxBars /\ seen' = seen + 1
      /\ series' = SubSeq(all, Greater(Len(all) - Buffer, 0) + 1, Len(all))
  BY <1>3 DEF Bar
<1>5. /\ all \in Seq(AllBars) /\ Len(all) = Len(series) + 1
      /\ \A i \in 1..Len(series) : all[i] = series[i]
      /\ \A i \in 1..Len(all) : all[i] \in AllBars
  BY <1>1, <1>3
<1>6. PICK n \in Nat : n = Len(all)
  BY <1>5
<1>7. PICK a \in Nat : a = Greater(n - Buffer, 0) + 1
  <2>1. Greater(n - Buffer, 0) + 1 \in Nat
    BY <1>2 DEF Greater
  <2> QED BY <2>1
<1>8. /\ a >= 1 /\ a <= n
      /\ n <= Buffer => a = 1
      /\ n > Buffer => n - a + 1 = Buffer
  BY <1>1, <1>2, <1>5, <1>6, <1>7 DEF Greater
<1>9. /\ series' \in Seq(AllBars) /\ Len(series') = n - a + 1
      /\ \A i \in 1..(n - a + 1) : series'[i] = all[a + i - 1]
  <2>1. series' = SubSeq(all, a, n)
    BY <1>4, <1>6, <1>7
  <2>2. \A i \in a..n : all[i] \in AllBars
    BY <1>5, <1>6, <1>8
  <2>3. a \in Int /\ n \in Int
    OBVIOUS
  <2>4. /\ SubSeq(all, a, n) \in Seq(AllBars)
        /\ Len(SubSeq(all, a, n)) = IF a <= n THEN n - a + 1 ELSE 0
        /\ \A i \in 1..(n - a + 1) : SubSeq(all, a, n)[i] = all[a + i - 1]
    BY <2>2, <2>3, SubSeqProperties
  <2> QED BY <1>8, <2>1, <2>4
<1>10. Len(series') = IF seen' < Buffer THEN seen' ELSE Buffer
  <2>1. CASE seen < Buffer
    BY <1>1, <1>2, <1>4, <1>5, <1>6, <1>8, <1>9, <2>1
  <2>2. CASE ~(seen < Buffer)
    BY <1>1, <1>2, <1>4, <1>5, <1>6, <1>8, <1>9, <2>2
  <2> QED BY <2>1, <2>2
<1>11. ASSUME seen < Buffer
       PROVE  /\ Len(series) = seen /\ Len(series') = seen + 1
              /\ \A i \in 1..seen : series'[i] = series[i]
  <2>1. Len(series) = seen /\ n = seen + 1 /\ a = 1
    BY <1>1, <1>2, <1>5, <1>6, <1>8, <1>11
  <2>2. \A i \in 1..seen : i \in 1..(n - a + 1) /\ a + i - 1 = i
    BY <1>1, <2>1
  <2> QED BY <1>1, <1>5, <1>9, <2>1, <2>2
<1> QED BY <1>1, <1>4, <1>9, <1>10, <1>11

LEMMA NextIndicators ==
  ASSUME IndicatorsInv, [IndicatorsNext]_indicatorVars
  PROVE  IndicatorsInv'
<1>1. ASSUME NEW k \in AllBars, Bar(k) PROVE IndicatorsInv'
  <2>1. /\ seen \in Nat /\ seen < MaxBars /\ seen' = seen + 1
        /\ series' \in Seq(AllBars)
        /\ Len(series') = IF seen' < Buffer THEN seen' ELSE Buffer
    BY <1>1, BarComesLast
  <2>2. seen' \in 0..MaxBars
    BY <2>1, IndicatorNumbers
  <2>3. computed' = FeaturesOf(series') /\ backtested' = Precompute(series')
    BY <1>1 DEF Bar
  <2> QED BY <2>1, <2>2, <2>3 DEF IndicatorsInv
<1>2. CASE UNCHANGED indicatorVars
  BY <1>2 DEF indicatorVars, IndicatorsInv, FeaturesOf, Compute, Precompute
<1> QED BY <1>1, <1>2 DEF IndicatorsNext

LEMMA PrecomputeIs ==
  ASSUME NEW ks \in Seq(AllBars), NEW n, n = Len(ks)
  PROVE  /\ n \in Nat /\ Len(Precompute(ks)) = n
         /\ Precompute(ks) = [i \in 1..n |-> Precompute(ks)[i]]
         /\ \A i \in 1..n : Precompute(ks)[i] =
              IF i < MinCandles THEN NaN
              ELSE Num(FeatureSet(Arrays(ks), i))
<1>1. n \in Nat
  OBVIOUS
<1>2. Precompute(ks) = [i \in 1..n |->
         IF i < MinCandles THEN NaN ELSE Num(FeatureSet(Arrays(ks), i))]
  BY DEF Precompute
<1> HIDE DEF Precompute
<1>3. /\ DOMAIN Precompute(ks) = 1..n
      /\ Precompute(ks) = [i \in 1..n |-> Precompute(ks)[i]]
      /\ \A i \in 1..n : Precompute(ks)[i] =
           IF i < MinCandles THEN NaN ELSE Num(FeatureSet(Arrays(ks), i))
  BY <1>2
<1> QED BY <1>1, <1>3, LengthIs

\* What the invariant says of the feature set.
LEMMA FeaturesAreSound ==
  ASSUME IndicatorsInv
  PROVE  /\ IndicatorsTypeOK
         /\ StrengthIsShare
         /\ RestSaysNothing
         /\ TrendHasDirection
         /\ BacktestSeesLive
<1>1. PICK n \in Nat : n = Len(series)
  BY DEF IndicatorsInv
<1>2. /\ seen \in 0..MaxBars /\ series \in Seq(AllBars)
      /\ n = IF seen < Buffer THEN seen ELSE Buffer
      /\ Buffer \in Nat /\ Buffer >= 2
      /\ computed = FeaturesOf(series) /\ backtested = Precompute(series)
  BY <1>1, IndicatorNumbers DEF IndicatorsInv
<1>3. ASSUME computed.value
      PROVE  /\ n >= 2 /\ n \in 1..n
             /\ computed.is = FeatureSet(Arrays(series), n)
  <2>1. n >= 2 /\ computed = Num(Compute(series))
    BY <1>1, <1>2, <1>3, NumIs DEF FeaturesOf
  <2> QED BY <1>1, <2>1, NumIs DEF Compute
<1>4. ASSUME computed.value
      PROVE  /\ computed.is.rsi = Rsi(series, RsiPeriod)[n]
             /\ computed.is.macd = MacdHistogram(series)[n]
             /\ computed.is.adx = Adx(series)[n]
             /\ computed.is.di = Directional(series)[n]
             /\ computed.is.position = BandPosition(series)[n]
             /\ computed.is.vwap = OverVwap(series)[n]
  BY <1>3, <1>4, FeaturesAre
<1>5. IndicatorsTypeOK
  <2>1. n \in 0..Buffer
    BY <1>2
  <2>2. series \in [1..n -> AllBars]
    BY <1>1, <1>2, LenProperties
  <2>3. series \in BoundedSeq(AllBars, Buffer)
    BY <2>1, <2>2 DEF BoundedSeq, SeqOf
  <2> QED BY <1>2, <2>3 DEF IndicatorsTypeOK
<1>6. StrengthIsShare
  <2> SUFFICES ASSUME computed.value, computed.is.rsi.value
               PROVE  LET r == computed.is.rsi.is IN
                      /\ r.up \in 0..r.of /\ r.of > 0
                      /\ r.up = r.of => Last(Moves(series)) >= 0
    BY DEF StrengthIsShare
  <2>1. n >= 2 /\ computed.is.rsi = Rsi(series, RsiPeriod)[n]
    BY <1>3, <1>4
  <2> QED BY <1>1, <1>2, <2>1, StrengthOf
<1>7. RestSaysNothing
  <2> SUFFICES ASSUME computed.value, AtRest(series)
               PROVE  LET f == computed.is IN
                      /\ ~f.position.value /\ ~f.di.value /\ ~f.adx.value
                      /\ ~f.vwap.value
                      /\ f.macd.value => f.macd.is = 0
    BY DEF RestSaysNothing, AtRest
  <2>1. n >= 1
    BY <1>3
  <2>2. ~BandPosition(series)[n].value
    BY <1>1, <1>2, <2>1, RestHasNoPosition
  <2>3. ~Directional(series)[n].value /\ ~Adx(series)[n].value
    BY <1>1, <1>2, <2>1, RestHasNoDirection
  <2>4. ~OverVwap(series)[n].value
    BY <1>1, <1>2, <2>1, RestHasNoVwap
  <2>5. MacdHistogram(series)[n].value => MacdHistogram(series)[n].is = 0
    BY <1>1, <1>2, <2>1, RestHasNoMomentum
  <2> QED BY <1>4, <2>2, <2>3, <2>4, <2>5
<1>8. TrendHasDirection
  <2> SUFFICES ASSUME computed.value, computed.is.adx.value
               PROVE  computed.is.di.value
    BY DEF TrendHasDirection
  <2> QED BY <1>1, <1>2, <1>3, <1>4, TrendOf
<1>9. BacktestSeesLive
  <2> SUFFICES ASSUME n >= MinCandles PROVE Last(backtested) = computed
    BY <1>1 DEF BacktestSeesLive
  <2>1. n >= 2 /\ n \in 1..n /\ ~(n < MinCandles)
    BY IndicatorNumbers
  <2>2. computed = Num(FeatureSet(Arrays(series), n))
    BY <1>1, <1>2, <2>1 DEF FeaturesOf, Compute
  <2>3. Last(backtested) = backtested[n]
    BY <1>1, <1>2, PrecomputeIs, LastIs
  <2>4. backtested[n] = Num(FeatureSet(Arrays(series), n))
    BY <1>1, <1>2, <2>1, PrecomputeIs
  <2> QED BY <2>2, <2>3, <2>4
<1> QED BY <1>5, <1>6, <1>7, <1>8, <1>9

LEMMA BarsStayKnown ==
  ASSUME IndicatorsInv, NEW k \in AllBars, Bar(k)
  PROVE  NoLookAhead
<1> SUFFICES ASSUME seen < Buffer
             PROVE  SubSeq(backtested', 1, Len(series)) = backtested
  BY DEF NoLookAhead
<1>1. /\ seen \in Nat /\ series' \in Seq(AllBars)
      /\ Len(series) = seen /\ Len(series') = seen + 1
      /\ \A i \in 1..seen : series'[i] = series[i]
  BY BarComesLast
<1>2. series \in Seq(AllBars) /\ backtested = Precompute(series)
  BY DEF IndicatorsInv
<1>3. backtested' = Precompute(series')
  BY DEF Bar
<1>4. PICK x, y, s, t, n : /\ x = backtested /\ y = backtested'
                           /\ s = series /\ t = series' /\ n = seen
  OBVIOUS
<1>5. /\ n \in Nat /\ Len(s) = n /\ Len(t) = n + 1
      /\ s \in Seq(AllBars) /\ t \in Seq(AllBars)
      /\ \A i \in 1..n : t[i] = s[i]
      /\ x = Precompute(s) /\ y = Precompute(t)
  BY <1>1, <1>2, <1>3, <1>4
<1>6. /\ x = [i \in 1..n |-> x[i]] /\ Len(x) = n
      /\ \A i \in 1..n : x[i] =
           IF i < MinCandles THEN NaN ELSE Num(FeatureSet(Arrays(s), i))
  BY <1>5, PrecomputeIs
<1>7. \A i \in 1..(n + 1) : y[i] =
        IF i < MinCandles THEN NaN ELSE Num(FeatureSet(Arrays(t), i))
  BY <1>5, PrecomputeIs
<1>8. ASSUME NEW i \in 1..n PROVE y[i] = x[i]
  <2>1. Grows(t, s) /\ i \in 1..Len(s) /\ i \in 1..(n + 1)
    BY <1>5 DEF Grows
  <2>2. FeatureSet(Arrays(t), i) = FeatureSet(Arrays(s), i)
    BY <2>1, FeaturesStay
  <2> QED BY <1>6, <1>7, <2>1, <2>2
<1>9. SubSeq(y, 1, n) = x
  <2> DEFINE S == {x[i] : i \in 1..n}
  <2>1. x \in [1..n -> S]
    BY <1>6
  <2>2. \A i \in 1..n : y[i] \in S
    BY <1>8
  <2> HIDE DEF S
  <2>3. x \in Seq(S)
    BY <1>5, <2>1
  <2>4. 1 \in Int /\ n \in Int /\ n - 1 + 1 = n
    BY <1>5
  <2>5. /\ SubSeq(y, 1, n) \in Seq(S)
        /\ Len(SubSeq(y, 1, n)) = IF 1 <= n THEN n ELSE 0
        /\ \A i \in 1..n : SubSeq(y, 1, n)[i] = y[1 + i - 1]
    BY <2>2, <2>4, SubSeqProperties
  <2>6. Len(SubSeq(y, 1, n)) = n
    BY <1>5, <2>5
  <2>7. \A i \in 1..n : SubSeq(y, 1, n)[i] = x[i]
    <3>1. \A i \in 1..n : 1 + i - 1 = i
      BY <1>5
    <3> QED BY <1>8, <2>5, <3>1
  <2> QED BY <1>6, <2>3, <2>5, <2>6, <2>7, SeqEqual
<1> QED BY <1>1, <1>4, <1>9
=============================================================================
