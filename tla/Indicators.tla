----------------------------- MODULE Indicators -----------------------------
(***************************************************************************)
(* The technical indicators the strategies decide on, computed over the    *)
(* buffer of a candle feed (sgr/market_data/feature_engineering.py), with  *)
(* short periods. A price is a number of ticks, an average is kept in      *)
(* 1/Unit ticks, exactly; a quotient is kept as the pair it is made of.    *)
(***************************************************************************)
EXTENDS Integers, Sequences, FiniteSets, SequencesExt, Functions

CONSTANTS
  Closes,       \* the closing prices of a bar
  Wicks,        \* how far high and low lie from the close
  Buffer,       \* bars the feed keeps
  MaxBars,      \* bound on the bars that come in
  Unit,         \* parts of a tick the averages are exact in
  MinCandles,   \* MIN_CANDLES, before which a backtest has no features
  RsiPeriod, AdxPeriod, BandPeriod, Fast, Slow, SignalPeriod

\* Unit is fine enough that the average over RsiPeriod of one tick is not 0.
ASSUME IndicatorsAssumption ==
  /\ Closes \subseteq Nat \ {0} /\ Wicks \subseteq Nat
  /\ Buffer \in Nat /\ Buffer >= 2 /\ MaxBars \in Nat
  /\ Unit \in Nat \ {0} /\ MinCandles \in Nat /\ MinCandles >= 2
  /\ {RsiPeriod, AdxPeriod, BandPeriod, Fast, Slow, SignalPeriod}
       \subseteq Nat \ {0}
  /\ RsiPeriod <= Unit

VARIABLES
  series,     \* the buffer the indicators are computed over
  seen,       \* bars that came in
  computed,   \* the feature set of the newest bar
  backtested  \* the feature sets of a backtest over the same bars

indicatorVars == <<series, seen, computed, backtested>>

\* No value yet: NaN in the arrays, None in the feature set.
NaN == [value |-> FALSE]

Num(x) == [value |-> TRUE, is |-> x]

AllBars == [close : Closes, wick : Wicks]

High(k) == k.close + k.wick

Low(k) == k.close - k.wick

\* A bar without a range had no trade.
Volume(k) == IF k.wick = 0 THEN 0 ELSE 1

-----------------------------------------------------------------------------

\* The sum of the values of s from place a to b.
Total(s, a, b) == SumFunctionOnSet(s, a..b)

Abs(x) == IF x < 0 THEN -x ELSE x

Greater(a, b) == IF a > b THEN a ELSE b

\* An average that starts with the mean of the first `period` values and moves
\* by num/den of the distance to each later one, NaN before.
Smoothed(s, period, num, den) ==
  LET avg[i \in DOMAIN s] ==
        IF i < period THEN NaN
        ELSE IF i = period THEN Num(Total(s, 1, period) \div period)
        ELSE Num((s[i] * num + avg[i - 1].is * (den - num)) \div den)
  IN avg

Ema(s, period) == Smoothed(s, period, 2, period + 1)

Sma(s, period) ==
  [i \in DOMAIN s |->
     IF i < period THEN NaN
     ELSE Num(Total(s, i - period + 1, i) \div period)]

Rma(s, period) == Smoothed(s, period, 1, period)

Ticks(ks) == [i \in 1..Len(ks) |-> ks[i].close * Unit]

TrueRange(ks) ==
  [i \in 1..Len(ks) |->
     LET k == ks[i]
         p == IF i = 1 THEN k.close ELSE ks[i - 1].close
     IN Unit * IF i = 1 THEN High(k) - Low(k)
               ELSE Greater(High(k) - Low(k),
                            Greater(Abs(High(k) - p), Abs(Low(k) - p)))]

Moves(ks) == [i \in 1..Len(ks) - 1 |-> ks[i + 1].close - ks[i].close]

\* Deviation: the losses are taken from the rises, too.
Rsi_Deviation(ks, period) ==
  LET m == Moves(ks)
      gains == Rma([i \in DOMAIN m |-> Unit * Greater(m[i], 0)], period)
      losses == Rma([i \in DOMAIN m |-> Unit * Greater(m[i], 0)], period)
  IN [i \in 1..Len(ks) |->
        IF i <= period THEN NaN
        ELSE LET g == gains[i - 1].is  l == losses[i - 1].is IN
             Num(IF l = 0 THEN [up |-> 1, of |-> 1]
                          ELSE [up |-> g, of |-> g + l])]

\* 100 - 100 / (1 + gain / loss): the share `up` of `of`. Without a loss the
\* quotient is infinite and the index 100, in a market that does not move too.
Rsi(ks, period) ==
  LET m == Moves(ks)
      gains == Rma([i \in DOMAIN m |-> Unit * Greater(m[i], 0)], period)
      losses == Rma([i \in DOMAIN m |-> Unit * Greater(-m[i], 0)], period)
  IN [i \in 1..Len(ks) |->
        IF i <= period THEN NaN
        ELSE LET g == gains[i - 1].is  l == losses[i - 1].is IN
             Num(IF l = 0 THEN [up |-> 1, of |-> 1]
                          ELSE [up |-> g, of |-> g + l])]

HasValue(s) == {i \in DOMAIN s : s[i].value}

\* How many values there are up to a place.
Rank(s, i) == Cardinality({j \in HasValue(s) : j <= i})

\* Values only where there are any, in their order.
Values(s) ==
  [n \in 1..Cardinality(HasValue(s)) |->
     s[CHOOSE i \in HasValue(s) : Rank(s, i) = n].is]

\* The average of the values that s has, put back where they came from.
Averaged(s, period, num, den) ==
  LET avg == Smoothed(Values(s), period, num, den)
  IN [i \in DOMAIN s |-> IF s[i].value THEN avg[Rank(s, i)] ELSE NaN]

\* The MACD line against its own average, the signal line.
MacdHistogram(ks) ==
  LET fast == Ema(Ticks(ks), Fast)
      slow == Ema(Ticks(ks), Slow)
      line == [i \in 1..Len(ks) |->
                 IF fast[i].value /\ slow[i].value
                   THEN Num(fast[i].is - slow[i].is) ELSE NaN]
      signal == Averaged(line, SignalPeriod, 2, SignalPeriod + 1)
  IN [i \in 1..Len(ks) |->
        IF signal[i].value THEN Num(line[i].is - signal[i].is) ELSE NaN]

Atr(ks, period) == Rma(TrueRange(ks), period)

\* The directional movements, smoothed, over the average range of the bar.
Directional(ks) ==
  LET up(i) == High(ks[i + 1]) - High(ks[i])
      down(i) == Low(ks[i]) - Low(ks[i + 1])
      plus == [i \in 1..Len(ks) - 1 |->
                 IF up(i) > down(i) /\ up(i) > 0 THEN up(i) * Unit ELSE 0]
      minus == [i \in 1..Len(ks) - 1 |->
                 IF down(i) > up(i) /\ down(i) > 0 THEN down(i) * Unit ELSE 0]
      atr == Rma(TrueRange(ks), AdxPeriod)
      p == Rma(plus, AdxPeriod)
      m == Rma(minus, AdxPeriod)
  IN [i \in 1..Len(ks) |->
        IF i > 1 /\ p[i - 1].value /\ atr[i].is > 0
          THEN Num([plus |-> p[i - 1].is, minus |-> m[i - 1].is,
                    atr |-> atr[i].is])
          ELSE NaN]

\* The directional index of a bar, in per cent, where a side moved at all.
Index(d) ==
  IF d.value /\ d.is.plus + d.is.minus > 0
    THEN Num((100 * Unit * Abs(d.is.plus - d.is.minus))
             \div (d.is.plus + d.is.minus))
    ELSE NaN

\* ADX averages the indices that exist; it has a value where its bar has one.
Adx(ks) ==
  LET di == Directional(ks)
  IN Averaged([i \in 1..Len(ks) |-> Index(di[i])], AdxPeriod, 1, AdxPeriod)

\* The mean and the variance of the last closes; the bands lie two deviations
\* from the mean, so that the lower one is 0 where mean^2 = 4 * variance.
Bands(ks) ==
  [i \in 1..Len(ks) |->
     IF i < BandPeriod THEN NaN
     ELSE LET close == [n \in 1..Len(ks) |-> ks[n].close]
              square == [n \in 1..Len(ks) |-> ks[n].close * ks[n].close]
              sum == Total(close, i - BandPeriod + 1, i)
              squares == Total(square, i - BandPeriod + 1, i)
          IN Num([mean |-> sum, variance |-> BandPeriod * squares - sum * sum])]

\* Where the close lies between the bands: the side of the mean it is on, and
\* whether it is outside them. None where the bands coincide, and where one of
\* them is 0, which the code takes for missing.
BandPosition(ks) ==
  LET bands == Bands(ks)
  IN [i \in 1..Len(ks) |->
        LET b == bands[i]
            off == BandPeriod * ks[i].close - b.is.mean
        IN IF /\ b.value
              /\ b.is.variance > 0
              /\ b.is.mean * b.is.mean # 4 * b.is.variance
             THEN Num([off |-> off, outside |-> off * off >= 4 * b.is.variance])
             ELSE NaN]

\* The Keltner channel: an average of the closes and a multiple of the range.
Keltner(ks) ==
  LET mid == Ema(Ticks(ks), Slow)
      atr == Atr(ks, Fast)
  IN [i \in 1..Len(ks) |->
        IF mid[i].value /\ atr[i].value
          THEN Num([upper |-> mid[i].is + 2 * atr[i].is,
                    lower |-> mid[i].is - 2 * atr[i].is])
          ELSE NaN]

\* Deviation: the price is weighted by the volume of all bars there are.
OverVwap_Deviation(ks) ==
  LET volume == SumFunction([n \in 1..Len(ks) |-> Volume(ks[n])])
      money == SumFunction([n \in 1..Len(ks) |->
                 Volume(ks[n]) * (High(ks[n]) + Low(ks[n]) + ks[n].close)])
  IN [i \in 1..Len(ks) |->
        IF volume = 0 THEN NaN ELSE Num(3 * volume * ks[i].close - money)]

\* The close against the price weighted by the volume of the bars so far.
OverVwap(ks) ==
  [i \in 1..Len(ks) |->
     LET volume == SumFunction([n \in 1..i |-> Volume(ks[n])])
         money == SumFunction([n \in 1..i |->
                    Volume(ks[n]) * (High(ks[n]) + Low(ks[n]) + ks[n].close)])
     IN IF volume = 0 THEN NaN ELSE Num(3 * volume * ks[i].close - money)]

OnBalance(ks) ==
  LET m == Moves(ks)
      signed == [i \in DOMAIN m |->
                   IF m[i] > 0 THEN Unit * Volume(ks[i + 1])
                   ELSE IF m[i] < 0 THEN -Unit * Volume(ks[i + 1]) ELSE 0]
  IN [i \in 1..Len(ks) |-> Total(signed, 1, i - 1)]

\* What a series is above its own average, and the average; None where that is
\* missing or 0.
OverAverage(s) ==
  LET avg == Sma(s, BandPeriod)
  IN [i \in DOMAIN s |->
        IF avg[i].value /\ avg[i].is # 0
          THEN Num([over |-> s[i] - avg[i].is, avg |-> Abs(avg[i].is)])
          ELSE NaN]

\* The volume of a bar against the average of the last ones.
VolumeRatio(ks) ==
  LET avg == Sma([i \in 1..Len(ks) |-> Unit * Volume(ks[i])], BandPeriod)
  IN [i \in 1..Len(ks) |->
        IF avg[i].value /\ avg[i].is > 0
          THEN Num([now |-> Unit * Volume(ks[i]), avg |-> avg[i].is])
          ELSE NaN]

Returns(ks, bars) ==
  [i \in 1..Len(ks) |->
     IF i > bars THEN Num(ks[i].close - ks[i - bars].close) ELSE NaN]

\* The arrays of all indicators, with a place for every bar.
Arrays(ks) ==
  [rsi |-> Rsi(ks, RsiPeriod), macd |-> MacdHistogram(ks),
   atr |-> Atr(ks, AdxPeriod), adx |-> Adx(ks), di |-> Directional(ks),
   position |-> BandPosition(ks), keltner |-> Keltner(ks),
   vwap |-> OverVwap(ks), obv |-> OverAverage(OnBalance(ks)),
   ratio |-> VolumeRatio(ks), ret |-> Returns(ks, 1)]

\* The feature set of bar i.
FeatureSet(arrays, i) == [f \in DOMAIN arrays |-> arrays[f][i]]

\* The feature set of the newest bar: the last place of each array.
Compute(ks) == FeatureSet(Arrays(ks), Len(ks))

\* A backtest computes the arrays once over all its bars, and takes for each
\* bar, from the MinCandles-th on, its place in them.
Precompute(ks) ==
  LET arrays == Arrays(ks)
  IN [i \in 1..Len(ks) |->
        IF i < MinCandles THEN NaN ELSE Num(FeatureSet(arrays, i))]

-----------------------------------------------------------------------------

\* Two bars are needed to compute anything.
FeaturesOf(ks) == IF Len(ks) >= 2 THEN Num(Compute(ks)) ELSE NaN

IndicatorsInit ==
  series = <<>> /\ seen = 0 /\ computed = NaN /\ backtested = <<>>

\* A poll brings the next bar; the buffer drops its oldest, and the indicators
\* are computed over what it holds, as a backtest over the same bars does.
Bar(k) ==
  /\ seen < MaxBars
  /\ seen' = seen + 1
  /\ LET all == Append(series, k) IN
     series' = SubSeq(all, Greater(Len(all) - Buffer, 0) + 1, Len(all))
  /\ computed' = FeaturesOf(series')
  /\ backtested' = Precompute(series')

IndicatorsNext == \E k \in AllBars : Bar(k)

IndicatorsTypeOK == series \in BoundedSeq(AllBars, Buffer) /\ seen \in 0..MaxBars

-----------------------------------------------------------------------------

Least == CHOOSE c \in Closes : \A d \in Closes : c <= d

Most == CHOOSE c \in Closes : \A d \in Closes : c >= d

\* The market upside down: every rise a fall of the same size.
Mirror(ks) ==
  [i \in 1..Len(ks) |-> [ks[i] EXCEPT !.close = Least + Most - @]]

\* x is y with the sign turned, or both are missing.
Negated(x, y) == x.value = y.value /\ (x.value => x.is = -y.is)

\* f and g read the same with the sides exchanged.
Opposite(f, g) ==
  /\ f.rsi.value = g.rsi.value
  /\ (f.rsi.value /\ f.rsi # Num([up |-> 1, of |-> 1])
                  /\ g.rsi # Num([up |-> 1, of |-> 1]))
       => f.rsi.is.of = g.rsi.is.of /\ f.rsi.is.up = f.rsi.is.of - g.rsi.is.up
  /\ Negated(f.macd, g.macd) /\ Negated(f.vwap, g.vwap)
  /\ Negated(f.ret, g.ret)
  /\ f.obv.value = g.obv.value
  /\ f.obv.value => f.obv.is = [g.obv.is EXCEPT !.over = -@]
  /\ f.adx = g.adx /\ f.atr = g.atr /\ f.ratio = g.ratio
  /\ f.di.value = g.di.value
  /\ f.di.value => f.di.is.plus = g.di.is.minus /\ f.di.is.minus = g.di.is.plus

(* A market and its mirror image read the same with the sides exchanged: the
   momentum of one is the weakness of the other, so that no side is preferred
   by the arithmetic. Not so where the closes never fell: the index is 100
   then, in the mirror image of a market at rest as well as in the market
   (calc_rsi, calc_macd, calc_adx, calc_vwap, calc_obv). *)
MirrorsAgree ==
  computed.value => Opposite(computed.is, Compute(Mirror(series)))

(* The index of relative strength is a share, and says 100 only where nothing
   was lost (calc_rsi's infinite quotient). *)
StrengthIsShare ==
  computed.value /\ computed.is.rsi.value =>
    LET r == computed.is.rsi.is IN
    /\ r.up \in 0..r.of /\ r.of > 0
    /\ r.up = r.of => Last(Moves(series)) >= 0

(* A market at rest has no position in its bands, no direction and no trend
   strength, whatever the index of strength says: what the strategies need to
   decide is missing (the None of bb_position, di_plus and adx_14). *)
RestSaysNothing ==
  computed.value /\ (\A i \in 1..Len(series) :
                       series[i] = [close |-> series[1].close, wick |-> 0]) =>
    LET f == computed.is IN
    /\ ~f.position.value /\ ~f.di.value /\ ~f.adx.value /\ ~f.vwap.value
    /\ f.macd.value => f.macd.is = 0

(* The trend strength of a bar never comes without its direction: a trend is
   told up or down (calc_adx fills both from the same bars). *)
TrendHasDirection ==
  computed.value /\ computed.is.adx.value => computed.is.di.value

(* Over the same bars a backtest and the live feed decide on the same numbers:
   once there are MinCandles bars, the arrays of the simulator give the last
   one the feature set the engineer computes (_precompute_all_features against
   compute). *)
BacktestSeesLive ==
  Len(series) >= MinCandles => Last(backtested) = computed

(* No look-ahead: a bar that comes later changes nothing a backtest knew at the
   bars before it, although all arrays are computed over the whole series at
   once (the docstring of _precompute_all_features calls them causal). *)
NoLookAhead ==
  seen < Buffer => SubSeq(backtested', 1, Len(series)) = backtested

IndicatorsSpec == IndicatorsInit /\ [][IndicatorsNext]_indicatorVars
=============================================================================
