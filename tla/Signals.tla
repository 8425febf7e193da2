------------------------------ MODULE Signals ------------------------------
(***************************************************************************)
(* From the features of a bar to the signal of a trading cycle             *)
(* (sgr/strategy/engine.py, regime_classifier.py, the five strategies,     *)
(* market_data/feature_store.py and orchestrator/engine.py). A feed saves  *)
(* the features of a bar and announces it; the orchestrator works off the  *)
(* announcements, each on whatever features are the latest by then, and    *)
(* reads them a second time for the price of the order.                    *)
(* The indicators of a bar come from small sets of values on both sides of *)
(* the thresholds of the code; scores count in quarter points.             *)
(***************************************************************************)
EXTENDS Integers, Sequences, FiniteSets

CONSTANTS
  AdxValues,      \* adx_14
  RsiValues,      \* rsi_14
  PositionValues, \* bb_position, in per cent
  WidthValues,    \* bb_width, per mille
  AtrValues,      \* atr_pct, per mille
  VolumeValues,   \* volume_ratio, in per cent
  ReturnSize,     \* the size of returns_5 and returns_10, per mille
  MaxEvents       \* bound on the bars a feed announces

ASSUME SignalConstants ==
  /\ AdxValues \cup RsiValues \cup PositionValues \cup WidthValues
       \cup AtrValues \cup VolumeValues \subseteq Nat
  /\ {ReturnSize, MaxEvents} \subseteq Nat

Long == "long"

Short == "short"

NoSignal == [side |-> "none"]

\* The features of a bar; a market that hardly moves is hardly traded.
Bundles == {b \in [adx : AdxValues, rsi : RsiValues, position : PositionValues,
                width : WidthValues, atr : AtrValues, volume : VolumeValues,
                di : {-1, 1}, ema : {-1, 1}, macd : {-1, 1}, ret : {-1, 1}] :
           b.atr < 12 => b.volume < 100}

\* Before the first bar.
Nothing == [rsi |-> 0]

VARIABLES
  market,     \* the features of odd bars; even bars are their mirror image
  headBar,     \* the newest bar of the feed
  latest,     \* the bar whose features the store holds, 0: none
  events,  \* candle events not yet worked off, by bar
  inCycle,  \* the cycle the orchestrator is in
  sent        \* the signal the last cycle was priced with

signalVars == <<market, headBar, latest, events, inCycle, sent>>

NoCycle == [bar |-> 0, event |-> 0, signal |-> NoSignal]

-----------------------------------------------------------------------------

\* The market upside down.
Mirrored(b) ==
  [b EXCEPT !.rsi = 100 - @, !.position = 100 - @,
            !.di = -@, !.ema = -@, !.macd = -@, !.ret = -@]

Features(bar) == IF bar % 2 = 1 THEN market ELSE Mirrored(market)

HighVolatility == 50

\* The regime, from the indicators alone: volatility first, then a breakout
\* from wide bands, a trend, a range; UNKNOWN between range and trend.
ClassifyRegime(b) ==
  IF b.atr > HighVolatility THEN "high_volatility"
  ELSE IF b.width > 45 /\ (b.position <= 5 \/ b.position >= 95)
    THEN "breakout"
  ELSE IF b.adx > 25 THEN IF b.di > 0 THEN "trending_up" ELSE "trending_down"
  ELSE IF b.adx < 20 THEN IF b.atr < 12 THEN "low_volatility" ELSE "ranging"
  ELSE "unknown"

\* What a backtest takes the regime for: trends need the strength index on
\* their side, everything undecided is a range, and there is no breakout.
DetectRegimeSimple(b) ==
  IF b.adx > 25 /\ b.rsi > 55 /\ b.di > 0 THEN "trending_up"
  ELSE IF b.adx > 25 /\ b.rsi < 45 /\ b.di < 0 THEN "trending_down"
  ELSE IF b.adx < 20 THEN "ranging"
  ELSE IF b.atr > HighVolatility THEN "high_volatility"
  ELSE "ranging"

\* n points where a condition holds.
When(c, n) == IF c THEN n ELSE 0

\* A signal, if the points reach 55 % of the maximum.
Rated(strategy, side, points, max) ==
  IF points * 100 >= 55 * max
    THEN [side |-> side, strategy |-> strategy, points |-> points, max |-> max]
    ELSE NoSignal

\* The better one of two ratings with the same maximum; none on a tie.
Clearer(strategy, long, short, max) ==
  IF long > short THEN Rated(strategy, Long, long, max)
  ELSE IF short > long THEN Rated(strategy, Short, short, max)
  ELSE NoSignal

-----------------------------------------------------------------------------
(* The strategies, each side as the code scores it. A live feature set has   *)
(* no order book, so its imbalance never counts.                             *)

ReversionLong(b) ==
  When(b.rsi < 35, 10) + When(b.rsi \in 35..39, 4)
  + When(b.position < 15, 8) + When(b.position \in 15..24, 4)
  + When(b.macd < 0, 6) + When(b.width < 40, 4) + When(b.adx < 20, 2)

ReversionShort(b) ==
  When(b.rsi > 65, 10) + When(b.rsi \in 61..65, 4)
  + When(b.position > 85, 8) + When(b.position \in 76..85, 4)
  + When(b.macd > 0, 6) + When(b.width < 40, 4) + When(b.adx < 20, 2)

MeanReversion(b) ==
  Clearer("mean_reversion_v1", ReversionLong(b), ReversionShort(b), 34)

\* Half the confidence where the trend is weaker than the strategy wants.
Halved(b, max) == IF b.adx < 25 THEN 2 * max ELSE max

TrendLong(b) ==
  Rated("trend_following_v1", Long,
        When(b.rsi > 50, 8) + When(b.rsi > 60, 2) + When(b.ema > 0, 10)
        + When(b.adx >= 25, 6) + When(b.adx \in 20..24, 3)
        + When(b.ema > 0, 4) + When(b.volume >= 80, 4)
        + When(b.position \in 41..84, 2) + When(b.di > 0, 4),
        Halved(b, 36))

TrendShort(b) ==
  Rated("trend_following_v1", Short,
        When(b.rsi < 50, 8) + When(b.rsi < 40, 2) + When(b.ema < 0, 10)
        + When(b.adx >= 25, 6) + When(b.adx \in 20..24, 3)
        + When(b.ema < 0, 4) + When(b.volume >= 80, 4)
        + When(b.position \in 16..59, 2) + When(b.di < 0, 4),
        Halved(b, 36))

TrendFollowing(b, regime) ==
  IF regime = "trending_up" THEN TrendLong(b)
  ELSE IF regime = "trending_down" THEN TrendShort(b) ELSE NoSignal

Return(b) == b.ret * ReturnSize

MomentumLong(b) ==
  Rated("momentum_v1", Long,
        When(Return(b) > 10, 10) + When(Return(b) \in 1..10, 4)
        + When(Return(b) > 0, 6) + When(b.rsi \in 56..79, 8)
        + When(b.macd > 0, 8) + When(b.volume >= 110, 6) + When(b.adx > 18, 2),
        40)

\* Deviation: the strength index is tested against the bounds of the long side.
MomentumShort_Deviation(b) ==
  Rated("momentum_v1", Short,
        When(Return(b) < -10, 10) + When(-Return(b) \in 1..10, 4)
        + When(Return(b) < 0, 6) + When(b.rsi \in 56..79, 8)
        + When(b.macd < 0, 8) + When(b.volume >= 110, 6) + When(b.adx > 18, 2),
        40)

MomentumShort(b) ==
  Rated("momentum_v1", Short,
        When(Return(b) < -10, 10) + When(-Return(b) \in 1..10, 4)
        + When(Return(b) < 0, 6) + When(b.rsi \in 21..44, 8)
        + When(b.macd < 0, 8) + When(b.volume >= 110, 6) + When(b.adx > 18, 2),
        40)

Momentum(b, regime) ==
  IF regime = "trending_up" THEN MomentumLong(b)
  ELSE IF regime = "trending_down" THEN MomentumShort(b) ELSE NoSignal

Breakout(b) ==
  LET open == When(b.width >= 45, 8 + 6) + When(b.volume >= 120, 6)
              + When(b.adx > 18, 2)
  IN Clearer("breakout_v1",
             open + When(b.position >= 90, 10) + When(b.rsi \in 56..74, 4),
             open + When(b.position <= 10, 10) + When(b.rsi \in 26..44, 4),
             36)

\* The wilder the market, the less a momentum counts: its maximum grows with
\* the range of the bars beyond the reference.
VolatilityMomentum(b) ==
  LET points(sign) ==
        When(sign * Return(b) > 20, 10) + When(sign * Return(b) > 0, 6)
        + When(IF sign > 0 THEN b.rsi \in 59..77 ELSE b.rsi \in 23..41, 8)
        + When(sign * b.macd > 0, 8) + When(b.volume >= 130, 8)
      damped == IF b.atr > HighVolatility THEN b.atr ELSE HighVolatility
  IN Clearer("volatility_adjusted_momentum_v1",
             HighVolatility * points(1), HighVolatility * points(-1),
             40 * damped)

\* What the strategies that are meant for a regime say of a bar.
Opinions(b, regime) ==
  {o \in CASE regime = "ranging" -> {MeanReversion(b)}
           [] regime \in {"trending_up", "trending_down"} ->
                {TrendFollowing(b, regime), Momentum(b, regime)}
           [] regime = "breakout" -> {Breakout(b)}
           [] regime = "high_volatility" -> {VolatilityMomentum(b)}
           [] OTHER -> {} : o # NoSignal}

\* Opposite sides cancel; the clearest of one side speaks for all.
Aggregate(opinions) ==
  IF \/ opinions = {}
     \/ {o.side : o \in opinions} = {Long, Short} THEN NoSignal
  ELSE CHOOSE o \in opinions :
         \A p \in opinions : o.points * p.max >= p.points * o.max

-----------------------------------------------------------------------------

SignalsInit ==
  /\ market = Nothing
  /\ headBar = 0 /\ latest = 0 /\ events = <<>>
  /\ inCycle = NoCycle
  /\ sent = [signal |-> NoSignal, event |-> 0, bar |-> 0, priced |-> 0]

\* A feed stores the features b of its newest bar and announces the bar. A
\* failing store ends the poll before the announcement.
SaveFeatures(b) ==
  /\ headBar < MaxEvents
  /\ market' = IF headBar = 0 THEN b ELSE market
  /\ headBar' = headBar + 1
  /\ latest' = headBar + 1
  /\ events' = Append(events, headBar + 1)
  /\ UNCHANGED <<inCycle, sent>>

\* A feed that is silent for longer than the life of its features loses them.
Expire ==
  /\ latest > 0
  /\ latest' = 0
  /\ UNCHANGED <<market, headBar, events, inCycle, sent>>

\* A cycle begins with the oldest announcement, on the latest features. Which
\* strategies are active, and which the gate lets trade the symbol, is up to
\* the registry.
Process(muted) ==
  /\ inCycle = NoCycle /\ events # <<>>
  /\ events' = Tail(events)
  /\ LET regime == ClassifyRegime(Features(latest))
         heard == {o \in Opinions(Features(latest), regime) :
                     o.strategy \notin muted}
     IN inCycle' = IF latest = 0 \/ Aggregate(heard) = NoSignal THEN NoCycle
                 ELSE [event |-> events[1], bar |-> latest,
                       signal |-> Aggregate(heard)]
  /\ UNCHANGED <<market, headBar, latest, sent>>

\* The price and the range for the order are read anew; features that are gone
\* by now fail the cycle.
PriceSignal ==
  /\ inCycle # NoCycle
  /\ inCycle' = NoCycle
  /\ sent' = IF latest = 0 THEN sent
             ELSE [signal |-> inCycle.signal, event |-> inCycle.event,
                   bar |-> inCycle.bar, priced |-> latest]
  /\ UNCHANGED <<market, headBar, latest, events>>

SignalsNext ==
  \/ \E b \in IF headBar = 0 THEN Bundles ELSE {market} : SaveFeatures(b)
  \/ Expire
  \/ \E muted \in {{}, {"momentum_v1"}} : Process(muted)
  \/ PriceSignal

SignalsSpec == SignalsInit /\ [][SignalsNext]_signalVars

SignalsTypeOK ==
  /\ headBar = 0 <=> market = Nothing
  /\ headBar \in 0..MaxEvents /\ latest \in 0..headBar
  /\ \A i \in 1..Len(events) : events[i] \in 1..MaxEvents
  /\ inCycle.bar \in 0..MaxEvents /\ sent.priced \in 0..MaxEvents

-----------------------------------------------------------------------------

Opposed(o) ==
  IF o = NoSignal THEN o
  ELSE [o EXCEPT !.side = IF @ = Long THEN Short ELSE Long]

(* The two sides of the strategies are twins: a market turned upside down is
   judged as the market is, with long and short exchanged (the pairs of
   _score_long and _score_short, _evaluate_long and _evaluate_short). *)
SidesAreTwins ==
  market # Nothing =>
    LET b == market  c == Mirrored(market) IN
    Opinions(c, ClassifyRegime(c)) =
      {Opposed(o) : o \in Opinions(b, ClassifyRegime(b))}

(* The strategies of one regime never contradict each other, so that no signal
   is lost to a conflict: _aggregate's rejection has no case. *)
StrategiesAgree ==
  market # Nothing =>
    \A r \in {ClassifyRegime(market), DetectRegimeSimple(market)} :
      Cardinality({o.side : o \in Opinions(market, r)}) <= 1

(* What a backtest trades in a bar that is a trend to both, live trading does
   not trade the other way: the simplified regime of a backtest
   (_detect_regime_simple) and the live one never name opposite trends, and no
   strategy signals opposite sides under the two. *)
BacktestSameSide ==
  market # Nothing =>
    LET live == ClassifyRegime(market)
        tested == DetectRegimeSimple(market)
    IN /\ {live, tested} # {"trending_up", "trending_down"}
       /\ \A o \in Opinions(market, live), p \in Opinions(market, tested) :
            o.strategy = p.strategy => o.side = p.side

(* An order is priced with features no older than those of its signal, and
   these are no older than the bar it was announced for: a late event is
   decided on newer features, never on older ones (the two get_latest calls of
   a cycle, with the feed between them). *)
PricedNoOlder ==
  /\ sent.signal # NoSignal => sent.priced >= sent.bar /\ sent.bar >= sent.event
  /\ inCycle # NoCycle => inCycle.bar >= inCycle.event

(* A signal never goes against the trend of the bar it was taken from. *)
WithTheTrend ==
  sent.signal # NoSignal =>
    <<ClassifyRegime(Features(sent.bar)), sent.signal.side>> \notin
      {<<"trending_up", Short>>, <<"trending_down", Long>>}
=============================================================================
