----------------------------- MODULE GridDesign -----------------------------
(***************************************************************************)
(* The design of a futures grid before it trades: the score of the market  *)
(* (market_data/grid_suitability.py), the parameters of a strategy         *)
(* (strategy/futures_grid.py), the risk engine of grids                    *)
(* (risk/grid_risk.py), and the backtest of the parameters, bar by bar, on *)
(* the window they come from and on the one after it                       *)
(* (backtesting/grid_simulator.py, strategy/grid_validation_runner.py).    *)
(* Prices are ticks of one per cent of the price a grid is designed at;    *)
(* money and rates count in basis points of a tick; a cell holds one lot.  *)
(***************************************************************************)
EXTENDS Integers, FiniteSets, Functions

CONSTANTS
  Ranges,        \* atr_14, in ticks
  Multiplier,    \* range_atr_multiplier
  Count,         \* grid_count
  Leverage, TakeTicks, StopTicks,
  HoldingBars,   \* maximum_holding_time
  BreakoutShare, \* range_breakout_buffer_factor, in per cent
  MakerRate, TakerRate, SlipRate, FundingRate,
  PaperSlip,     \* paper_slippage_pct of the cost guard
  FundingBars,   \* bars of a funding interval
  SafetyMargin,  \* cost_guard_safety_margin, in per cent
  GridCloses,    \* closes of the bars of a backtest
  GridWicks,     \* how far a bar reaches beyond its body
  WindowBars,    \* bars of the window parameters are made from
  OutBars,       \* bars of the window after it
  CyclesWanted   \* min_trades of the first window

ASSUME GridDesignAssumption ==
  /\ Ranges \cup GridCloses \subseteq Nat \ {0} /\ GridWicks \subseteq Nat
  /\ {Multiplier, Leverage, HoldingBars, FundingBars, WindowBars, OutBars,
      CyclesWanted} \subseteq Nat \ {0}
  /\ Count \in Nat \ {0, 1}
  /\ {TakeTicks, StopTicks, BreakoutShare, MakerRate, TakerRate, SlipRate,
      PaperSlip, FundingRate} \subseteq Nat
  /\ SafetyMargin >= 100

VARIABLES
  stage,    \* idle, judged, designed, running, ended, done
  setting,  \* the market a strategy judged, NoSetting once it is built upon
  grid,     \* its parameters, NoDesign before they are built
  passed,   \* the risk engine approved them
  frame,    \* 1: the window they come from, 2: the one after it
  barNo,    \* bars of the window so far
  mark,     \* the last close
  holding,  \* cells that are open
  sums,    \* trades, gross and fees of the window, and its funding
  realized, \* realized_pnl as the simulator counts it
  flow,     \* what the fills of the window paid, and the slip of its entries
  reason,   \* close_reason
  proof     \* the windows that confirmed an edge

designVars ==
  <<stage, setting, grid, passed, frame, barNo, mark, holding, sums, realized,
    flow, reason, proof>>

Price == 100

Money == 10000

NoSetting == [atr |-> 0]

NoDesign == [side |-> 0]

NoSums == [trades |-> 0, gross |-> 0, fees |-> 0, funding |-> 0]

NoFlow == [paid |-> 0, slipped |-> 0]

-----------------------------------------------------------------------------
(* The score of a market, in per cent.                                       *)

Settings == [atr : Ranges \cup {1, 9}, adx : {15, 20, 25, 30, 35},
             width : {0, 6, 15}, volume : {50, 100}, funding : {0, 25, 50},
             gap : {-20, 0, 20}]

Clamp(x) == IF x < 0 THEN 0 ELSE IF x > 100 THEN 100 ELSE x

\* Calm between ADX 10 and 30, and narrow bands below 15 per cent.
RangeQuality(s) ==
  Clamp((Clamp(100 - 5 * (s.adx - 10)) + Clamp(100 - (20 * s.width) \div 3))
          \div 2)

\* Best in the middle between 0.3 and 8 per cent, nothing beyond.
VolatilityQuality(s) ==
  IF s.atr > 8 THEN 0
  ELSE LET off == 1000 * s.atr - 4150
       IN  Clamp(100 - ((IF off < 0 THEN -off ELSE off) * 100) \div 3850)

FundingScore(s) == IF s.funding >= 50 THEN 0 ELSE 100 - 2 * s.funding

BreakoutRisk(s) == Clamp(((IF s.gap < 0 THEN -s.gap ELSE s.gap) * 100) \div 40)

Strengths(s) ==
  <<RangeQuality(s), VolatilityQuality(s), Clamp(s.volume), FundingScore(s)>>

Weakest(s) == CHOOSE x \in {Strengths(s)[i] : i \in 1..4} :
                \A i \in 1..4 : x <= Strengths(s)[i]

\* Half the mean of the strengths, three tenths of the weakest, less a fifth of
\* the mean of the risks; in thousandths of a per cent.
Composite(s) ==
  LET strong == Strengths(s)
  IN  125 * (strong[1] + strong[2] + strong[3] + strong[4])
        + 300 * Weakest(s)
        - 100 * (Clamp(100 - RangeQuality(s)) + BreakoutRisk(s))

IsSuitable(s) == Composite(s) >= 55000

\* In a drift long only if it goes up, else long.
SuggestedDirection(s) ==
  IF s.adx >= 20 /\ s.gap <= 0 THEN -1 ELSE 1

\* What the three strategies decide: long, short, or what is suggested.
DecideDirection(strategy, s) ==
  IF ~IsSuitable(s) THEN 0
  ELSE CASE strategy = "long" -> 1
         [] strategy = "short" -> -1
         [] strategy = "adaptive" -> SuggestedDirection(s)

-----------------------------------------------------------------------------
(* The parameters of a grid, and its cells.                                  *)

Higher(a, b) == IF a > b THEN a ELSE b

\* Around the price by a multiple of the range, at least half the price.
BuildParameters(side, atr) ==
  [side |-> side,
   lower |-> Higher(Price - atr * Multiplier, Price \div 2),
   upper |-> Price + atr * Multiplier,
   target |-> Price + side * TakeTicks,
   stop |-> Price - side * StopTicks]

\* Arithmetic levels.
LevelAt(g, i) == g.lower + ((g.upper - g.lower) * i) \div (Count - 1)

GridSpacing(g) == LevelAt(g, 1) - LevelAt(g, 0)

Cells == 0..(Count - 2)

EntryOf(g, i) == IF g.side = 1 THEN LevelAt(g, i) ELSE LevelAt(g, i + 1)

ExitOf(g, i) == IF g.side = 1 THEN LevelAt(g, i + 1) ELSE LevelAt(g, i)

EntriesOf(g, S) == SumFunction([i \in S |-> EntryOf(g, i)])

\* A fill is always worse than its level, by the slippage; in money.
Slipped(g, price, opening) ==
  price * (Money + (IF opening = (g.side = 1) THEN SlipRate ELSE -SlipRate))

\* Fees of a cell that is closed at a price in money.
CloseFees(g, i, exit, rate) == EntryOf(g, i) * rate + (exit * rate) \div Money

\* The profit of a cell counts from its level, not from the price of its fill.
GrossOf(g, i, exit) == g.side * (exit - EntryOf(g, i) * Money)

-----------------------------------------------------------------------------
(* What the risk engine asks of a new grid and of a running one.             *)

\* The costs of a cycle with a margin, against the spacing of the levels.
CoversCosts(g) ==
  (MakerRate + TakerRate + 2 * PaperSlip) * SafetyMargin * Price
    <= 100 * GridSpacing(g) * Money

\* What one interval of funding takes, against half of what a cycle brings.
FundingLeavesEdge(g, rate) == 2 * rate * Price <= GridSpacing(g) * Money

\* A request to open a grid: grids open and bound, the exposure of positions,
\* which may be unknown, and the state of the market, which may be too.
NotKnown == -1

Asks == [open : {0, 1}, bound : {0, 1}, directional : {NotKnown, 0, 1},
         liquid : BOOLEAN, rate : {0, FundingRate, Money}, calm : BOOLEAN]

\* At most one open grid, two of exposure, all positions counted; a leverage
\* that is liquidated 15 per cent away, a liquid and calm market, and costs
\* that are covered.
Approves(g, ask) ==
  /\ Leverage <= 5 /\ 15 * Leverage <= 100 /\ Count <= 20
  /\ ask.open < 1
  /\ ask.bound + 1 <= 2
  /\ ask.directional # NotKnown /\ ask.bound + 1 + ask.directional <= 2
  /\ ask.liquid /\ ask.calm
  /\ CoversCosts(g) /\ FundingLeavesEdge(g, ask.rate)

\* Where the range counts as left.
BrokenOut(g, price) ==
  LET buffer == (g.upper - g.lower) * BreakoutShare
  IN  \/ 100 * price < 100 * g.lower - buffer
      \/ 100 * price > 100 * g.upper + buffer

\* Deviation: a short grid takes its profit where a long one would.
Violations_Deviation(g, price, elapsed) ==
  {v \in {"stop_loss", "take_profit", "range_breakout", "max_holding_time"} :
     \/ v = "stop_loss" /\ g.side * price <= g.side * g.stop
     \/ v = "take_profit" /\ price >= g.target
     \/ v = "range_breakout" /\ BrokenOut(g, price)
     \/ v = "max_holding_time" /\ elapsed >= HoldingBars}

\* What closes a running grid at a price, besides its losses and the market.
Violations(g, price, elapsed) ==
  {v \in {"stop_loss", "take_profit", "range_breakout", "max_holding_time"} :
     \/ v = "stop_loss" /\ g.side * price <= g.side * g.stop
     \/ v = "take_profit" /\ g.side * price >= g.side * g.target
     \/ v = "range_breakout" /\ BrokenOut(g, price)
     \/ v = "max_holding_time" /\ elapsed >= HoldingBars}

-----------------------------------------------------------------------------
(* One bar of a backtest.                                                    *)

GridBars == {[open |-> mark, close |-> c,
          low |-> (IF c < mark THEN c ELSE mark) - w,
          high |-> Higher(c, mark) + v] :
           c \in GridCloses, w \in GridWicks, v \in GridWicks}

Touched(bar, price) == bar.low <= price /\ price <= bar.high

\* A rising bar closes the cells of a long grid before it opens others, a
\* falling bar after; a short grid the other way round.
ClosesFirst(bar) == (bar.close >= bar.open) = (grid.side = 1)

Opened(bar, S) == {i \in Cells \ S : Touched(bar, EntryOf(grid, i))}

Cycled(bar, S) == {i \in S : Touched(bar, ExitOf(grid, i))}

\* The cells a bar opens, closes and leaves open.
Filled(bar) ==
  IF ClosesFirst(bar)
    THEN LET gone == Cycled(bar, holding)
             new == Opened(bar, holding \ gone)
         IN  [new |-> new, gone |-> gone, left |-> (holding \ gone) \cup new]
    ELSE LET new == Opened(bar, holding)
             gone == Cycled(bar, holding \cup new)
         IN  [new |-> new, gone |-> gone, left |-> (holding \cup new) \ gone]

\* The mean entry of the open cells less the share that is margin; in money.
LiquidationPrice(g, S) ==
  (EntriesOf(g, S) * Money * (Leverage - g.side))
     \div (Cardinality(S) * Leverage)

IsLiquidated(bar, S) ==
  /\ S # {} /\ Leverage > 1
  /\ IF grid.side = 1 THEN bar.low * Money <= LiquidationPrice(grid, S)
     ELSE bar.high * Money >= LiquidationPrice(grid, S)

\* The best and the worst price of a bar, for the side of the grid.
Best(bar) == IF grid.side = 1 THEN bar.high ELSE bar.low

Worst(bar) == IF grid.side = 1 THEN bar.low ELSE bar.high

\* Why the backtest ends with this bar; the target counts before the stop.
CloseReason(bar, S) ==
  IF IsLiquidated(bar, S) THEN "liquidation"
  ELSE IF grid.side * Best(bar) >= grid.side * grid.target THEN "take_profit"
  ELSE IF grid.side * Worst(bar) <= grid.side * grid.stop THEN "stop_loss"
  ELSE IF barNo >= HoldingBars THEN "max_holding_time"
  ELSE IF BrokenOut(grid, bar.close) THEN "range_breakout"
  ELSE IF barNo + 1 = (IF frame = 1 THEN WindowBars ELSE OutBars)
    THEN "backtest_end"
  ELSE "none"

\* Where the open cells are closed then, without slippage; in money.
ForcedExit(why, bar, S) ==
  CASE why = "liquidation" -> LiquidationPrice(grid, S)
    [] why = "take_profit" -> grid.target * Money
    [] why = "stop_loss" -> grid.stop * Money
    [] OTHER -> bar.close * Money

\* Every few bars the open cells pay for their value, whichever their side.
FundingDue(bar, S) ==
  IF barNo > 0 /\ barNo % FundingBars = 0
    THEN Cardinality(S) * bar.close * FundingRate ELSE 0

-----------------------------------------------------------------------------

DesignInit ==
  /\ stage = "idle" /\ setting = NoSetting /\ grid = NoDesign /\ passed = FALSE
  /\ frame = 0 /\ barNo = 0 /\ mark = 0 /\ holding = {}
  /\ sums = NoSums /\ realized = 0 /\ flow = NoFlow /\ reason = "none"
  /\ proof = {}

\* A strategy looks at the market the window ends with.
JudgeMarket(s) ==
  /\ stage = "idle" /\ stage' = "judged"
  /\ setting' = s
  /\ UNCHANGED <<grid, passed, frame, barNo, mark, holding, sums, realized,
                 flow, reason, proof>>

\* It decides for a side and builds the parameters.
Build(strategy) ==
  /\ stage = "judged" /\ stage' = "designed"
  /\ DecideDirection(strategy, setting) # 0
  /\ grid' = BuildParameters(DecideDirection(strategy, setting), setting.atr)
  /\ setting' = NoSetting
  /\ UNCHANGED <<passed, frame, barNo, mark, holding, sums, realized, flow,
                 reason, proof>>

\* The risk engine is asked; an error of its own is a refusal.
EvaluateNewGrid(ask) ==
  /\ stage = "designed" /\ ~passed
  /\ passed' \in {FALSE, Approves(grid, ask)}
  /\ UNCHANGED <<stage, setting, grid, frame, barNo, mark, holding, sums,
                 realized, flow, reason, proof>>

\* A backtest of the parameters begins, wherever the market was then: on the
\* window they come from, and if that confirms them on the one after it.
RunBacktest(open) ==
  /\ \/ stage = "designed" /\ frame' = 1
     \/ stage = "ended" /\ frame = 1 /\ proof = {1} /\ frame' = 2
  /\ stage' = "running" /\ mark' = open
  /\ barNo' = 0 /\ holding' = {} /\ sums' = NoSums /\ realized' = 0
  /\ flow' = NoFlow /\ reason' = "none"
  /\ UNCHANGED <<setting, grid, passed, proof>>

\* A bar: its fills, funding, and the first reason there is to end.
GridBar(bar) ==
  LET fills == Filled(bar)
      due == FundingDue(bar, fills.left)
      why == CloseReason(bar, fills.left)
      forced == IF why = "none" THEN {} ELSE fills.left
      cycle(i) == Slipped(grid, ExitOf(grid, i), FALSE)
      out == ForcedExit(why, bar, fills.left)
      gross == SumFunction([i \in fills.gone |-> GrossOf(grid, i, cycle(i))])
               + SumFunction([i \in forced |-> GrossOf(grid, i, out)])
      fees ==
        SumFunction([i \in fills.gone |->
                       CloseFees(grid, i, cycle(i), MakerRate)])
        + SumFunction([i \in forced |-> CloseFees(grid, i, out, TakerRate)])
      sold == SumFunction([i \in fills.gone |-> cycle(i)])
              + Cardinality(forced) * out
      bought == SumFunction([i \in fills.new |->
                               Slipped(grid, EntryOf(grid, i), TRUE)])
  IN  /\ stage = "running" /\ barNo' = barNo + 1 /\ mark' = bar.close
      /\ holding' = fills.left \ forced
      /\ sums' = [trades |-> sums.trades + Cardinality(fills.gone)
                                + Cardinality(forced),
                   gross |-> sums.gross + gross, fees |-> sums.fees + fees,
                   funding |-> sums.funding + due]
      /\ realized' = realized + gross - fees - due
      /\ flow' = [paid |-> flow.paid + grid.side * (sold - bought)
                              - fees - due,
                  slipped |-> flow.slipped
                                + EntriesOf(grid, fills.new) * SlipRate]
      /\ reason' = why
      /\ stage' = IF why = "none" THEN "running" ELSE "ended"
      /\ UNCHANGED <<setting, grid, passed, frame, proof>>

\* An edge of a window: trades enough, a profit, and three tenths of the gross
\* left of it. Its ratio and its spread over time are left to chance.
IsEdgeConfirmed ==
  /\ sums.trades >= (IF frame = 1 THEN CyclesWanted ELSE 1)
  /\ sums.gross - sums.fees - sums.funding > 0
  /\ 10 * (sums.gross - sums.fees - sums.funding) >= 3 * sums.gross

\* The window is judged. Without a confirmed window nothing else is looked at.
ValidateOne ==
  /\ stage = "ended" /\ frame \notin proof
  /\ \/ IsEdgeConfirmed /\ proof' = proof \cup {frame}
        /\ stage' = IF frame = 1 THEN "ended" ELSE "done"
     \/ stage' = "done" /\ UNCHANGED proof
  /\ UNCHANGED <<setting, grid, passed, frame, barNo, mark, holding, sums,
                 realized, flow, reason>>

DesignNext ==
  \/ \E s \in Settings : JudgeMarket(s)
  \/ \E strategy \in {"long", "short", "adaptive"} : Build(strategy)
  \/ \E ask \in Asks : EvaluateNewGrid(ask)
  \/ \E open \in GridCloses : RunBacktest(open)
  \/ \E bar \in GridBars : GridBar(bar)
  \/ ValidateOne

DesignTypeOK ==
  /\ stage \in {"idle", "judged", "designed", "running", "ended", "done"}
  /\ setting \in Settings \cup {NoSetting}
  /\ passed \in BOOLEAN /\ frame \in 0..2 /\ proof \subseteq {1, 2}
  /\ barNo \in 0..Higher(WindowBars, OutBars)
  /\ holding \subseteq Cells

-----------------------------------------------------------------------------

(* The score is no mean value: a market with one component at nothing, or in a
   strong trend however narrow its bands, is never fit for a grid
   (compute_grid_suitability). *)
WeakestVetoes ==
  (stage = "judged" /\ IsSuitable(setting)) =>
    Weakest(setting) > 0 /\ setting.adx < 30

(* Every cycle of a grid that passed the cost guard earns after its fees and
   the slippage of both fills, on each of its levels, though the guard looks at
   the price of the first moment only (_check_cost_guard, _close_cell). *)
CyclesEarn ==
  (stage = "designed" /\ passed) => \A i \in Cells :
    LET exit == Slipped(grid, ExitOf(grid, i), FALSE)
    IN  GrossOf(grid, i, exit) - CloseFees(grid, i, exit, MakerRate)
          > EntryOf(grid, i) * SlipRate

(* Whichever cells are open, the stop of a grid lies before the price it would
   be liquidated at: only a bar that jumps past the stop liquidates it. *)
StopBeforeLiquidation ==
  stage = "designed" => \A S \in SUBSET Cells :
    S # {} => grid.side * LiquidationPrice(grid, S)
                < grid.side * grid.stop * Money

(* What a backtest reports is what its fills paid, with the open cells at their
   levels, beside the slippage of its entries: no cell is paid twice or never,
   whichever of the exits of a bar closes it. *)
ReportsItsFills ==
  /\ realized = flow.paid + flow.slipped
                  + grid.side * EntriesOf(grid, holding) * Money
  /\ realized = sums.gross - sums.fees - sums.funding

\* What a cell loses at the stop, if it loses.
StopLossOf(g, i) ==
  LET net == GrossOf(g, i, g.stop * Money)
               - CloseFees(g, i, g.stop * Money, TakerRate)
  IN  IF net < 0 THEN net ELSE 0

(* Nothing stays open when a backtest ends, and an approved grid that was not
   liquidated has lost no more than all its cells to the stop, and funding. *)
LossEndsAtStop ==
  (stage \in {"ended", "done"}) =>
    /\ holding = {}
    /\ (passed /\ reason # "liquidation") =>
         realized + sums.funding >=
           SumFunction([i \in Cells |-> StopLossOf(grid, i)])

(* A backtest does not carry on where the engine would close a running grid: at
   the close of a bar that did not end it there is no violation of its range,
   its levels or its time (check_ongoing_grid). *)
EndsWhereLiveEnds ==
  (stage = "running" /\ barNo > 0) => Violations(grid, mark, barNo - 1) = {}
=============================================================================
