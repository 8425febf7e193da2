------------------------------ MODULE RiskGate ------------------------------
(***************************************************************************)
(* RiskEngine.evaluate within the orchestrator's trading cycle: limits,    *)
(* sizing and caps of one entry after the other, on a book that is         *)
(* repriced and reduced meanwhile.  Money is counted in units, the price   *)
(* of every contract is 1; limits are tenths of the equity.                *)
(***************************************************************************)
EXTENDS Integers, FiniteSets, FiniteSetsExt, Functions

CONSTANTS
  Assets,        \* symbols with a signal
  MaxEquity,     \* bound on the equity
  StartEquity,
  MaxLeverage,   \* max_leverage
  MaxAssets,     \* max_open_positions
  MaxOrder,      \* max_order_notional
  PositionSize,  \* position_size_usd, 0: sizes depend on the equity
  PositionShare, \* max_single_position_pct, tenths
  ExposureShare, \* max_total_exposure_pct, tenths, 0: no such limit
  Drawdown,      \* max_portfolio_drawdown, tenths
  DailyLoss,     \* daily_loss_limit, tenths
  Cooldown,      \* trade_cooldown_seconds, in steps of the clock
  RiskFaults     \* bound on restarts, resets and new days

ASSUME RiskConstants ==
  /\ IsFiniteSet(Assets)
  /\ {MaxEquity, StartEquity, MaxLeverage, MaxAssets, MaxOrder, PositionSize,
      PositionShare, ExposureShare, Drawdown, DailyLoss, Cooldown, RiskFaults} \subseteq Nat
  /\ StartEquity \in 1..MaxEquity

VARIABLES
  equity,      \* portfolio_value
  book,        \* notional of the open position, symbol by symbol
  peak,        \* _peak_portfolio_value
  dayStart,    \* _daily_pnl_start, 0: no evaluation today yet
  tripped,     \* kill switch: "off", "task" (trigger is scheduled), "on"
  rest,        \* seconds of cooldown left, by the key it was recorded under
  cycle,       \* the orchestrator's cycle
  riskFaults   \* restarts, resets and new days so far

riskVars == <<equity, book, peak, dayStart, tripped, rest, cycle, riskFaults>>

\* Forms of a symbol's name: "binance:BTC/USDT" and "BTC/USDT".
Names == {"with_exchange", "plain"}

Idle == [stage |-> "idle"]
Empty == [s \in Assets |-> 0]
OpenAssets(b) == {s \in Assets : b[s] > 0}
Gross(b) == SumFunction(b)

RiskInit ==
  /\ equity = StartEquity
  /\ book = Empty
  /\ peak = 0
  /\ dayStart = 0
  /\ tripped = "off"
  /\ rest = [k \in Names \X Assets |-> 0]
  /\ cycle = Idle
  /\ riskFaults = 0

RiskCount == riskFaults < RiskFaults /\ riskFaults' = riskFaults + 1

Larger(a, b) == IF a > b THEN a ELSE b

\* _compute_metrics moves the peak and the start of the day, whatever
\* becomes of the signal.
Measure ==
  /\ peak' = Larger(peak, equity)
  /\ dayStart' = IF dayStart = 0 THEN equity ELSE dayStart

\* The checks before any number: switch, cooldown, one position per symbol.
\* An entry that passes them waits for Redis while its metrics are written.
BeginCycle(s) ==
  /\ cycle = Idle
  /\ tripped = "off"
  /\ rest[<<"plain", s>>] = 0
  /\ book[s] = 0
  /\ equity > 0
  /\ Measure
  /\ cycle' = [stage |-> "measured", asset |-> s, equity |-> equity,
               book |-> book, peak |-> peak', start |-> dayStart']
  /\ UNCHANGED <<equity, book, tripped, rest, riskFaults>>

\* The hard limits, on what was measured before the await.
HardBreach(c) ==
  \/ 10 * (c.peak - c.equity) >= Drawdown * c.peak
  \/ c.equity < c.start /\ 10 * (c.start - c.equity) >= DailyLoss * c.equity
  \/ Cardinality(OpenAssets(c.book)) >= MaxAssets
  \/ Gross(c.book) >= MaxLeverage * c.equity

\* A breach is answered with a rejection, and with a task that throws the
\* switch.
Breach ==
  /\ cycle.stage = "measured"
  /\ HardBreach(cycle)
  /\ cycle' = Idle
  /\ tripped' = IF tripped = "off" THEN "task" ELSE tripped
  /\ UNCHANGED <<equity, book, peak, dayStart, rest, riskFaults>>

\* A fixed size is cut by cash and the order limit only.
FixedBound == Min({PositionSize, MaxOrder})

\* What the sizer may give at most; hint, volatility, confidence, cash and
\* soft limits lower it.
SizeBound(c) ==
  IF PositionSize > 0 THEN FixedBound
  ELSE Min({(PositionShare * c.equity) \div 10, MaxOrder})

\* What the leverage cap leaves for a new position.
Headroom(c) == MaxLeverage * c.equity - Gross(c.book)

\* Deviation: only the new order is held against the limit.
WithinExposure_Deviation(c, n) ==
  ExposureShare > 0 => 10 * n <= ExposureShare * c.equity

\* The limit on all positions together refuses, it does not reduce.
WithinExposure(c, n) ==
  ExposureShare > 0 => 10 * (Gross(c.book) + n) <= ExposureShare * c.equity

\* The decision: sized, cut to the leverage cap, refused beyond the exposure
\* limit.
Approve(size) ==
  /\ cycle.stage = "measured"
  /\ ~HardBreach(cycle)
  /\ size <= SizeBound(cycle)
  /\ LET n == Min({size, Headroom(cycle)})
     IN /\ n > 0
        /\ WithinExposure(cycle, n)
        /\ cycle' = [stage |-> "approved", asset |-> cycle.asset, size |-> n,
                     equity |-> cycle.equity, book |-> cycle.book]
  /\ UNCHANGED <<equity, book, peak, dayStart, tripped, rest, riskFaults>>

Reject ==
  /\ cycle.stage = "measured"
  /\ ~HardBreach(cycle)
  /\ cycle' = Idle
  /\ UNCHANGED <<equity, book, peak, dayStart, tripped, rest, riskFaults>>

\* Deviation: the engine does not look at the switch again.
MaySend_Deviation == TRUE

\* The execution engine's own look at the switch.
MaySend == tripped # "on"

\* The order is executed in full or in part, and the books follow; the trade
\* is recorded for the cooldown under the cycle's symbol key.
FillOrder(n) ==
  /\ cycle.stage = "approved"
  /\ MaySend
  /\ n \in 1..cycle.size
  /\ book' = [book EXCEPT ![cycle.asset] = n]
  /\ rest' = [rest EXCEPT ![<<"with_exchange", cycle.asset>>] = Cooldown]
  /\ cycle' = Idle
  /\ UNCHANGED <<equity, peak, dayStart, tripped, riskFaults>>

\* It is refused, rejected or not filled.
NoFill ==
  /\ cycle.stage = "approved"
  /\ cycle' = Idle
  /\ UNCHANGED <<equity, book, peak, dayStart, tripped, rest, riskFaults>>

\* The scheduled task runs.
Trip ==
  /\ tripped = "task"
  /\ tripped' = "on"
  /\ UNCHANGED <<equity, book, peak, dayStart, rest, cycle, riskFaults>>

\* Another hand throws the switch, while a cycle is under way.
TripElsewhere ==
  /\ tripped = "off"
  /\ cycle # Idle
  /\ tripped' = "on"
  /\ UNCHANGED <<equity, book, peak, dayStart, rest, cycle, riskFaults>>

\* A position is worth more or less.
Reprice(s, up) ==
  /\ book[s] > 0
  /\ IF up THEN equity < MaxEquity ELSE equity > 0
  /\ equity' = IF up THEN equity + 1 ELSE equity - 1
  /\ book' = [book EXCEPT ![s] = IF up THEN @ + 1 ELSE @ - 1]
  /\ book'[s] \in 1..MaxEquity
  /\ UNCHANGED <<peak, dayStart, tripped, rest, cycle, riskFaults>>

\* Watchdog or liquidator close a position.
CloseOut(s) ==
  /\ book[s] > 0
  /\ book' = [book EXCEPT ![s] = 0]
  /\ UNCHANGED <<equity, peak, dayStart, tripped, rest, cycle, riskFaults>>

\* Cooldowns run out together.
RiskClock ==
  /\ rest # [k \in Names \X Assets |-> 0]
  /\ rest' = [k \in Names \X Assets |-> Larger(rest[k] - 1, 0)]
  /\ UNCHANGED <<equity, book, peak, dayStart, tripped, cycle, riskFaults>>

NewDay ==
  /\ dayStart # 0
  /\ RiskCount
  /\ dayStart' = 0
  /\ UNCHANGED <<equity, book, peak, tripped, rest, cycle>>

ResetSwitch ==
  /\ tripped = "on"
  /\ RiskCount
  /\ tripped' = "off"
  /\ UNCHANGED <<equity, book, peak, dayStart, rest, cycle>>

\* Peak, start of the day, cooldowns and a scheduled task are memory; the
\* switch, once on, is in Redis.
RestartRisk ==
  /\ RiskCount
  /\ peak' = 0
  /\ dayStart' = 0
  /\ rest' = [k \in Names \X Assets |-> 0]
  /\ cycle' = Idle
  /\ tripped' = IF tripped = "task" THEN "off" ELSE tripped
  /\ UNCHANGED <<equity, book>>

RiskNext ==
  \/ \E s \in Assets :
       BeginCycle(s) \/ CloseOut(s) \/ \E up \in BOOLEAN : Reprice(s, up)
  \/ \E n \in 1..MaxEquity : Approve(n) \/ FillOrder(n)
  \/ Breach \/ Reject \/ NoFill \/ Trip \/ TripElsewhere
  \/ RiskClock \/ NewDay \/ ResetSwitch \/ RestartRisk

RiskSpec == RiskInit /\ [][RiskNext]_riskVars

-----------------------------------------------------------------------------
RiskTypeOK ==
  /\ {equity, peak, dayStart} \subseteq 0..MaxEquity
  /\ book \in [Assets -> 0..MaxEquity]
  /\ tripped \in {"off", "task", "on"}
  /\ rest \in [Names \X Assets -> 0..Cooldown]
  /\ cycle.stage \in {"idle", "measured", "approved"}
  /\ riskFaults \in 0..RiskFaults

(* An approved order, after sizing, soft limits and caps, fits with all that
   was open when it was measured: below the leverage cap and below the limit
   on the total exposure; it does not live on the limits of one position. *)
ApprovedFits ==
  cycle.stage = "approved" =>
    LET after == Gross(cycle.book) + cycle.size
    IN /\ after <= MaxLeverage * cycle.equity
       /\ ExposureShare > 0 => 10 * after <= ExposureShare * cycle.equity

(* No entry is filled while the switch is on: the check at the start of the
   evaluation is old by then, others throw it during the await. *)
EntriesStop == tripped = "on" => \A s \in Assets : book[s] = 0 => book'[s] = 0
=============================================================================
