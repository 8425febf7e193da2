---------------------------- MODULE MCDecisions -----------------------------
(***************************************************************************)
(* The decisions between a signal and an order at the exchange, each with  *)
(* its own state: which strategies may trade, what the risk engine         *)
(* approves, what the gates of the execution engine let through, what the  *)
(* Pionex adapter sends. A behaviour is a behaviour of one of them, chosen *)
(* in the initial state; the others stand still.                           *)
(***************************************************************************)
EXTENDS StrategyGate, RiskGate, OrderGates, PionexOrders, SymbolValidation,
        Backtest, Indicators, Signals, GridDesign

VARIABLE part  \* the component whose behaviour it is

Parts == {"strategies", "risk", "order gates", "pionex", "symbols", "backtest",
          "indicators", "signals", "grid design"}

decisionsVars ==
  <<part, gateVars, riskVars, orderGateVars, pionexVars, validationVars,
    backtestVars, indicatorVars, signalVars, designVars>>

DecisionsInit ==
  /\ part \in Parts
  /\ GateInit
  /\ RiskInit
  /\ OrderGatesInit
  /\ PionexInit
  /\ ValidationInit
  /\ BacktestInit
  /\ IndicatorsInit
  /\ SignalsInit
  /\ DesignInit

\* All components but p stand still.
Only(p) ==
  /\ part = p /\ UNCHANGED part
  /\ IF p = "strategies" THEN TRUE ELSE UNCHANGED gateVars
  /\ IF p = "risk" THEN TRUE ELSE UNCHANGED riskVars
  /\ IF p = "order gates" THEN TRUE ELSE UNCHANGED orderGateVars
  /\ IF p = "pionex" THEN TRUE ELSE UNCHANGED pionexVars
  /\ IF p = "symbols" THEN TRUE ELSE UNCHANGED validationVars
  /\ IF p = "backtest" THEN TRUE ELSE UNCHANGED backtestVars
  /\ IF p = "indicators" THEN TRUE ELSE UNCHANGED indicatorVars
  /\ IF p = "signals" THEN TRUE ELSE UNCHANGED signalVars
  /\ IF p = "grid design" THEN TRUE ELSE UNCHANGED designVars

DecisionsNext ==
  \/ Only("strategies") /\ GateNext
  \/ Only("risk") /\ RiskNext
  \/ Only("order gates") /\ OrderGatesNext
  \/ Only("pionex") /\ PionexNext
  \/ Only("symbols") /\ ValidationNext
  \/ Only("backtest") /\ BacktestNext
  \/ Only("indicators") /\ IndicatorsNext
  \/ Only("signals") /\ SignalsNext
  \/ Only("grid design") /\ DesignNext

\* The fairness of each component, as its module explains it.
DecisionsFairness ==
  /\ WF_pionexVars(part = "pionex" /\ ConnectPionex /\ linked')
  /\ \A c \in ClientIds :
       WF_pionexVars(part = "pionex" /\ (LookUp(c) \/ CreateOrder(c) \/ ReadBack(c)))
  /\ \A c \in ClientIds : WF_pionexVars(part = "pionex" /\ PollOrder(c))

DecisionsSpec ==
  /\ DecisionsInit /\ [][DecisionsNext]_decisionsVars
  /\ DecisionsFairness

-----------------------------------------------------------------------------

\* A contract is looked at where its component behaves: elsewhere its state is
\* the initial one.

(* No strategy trades that was not validated or forced in this process, and
   the table says which ones trade. *)
StrategyContract == part = "strategies" =>
  /\ GateTypeOK
  /\ ActiveIsValidated
  /\ TableSaysWhatTrades

(* What the risk engine approves fits under the leverage and exposure limits,
   and no entry is filled once the switch is on. *)
RiskContract == part = "risk" =>
  /\ RiskTypeOK
  /\ ApprovedFits

(* The gates keep the budget of the profile, send only quantities the exchange
   takes, and let nothing through once the profile is spent. *)
GatesContract == part = "order gates" =>
  /\ OrderGatesTypeOK
  /\ ProfileKept
  /\ EntriesConform

(* A final answer of the Pionex adapter is the truth, an order is placed once
   however often it is asked for, a sweep closes what it saw, and an order
   that has ended is reported at last. *)
PionexContract ==
  /\ []PionexTypeOK
  /\ []FinalIsTrue
  /\ []OncePerClientId
  /\ []SweptIsClosed
  /\ EndIsReported

(* What the batch of a symbol says is complete and the best that was found,
   and only a strategy it activated signals. *)
SymbolContract == part = "symbols" =>
  /\ ValidationTypeOK
  /\ OneBestPerBatch
  /\ EndedHasResult
  /\ WinnerIsBest
  /\ SignalIsValidated

(* A backtest accounts for its money and its bars, on bars its optimizer did
   not see, and only what is proven goes live. *)
BacktestContract == part = "backtest" =>
  /\ BacktestTypeOK
  /\ CashMatchesTrades
  /\ TradesAreBounded
  /\ WindowIsWhole
  /\ NoHindsight
  /\ GoIsProven

(* The indicators take no side: a market upside down reads upside down, a
   market at rest says nothing, a trend always has a direction, and a backtest
   sees what the live feed sees. *)
IndicatorsContract == part = "indicators" =>
  /\ IndicatorsTypeOK
  /\ MirrorsAgree
  /\ StrengthIsShare
  /\ RestSaysNothing
  /\ TrendHasDirection
  /\ BacktestSeesLive

(* The strategies judge both sides alike, never contradict each other or the
   trend, trade the side a backtest trades, and an order is priced no older
   than it was decided. *)
SignalsContract == part = "signals" =>
  /\ SignalsTypeOK
  /\ SidesAreTwins
  /\ StrategiesAgree
  /\ BacktestSameSide
  /\ PricedNoOlder
  /\ WithTheTrend

(* A grid is only designed for a market with nothing against it, every cycle
   of an approved one earns, its stop lies before its liquidation, and its
   backtest reports what its fills paid, loses no more than the stop and ends
   where the grid would be closed. *)
DesignContract == part = "grid design" =>
  /\ DesignTypeOK
  /\ WeakestVetoes
  /\ CyclesEarn
  /\ StopBeforeLiquidation
  /\ ReportsItsFills
  /\ LossEndsAtStop
  /\ EndsWhereLiveEnds

(* No late step overrides a decision: no entry is filled once the switch is on
   (EntriesStop), a spent profile lets nothing through (SpentIsFinal), a
   worker that knows what a symbol may trade does not fall back to everything
   (StaysKnown), and what a backtest knew at a bar is not changed by later ones
   (NoLookAhead). *)
DecisionsStand ==
  [][/\ EntriesStop
     /\ SpentIsFinal
     /\ StaysKnown
     /\ part = "indicators" /\ series' # series => NoLookAhead]_decisionsVars
=============================================================================
