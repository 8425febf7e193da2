------------------------------ MODULE Backtest ------------------------------
(***************************************************************************)
(* A strategy is optimized and validated on the history of one symbol:     *)
(* every candidate parameter set is backtested on the first part of the    *)
(* history (strategy/parameter_optimizer.py), the best one on the rest,    *)
(* and a verdict is given (backtesting/engine.py).  A backtest loads its   *)
(* bars from the memory of the loader, the candles table or the exchange   *)
(* (data_loader.py), and is simulated bar by bar (simulator.py).  Money is *)
(* counted so that no share of it is rounded.                              *)
(***************************************************************************)
EXTENDS Integers, FiniteSets

CONSTANTS
  ParameterSets,  \* candidates of the search space
  NoSet,          \* none of them
  LastBar,        \* the history: bars 0..LastBar
  SplitBar,       \* OPTIMIZATION_WINDOW_FRACTION of it
  PageSize,       \* bars an exchange answers at once
  Warmup,         \* WARMUP_BARS
  Quotes,         \* prices of bars
  Lots,           \* quantities of positions
  Capital,        \* initial_capital
  Slip,           \* slippage_pct, percent
  TakerFee,       \* taker_fee, percent
  CapShare,       \* max_position_pct, percent
  StopDistance,   \* atr_stop_multiplier * ATR, when there is an ATR
  MaxHolding,     \* max_holding_bars
  EnoughTrades,   \* MIN_TRADES_FOR_CANDIDATE
  WalkSplits,     \* n_splits
  WalkTrades,     \* trades below which there is no walk-forward
  RuinTrades,     \* trades below which Monte Carlo says ruin
  GoTrades,       \* trades the gates ask for
  BacktestFaults  \* bound on failing reads, writes and downloads

ASSUME BacktestConstants ==
  /\ NoSet \notin ParameterSets
  /\ {LastBar, SplitBar, PageSize, Warmup, Capital, MaxHolding,
      WalkSplits} \subseteq Nat \ {0}
  /\ SplitBar <= LastBar
  /\ {EnoughTrades, WalkTrades, RuinTrades, GoTrades} \subseteq Nat
  /\ {Slip, TakerFee, CapShare} \subseteq 0..100
  /\ StopDistance \in Nat
  /\ Quotes \subseteq Nat /\ Lots \subseteq Nat \ {0}
  /\ RuinTrades <= WalkTrades /\ WalkTrades <= GoTrades
  /\ BacktestFaults \in Nat

VARIABLES
  study,     \* where optimization and validation stand
  stored,    \* bars in the candles table
  memo,      \* what the loader remembers of each window
  download,  \* the pages so far
  bars,      \* bars of the running backtest
  at,        \* the bar it has come to
  account,      \* _cash, _positions, and what is told of _closed_trades
  fed,       \* the live feed wrote to the table (history)
  backtestFaults

simulation == <<bars, at, account>>
backtestVars == <<study, stored, memo, download, simulation, fed,
                  backtestFaults>>

Bars == 0..LastBar
OptimizationWindow == 0..SplitBar
ValidationWindow == SplitBar..LastBar
BacktestWindows == {OptimizationWindow, ValidationWindow}
NotLoaded == {-1}

First(S) == CHOOSE b \in S : \A c \in S : b <= c
Final(S) == CHOOSE b \in S : \A c \in S : c <= b

Flat == [side |-> "flat", lots |-> 0, entry |-> 0, since |-> 0,
         target |-> 0, ranging |-> FALSE]
NewBook == [cash |-> Capital, position |-> Flat,
            trades |-> 0, net |-> 0, longest |-> 0]
NewStudy == [stage |-> "idle", left |-> {}, using |-> NoSet,
             scores |-> [p \in ParameterSets |-> 0],
             verdict |-> "none", walked |-> "no"]

BacktestInit ==
  /\ study = NewStudy
  /\ stored = {}
  /\ memo = [w \in BacktestWindows |-> NotLoaded]
  /\ download = {}
  /\ bars = {}
  /\ at = -1 /\ account = NewBook
  /\ fed = FALSE
  /\ backtestFaults = 0

BacktestFault ==
  /\ backtestFaults < BacktestFaults
  /\ backtestFaults' = backtestFaults + 1

-----------------------------------------------------------------------------
(***************************************************************************)
(* The bars                                                                *)
(***************************************************************************)

\* A candidate is being tried; else what is validated has been chosen.
Trying == study.using \in study.left

\* Candidates are tried on the optimization window, the best of them (or the
\* strategy as it is) on the validation window.
WindowNow == IF Trying THEN OptimizationWindow ELSE ValidationWindow

\* _load_from_db_if_complete: the first and the last row are within a bar of
\* the window's ends.
LooksComplete(rows, w) ==
  /\ rows # {}
  /\ First(rows) <= First(w) + 1
  /\ Final(rows) >= Final(w) - 1

\* A new simulator runs over what was loaded.
StartSimulation(loaded) ==
  /\ bars' = loaded
  /\ study' = [study EXCEPT !.stage = "simulate"]
  /\ at' = -1 /\ account' = NewBook

\* The memory, else the table, else the exchange; a table that cannot be read
\* counts as empty.
LoadBars ==
  /\ study.stage = "load"
  /\ \/ /\ memo[WindowNow] # NotLoaded
        /\ StartSimulation(memo[WindowNow])
        /\ UNCHANGED <<memo, download, backtestFaults>>
     \/ /\ memo[WindowNow] = NotLoaded
        /\ LooksComplete(stored \cap WindowNow, WindowNow)
        /\ StartSimulation(stored \cap WindowNow)
        /\ memo' = [memo EXCEPT ![WindowNow] = stored \cap WindowNow]
        /\ UNCHANGED <<download, backtestFaults>>
     \/ /\ memo[WindowNow] = NotLoaded
        /\ IF LooksComplete(stored \cap WindowNow, WindowNow)
           THEN BacktestFault
           ELSE UNCHANGED backtestFaults
        /\ study' = [study EXCEPT !.stage = "download"]
        /\ download' = {}
        /\ UNCHANGED <<memo, simulation>>
  /\ UNCHANGED <<stored, fed>>

\* The bars of the window that come next, at most a page.
Page ==
  LET rest == {b \in WindowNow : \A c \in download : b > c}
  IN {b \in rest : Cardinality({c \in rest : c < b}) < PageSize}

\* _paginate_and_load: a full page that does not reach the end is followed by
\* another one.
LastPage == Cardinality(Page) < PageSize \/ Final(Page) + 1 >= Final(WindowNow)

\* _persist_to_db: a failing write is not noticed.
Persist(rows) ==
  \/ stored' = stored \cup rows /\ UNCHANGED backtestFaults
  \/ BacktestFault /\ UNCHANGED stored

FetchPage ==
  /\ study.stage = "download"
  /\ download' = download \cup Page
  /\ IF LastPage
     THEN /\ memo' = [memo EXCEPT ![WindowNow] = download']
          /\ StartSimulation(download')
          /\ Persist(download')
     ELSE UNCHANGED <<study, memo, stored, simulation, backtestFaults>>
  /\ UNCHANGED fed

\* The live feed of the worker writes its bars to the same table.
FeedWrites(b) ==
  /\ ~fed
  /\ fed' = TRUE
  /\ stored' = stored \cup {b}
  /\ UNCHANGED <<study, memo, download, simulation, backtestFaults>>

-----------------------------------------------------------------------------
(***************************************************************************)
(* The simulation                                                          *)
(***************************************************************************)

Sign(side) == CASE side = "long" -> 1 [] side = "short" -> -1 [] OTHER -> 0
Fee(notional) == (notional * TakerFee) \div 100

\* Entries pay the slippage, and so do exits, the other way round.
EntryPrice(side, open) == (open * (100 + Sign(side) * Slip)) \div 100
ExitPrice(side, close) == (close * (100 - Sign(side) * Slip)) \div 100

\* Bars are counted, not time: a hole makes nothing older.
Age(p, b) == Cardinality({c \in bars : p.since < c /\ c <= b})

\* _check_exits: the regime a position relied on is gone, the stop, the target,
\* or time.
MustExit(p, b, close, ranging, atr) ==
  \/ p.ranging /\ ~ranging
  \/ atr /\ Sign(p.side) * (close - p.entry) < -StopDistance
  \/ p.target # 0 /\ Sign(p.side) * (close - p.target) >= 0
  \/ Age(p, b) >= MaxHolding

\* Deviation: the fee of the exit raises what a short has to pay back.
CloseAt_Deviation(k, b, close) ==
  LET p == k.position
      exit == ExitPrice(p.side, close) * p.lots
      gross == Sign(p.side) * (exit - p.entry * p.lots)
  IN [cash |-> k.cash + Sign(p.side) * (exit - Fee(exit)),
      position |-> Flat,
      trades |-> k.trades + 1,
      net |-> k.net + gross - Fee(exit) - Fee(p.entry * p.lots),
      longest |-> IF Age(p, b) > k.longest THEN Age(p, b) ELSE k.longest]

\* _close_position: account k after a close of its position on bar b.
CloseAt(k, b, close) ==
  LET p == k.position
      exit == ExitPrice(p.side, close) * p.lots
      gross == Sign(p.side) * (exit - p.entry * p.lots)
  IN [cash |-> k.cash + Sign(p.side) * exit - Fee(exit),
      position |-> Flat,
      trades |-> k.trades + 1,
      net |-> k.net + gross - Fee(exit) - Fee(p.entry * p.lots),
      longest |-> IF Age(p, b) > k.longest THEN Age(p, b) ELSE k.longest]

\* _generate_signal: whoever says long is silenced by whoever says short; what
\* is neither is taken for short.
Directions == {"long", "short", "other"}
Sides(says) ==
  IF {"long", "short"} \subseteq says THEN {}
  ELSE {IF d = "long" THEN "long" ELSE "short" : d \in says}

\* _open_position: at the open of the next bar, for at most a share of the
\* money; the age of the position counts from the bar that signalled.
OpenAt(k, b, side, open, lots, target, ranging) ==
  LET price == EntryPrice(side, open)
  IN [k EXCEPT !.cash = @ - Sign(side) * price * lots - Fee(price * lots),
               !.position = [side |-> side, lots |-> lots, entry |-> price,
                             since |-> b, target |-> target,
                             ranging |-> ranging]]

Affordable(k, side, open, lots) ==
  LET notional == EntryPrice(side, open) * lots
  IN /\ notional * 100 <= k.cash * CapShare
     /\ notional * 100 <= k.cash * 95
     /\ notional + Fee(notional) <= k.cash

\* Book k after the signals of bar b; next is the open of the bar after it.
AfterSignals(k, b, sides, next, ranging) ==
  {k} \cup {OpenAt(k, b, x[1], next, x[2], x[3], ranging) :
              x \in {y \in sides \X Lots \X (Quotes \cup {0}) :
                      Affordable(k, y[1], next, y[2])}}

Remaining == {b \in bars : b > at}
Warm(b) == Cardinality({c \in bars : c < b}) >= Warmup

\* One bar of run(): exits, entries, and on the last bar an end to what is
\* open.  Bars before the indicators are there count for nothing.
SimulateBar(close, ranging, atr, sides, next) ==
  /\ study.stage = "simulate" /\ Remaining # {}
  /\ LET b == First(Remaining)
         held == IF /\ account.position # Flat
                    /\ MustExit(account.position, b, close, ranging, atr)
                 THEN CloseAt(account, b, close) ELSE account
     IN /\ at' = b
        /\ \/ ~Warm(b) /\ account' = account
           \/ /\ Warm(b) /\ Remaining = {b}
              /\ account' = IF held.position # Flat
                            THEN CloseAt(held, b, close) ELSE held
           \/ /\ Warm(b) /\ Remaining # {b}
              /\ account' \in IF held.position # Flat THEN {held}
                              ELSE AfterSignals(held, b, sides, next, ranging)
  /\ UNCHANGED <<study, stored, memo, download, bars, fed, backtestFaults>>

-----------------------------------------------------------------------------
(***************************************************************************)
(* Optimization and verdict                                                *)
(***************************************************************************)

\* The parameters are optimized first, if the strategy has a search space and
\* the history is long enough.
BeginStudy ==
  /\ study.stage = "idle"
  /\ \E left \in {{}, ParameterSets} :
       \E p \in (IF left = {} THEN {NoSet} ELSE left) :
         study' = [NewStudy EXCEPT !.stage = "load", !.left = left,
                                   !.using = p]
  /\ UNCHANGED <<stored, memo, download, simulation, fed, backtestFaults>>

\* The candidates with trades enough, and of these those with the best Sharpe.
Qualified(scores) == {p \in ParameterSets : scores[p] > 0}
Winners(scores) ==
  {p \in Qualified(scores) :
     \A q \in Qualified(scores) : scores[q] <= scores[p]}

\* The trial ends with a score, 0 if it is disqualified; the next candidate is
\* tried, or the winner validated, or nothing if none qualifies.
EndTrialWith(score) ==
  LET scores == [study.scores EXCEPT ![study.using] = score]
      left == study.left \ {study.using}
      next == IF left # {} THEN left
              ELSE IF Winners(scores) # {} THEN Winners(scores) ELSE {NoSet}
  IN \E p \in next :
       study' = [study EXCEPT !.stage = "load", !.left = left, !.using = p,
                              !.scores = scores]

Simulated == study.stage = "simulate" /\ Remaining = {}

EndOfTrial(sharpe) ==
  /\ Simulated /\ Trying
  /\ EndTrialWith(IF account.trades >= EnoughTrades THEN sharpe ELSE 0)
  /\ UNCHANGED <<stored, memo, download, simulation, fed, backtestFaults>>

\* A download or anything else raises: the candidate is disqualified, a
\* validation has no verdict.
BacktestRaises ==
  /\ study.stage \in {"load", "download"}
  /\ BacktestFault
  /\ IF Trying THEN EndTrialWith(0) ELSE study' = NewStudy
  /\ UNCHANGED <<stored, memo, download, simulation, fed>>

\* run_full_validation: a walk-forward needs trades.
Walks(n) == n >= WalkTrades

\* WalkForwardAnalyzer.run over n bars: the slices whose out-of-sample part, a
\* sixth of a slice or twice the warm-up, leaves something to simulate.
WalkSlices(n) ==
  LET size == n \div (WalkSplits + 1)
      tested == IF size \div 6 > 2 * Warmup THEN size \div 6 ELSE 2 * Warmup
      end(i) == IF i * size + tested < n THEN i * size + tested ELSE n
  IN {i \in 1..WalkSplits :
        i * size > Warmup /\ end(i) - i * size >= 2 * Warmup}

\* What the analysis may find: gates of the Sharpe ratio (1.0) and others that
\* fail, and whether Sharpe is above 0.7; a walk-forward without slices is not
\* consistent.
Analyses ==
  {a \in [gates : SUBSET {"sharpe", "drawdown"}, sharp : BOOLEAN,
          consistent : BOOLEAN, ruin : BOOLEAN] :
     /\ "sharpe" \notin a.gates => a.sharp
     /\ account.trades = 0 => ~a.sharp
     /\ a.consistent => WalkSlices(Cardinality(bars)) # {}}

\* _check_go_live_gates
FailedGates(n, a) == a.gates \cup {o \in {"few trades"} : n < GoTrades}

\* MonteCarloAnalyzer.run: too few trades count as certain ruin.
Ruined(n, a) == a.ruin \/ n < RuinTrades

Objections(n, a) ==
  FailedGates(n, a)
  \cup {o \in {"inconsistent"} : Walks(n) /\ ~a.consistent}
  \cup {o \in {"ruin"} : n > 0 /\ Ruined(n, a)}

\* _make_decision
Decision(n, a) ==
  IF Objections(n, a) = {} THEN "GO"
  ELSE IF Cardinality(Objections(n, a)) <= 2 /\ a.sharp THEN "CONDITIONAL"
  ELSE "NO-GO"

Judge(a) ==
  /\ Simulated /\ ~Trying
  /\ study' = [study EXCEPT
       !.stage = "idle",
       !.walked = IF ~Walks(account.trades) THEN "no"
                  ELSE IF a.consistent THEN "consistent" ELSE "inconsistent",
       !.verdict = IF bars = {} THEN "NO-GO" ELSE Decision(account.trades, a)]
  /\ UNCHANGED <<stored, memo, download, simulation, fed, backtestFaults>>

\* A new process remembers nothing.
RestartBacktest ==
  /\ study.stage = "idle" /\ study # NewStudy
  /\ study' = NewStudy
  /\ memo' = [w \in BacktestWindows |-> NotLoaded]
  /\ download' = {} /\ bars' = {} /\ at' = -1 /\ account' = NewBook
  /\ UNCHANGED <<stored, fed, backtestFaults>>

-----------------------------------------------------------------------------
BacktestNext ==
  \/ LoadBars
  \/ FetchPage
  \/ \E b \in Bars : FeedWrites(b)
  \/ \E close, next \in Quotes, ranging, atr \in BOOLEAN,
        sides \in {Sides(says) : says \in SUBSET Directions} :
          SimulateBar(close, ranging, atr, sides, next)
  \/ BeginStudy
  \/ \E sharpe \in 1..2 : EndOfTrial(sharpe)
  \/ BacktestRaises
  \/ \E a \in Analyses : Judge(a)
  \/ RestartBacktest

BacktestSpec == BacktestInit /\ [][BacktestNext]_backtestVars

-----------------------------------------------------------------------------
BacktestTypeOK ==
  /\ study.stage \in {"idle", "load", "download", "simulate"}
  /\ study.left \subseteq ParameterSets
  /\ study.using \in ParameterSets \cup {NoSet}
  /\ stored \subseteq Bars /\ download \subseteq Bars /\ bars \subseteq Bars
  /\ \A w \in BacktestWindows : memo[w] = NotLoaded \/ memo[w] \subseteq w
  /\ account.cash \in Int /\ account.trades \in Nat
  /\ fed \in BOOLEAN

(* The money is where the trades say: what was there, what they brought, and
   what is bound in the open position.  Two sides with opposite signs, fees
   and slippage at both ends, and a forced close must agree. *)
CashMatchesTrades ==
  LET bound == account.position.lots * account.position.entry
  IN account.cash = Capital + account.net - Sign(account.position.side) * bound
                 - Fee(bound)

(* No trade outlasts max_holding_bars, and nothing is bought with money that is
   not there, whatever a short has lost before. *)
TradesAreBounded ==
  /\ account.longest <= MaxHolding
  /\ account.position.side = "long" => account.cash >= 0

(* A backtest runs over every bar of its window but one at each end: pages are
   kept only as a whole, however the downloads end.  The live feed may leave
   holes that the look at first and last row does not see. *)
WindowIsWhole ==
  study.stage = "simulate" /\ ~fed =>
    \A b \in WindowNow :
      First(WindowNow) < b /\ b < Final(WindowNow) => b \in bars

(* A validation trades on no bar its optimizer saw, though the bar of the
   split belongs to both windows. *)
NoHindsight ==
  study.using # NoSet /\ ~Trying /\ account.position # Flat =>
    account.position.since > SplitBar

(* A strategy may go live only with trades enough, a consistent walk-forward
   and a Monte Carlo run without ruin, on the best parameters tried. *)
GoIsProven ==
  study.verdict = "GO" =>
    /\ study.walked = "consistent"
    /\ account.trades >= GoTrades
    /\ study.using # NoSet => study.using \in Winners(study.scores)
=============================================================================
