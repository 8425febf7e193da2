----------------------------- MODULE Protection -----------------------------
(***************************************************************************)
(* The protection of one position (sgr/risk/position_protection.py): the   *)
(* levels and the deadline it gets when it is opened, in the books and in  *)
(* its row (portfolio/engine.py), and the watchdog that closes it. Prices  *)
(* are ticks. The orchestrator opens and reprices, the watchdog closes,    *)
(* each in one task; module Positions has their races over the books.      *)
(***************************************************************************)
EXTENDS Integers, FiniteSets

CONSTANTS
  EntryPrice,
  Prices,        \* what the market may ask
  Proposed,      \* stop and target a strategy may propose, 0: none
  StopTicks,     \* stop_loss_pct of the entry price
  TargetTicks,   \* take_profit_pct of the entry price
  CostTicks,     \* twice fee and slippage: what a round trip costs
  Holding,       \* max_holding_minutes
  Cutover,       \* protection_cutover_at
  LastTick,      \* bound on the clock
  Openings,      \* bound on positions opened
  WriteFaults,   \* bound on failing writes of the row
  OrderFaults,   \* bound on closing orders that fail
  Restarts       \* bound on restarts

ASSUME ProtectionAssumption ==
  /\ EntryPrice \in Nat /\ Prices \subseteq Nat /\ Proposed \subseteq Nat
  /\ {StopTicks, TargetTicks, Holding} \subseteq Nat \ {0}
  /\ {CostTicks, Cutover, LastTick, Openings, WriteFaults, OrderFaults,
      Restarts} \subseteq Nat

VARIABLES
  held,      \* the position in the books
  row,       \* its row in the positions table
  exposure,  \* what the exchange holds
  trader,    \* where the orchestrator is: idle, opened, protected, repriced
  copy,      \* the position the orchestrator is about to save
  offered,   \* the strategy's proposal for the position being opened
  guard,     \* where the watchdog is: idle, or the reason it closes for
  regimeNow, \* the regime the feature store holds, none also for unknown
  clockNow, opened, writeFaults, orderFaults, restarts

protectionVars ==
  <<held, row, exposure, trader, copy, offered, guard, regimeNow, clockNow,
    opened, writeFaults, orderFaults, restarts>>

Flat == [qty |-> 0]

NoLevels == [stop |-> 0, target |-> 0, until |-> 0, regime |-> "none"]

NoOffer == [stop |-> 0, target |-> 0, regime |-> "none"]

MarketRegimes == {"none", "ranging", "trending"}

IsHeld == held # Flat

IsProtected(p) == p # Flat /\ p.levels # NoLevels

-----------------------------------------------------------------------------
(* What a position gets when it is opened.                                   *)

\* The proposal counts if both prices are there and lie around the entry.
Sound(side, offer) ==
  /\ offer.stop > 0 /\ offer.target > 0
  /\ side * offer.stop < side * EntryPrice
  /\ side * EntryPrice < side * offer.target

\* Else the configured shares of the entry price.
Chosen(side, offer) ==
  IF Sound(side, offer)
    THEN [stop |-> offer.stop, target |-> offer.target]
    ELSE [stop |-> EntryPrice - side * StopTicks,
          target |-> EntryPrice + side * TargetTicks]

\* A target that would not pay for the round trip is moved out.
CostGuard(side, target) ==
  IF side * (target - EntryPrice) < CostTicks
    THEN EntryPrice + side * CostTicks ELSE target

Levels(p, offer) ==
  IF p.since < Cutover THEN NoLevels
  ELSE [stop |-> Chosen(p.side, offer).stop,
        target |-> CostGuard(p.side, Chosen(p.side, offer).target),
        until |-> p.since + Holding, regime |-> offer.regime]

-----------------------------------------------------------------------------

ProtectionInit ==
  /\ held = Flat /\ row = Flat /\ exposure = 0
  /\ trader = "idle" /\ copy = Flat /\ offered = NoOffer /\ guard = "idle"
  /\ regimeNow = "none" /\ clockNow = 0 /\ opened = 0
  /\ writeFaults = 0 /\ orderFaults = 0 /\ restarts = 0

\* A write of the row is done, or fails and is only logged.
Write(p) ==
  \/ row' = p /\ UNCHANGED writeFaults
  \/ /\ writeFaults < WriteFaults /\ writeFaults' = writeFaults + 1
     /\ UNCHANGED row

\* The copy a task took goes into the open row. Where there is none, a number
\* that was closed cannot be inserted again.
WriteCopy ==
  IF row # Flat \/ IsHeld THEN Write(copy) ELSE UNCHANGED <<row, writeFaults>>

\* An entry is filled and booked, without protection.
OpenProtected(side, offer) ==
  /\ trader = "idle" /\ ~IsHeld /\ exposure = 0 /\ guard = "idle"
  /\ opened < Openings /\ opened' = opened + 1
  /\ held' = [id |-> opened + 1, side |-> side, qty |-> 2,
              price |-> EntryPrice, since |-> clockNow, levels |-> NoLevels]
  /\ exposure' = 2
  /\ offered' = offer /\ trader' = "opened"
  /\ UNCHANGED <<row, copy, guard, regimeNow, clockNow, writeFaults,
                 orderFaults, restarts>>

\* Its row is written, and then the hook gives it its levels.
Protect ==
  /\ trader = "opened" /\ trader' = "protected"
  /\ Write(held)
  /\ held' = [held EXCEPT !.levels = Levels(held, offered)]
  /\ copy' = held'
  /\ offered' = NoOffer
  /\ UNCHANGED <<exposure, guard, regimeNow, clockNow, opened, orderFaults,
                 restarts>>

\* The row is written again, with the levels.
SaveLevels ==
  /\ trader = "protected" /\ trader' = "idle"
  /\ IF IsProtected(copy) THEN WriteCopy ELSE UNCHANGED <<row, writeFaults>>
  /\ copy' = Flat
  /\ UNCHANGED <<held, exposure, offered, guard, regimeNow, clockNow, opened,
                 orderFaults, restarts>>

\* A candle reprices the position, field by field, and then saves the copy.
UpdatePrices(p) ==
  /\ trader = "idle" /\ IsHeld /\ p # held.price
  /\ held' = [held EXCEPT !.price = p]
  /\ copy' = held' /\ trader' = "repriced"
  /\ UNCHANGED <<row, exposure, offered, guard, regimeNow, clockNow, opened,
                 writeFaults, orderFaults, restarts>>

SavePrices ==
  /\ trader = "repriced" /\ trader' = "idle"
  /\ WriteCopy
  /\ copy' = Flat
  /\ UNCHANGED <<held, exposure, offered, guard, regimeNow, clockNow, opened,
                 orderFaults, restarts>>

\* A cycle stores the regime of the symbol; a silent feed lets it expire.
SaveRegime(r) ==
  /\ trader = "idle" /\ r # regimeNow
  /\ regimeNow' = r
  /\ UNCHANGED <<held, row, exposure, trader, copy, offered, guard, clockNow,
                 opened, writeFaults, orderFaults, restarts>>

TakeProfit == held.levels.target > 0
              /\ held.side * held.price >= held.side * held.levels.target

StopLoss == held.levels.stop > 0
            /\ held.side * held.price <= held.side * held.levels.stop

RegimeExit ==
  held.levels.regime = "ranging" /\ regimeNow \notin {"none", "ranging"}

Overdue == held.levels.until > 0 /\ clockNow >= held.levels.until

\* Deviation: the deadline counts for a position of a range only.
ExitReason_Deviation ==
  IF TakeProfit THEN "take_profit"
  ELSE IF StopLoss THEN "stop_loss"
  ELSE IF RegimeExit THEN "regime_change"
  ELSE IF Overdue /\ held.levels.regime = "ranging" THEN "max_holding_time"
  ELSE "idle"

\* The first reason that holds, in the order of the checks.
ExitReason ==
  IF TakeProfit THEN "take_profit"
  ELSE IF StopLoss THEN "stop_loss"
  ELSE IF RegimeExit THEN "regime_change"
  ELSE IF Overdue THEN "max_holding_time"
  ELSE "idle"

\* A pass of the watchdog sends the closing order, past the kill switch.
CheckPositionsOnce ==
  /\ guard = "idle" /\ IsHeld /\ held.since >= Cutover
  /\ guard' = ExitReason /\ guard' # "idle"
  /\ UNCHANGED <<held, row, exposure, trader, copy, offered, regimeNow,
                 clockNow, opened, writeFaults, orderFaults, restarts>>

\* The order is filled, all of it or a part, and booked; the rest keeps what it
\* had. Nothing is filled that the exchange does not hold.
CloseFills(qty) ==
  /\ guard # "idle" /\ IsHeld
  /\ qty <= held.qty /\ qty <= exposure
  /\ exposure' = exposure - qty
  /\ held' = IF qty = held.qty THEN Flat ELSE [held EXCEPT !.qty = @ - qty]
  /\ Write(held')
  /\ guard' = "idle"
  /\ UNCHANGED <<trader, copy, offered, regimeNow, clockNow, opened,
                 orderFaults, restarts>>

\* The order fails; the next pass tries again. Without anything at the exchange
\* it always fails.
CloseFails ==
  /\ guard # "idle" /\ guard' = "idle"
  /\ IF exposure = 0 THEN UNCHANGED orderFaults
     ELSE orderFaults < OrderFaults /\ orderFaults' = orderFaults + 1
  /\ UNCHANGED <<held, row, exposure, trader, copy, offered, regimeNow,
                 clockNow, opened, writeFaults, restarts>>

\* A restart has the position of the row, if there is one.
RestoreFromPersistence ==
  /\ restarts < Restarts /\ restarts' = restarts + 1
  /\ held' = row
  /\ trader' = "idle" /\ copy' = Flat /\ offered' = NoOffer
  /\ guard' = "idle"
  /\ UNCHANGED <<row, exposure, regimeNow, clockNow, opened, writeFaults,
                 orderFaults>>

ProtectionClock ==
  /\ clockNow < LastTick /\ clockNow' = clockNow + 1
  /\ UNCHANGED <<held, row, exposure, trader, copy, offered, guard, regimeNow,
                 opened, writeFaults, orderFaults, restarts>>

Offers == [stop : Proposed, target : Proposed, regime : {"ranging", "trending"}]

ProtectionNext ==
  \/ \E side \in {1, -1}, offer \in Offers : OpenProtected(side, offer)
  \/ Protect
  \/ SaveLevels
  \/ \E p \in Prices : UpdatePrices(p)
  \/ SavePrices
  \/ \E r \in MarketRegimes : SaveRegime(r)
  \/ CheckPositionsOnce
  \/ \E qty \in {1, 2} : CloseFills(qty)
  \/ CloseFails
  \/ RestoreFromPersistence
  \/ ProtectionClock

ProtectionTypeOK ==
  /\ \A p \in {held, row} : p # Flat =>
       /\ p.id \in 1..opened /\ p.side \in {1, -1} /\ p.qty \in {1, 2}
       /\ p.since \in 0..LastTick
  /\ exposure \in 0..2
  /\ trader \in {"idle", "opened", "protected", "repriced"}
  /\ regimeNow \in MarketRegimes

-----------------------------------------------------------------------------

(* The levels of a protected position lie around its entry, on its own side,
   and the target pays at least for the round trip: whatever a strategy
   proposes, none of them is met by the entry price itself
   (_extract_strategy_prices, _apply_cost_guard). *)
LevelsBracket ==
  IsProtected(held) =>
    /\ held.side * held.levels.stop < held.side * EntryPrice
    /\ held.side * (held.levels.target - EntryPrice) >= CostTicks
    /\ held.levels.until = held.since + Holding

(* Every position opened after the cutover is protected once its opening is
   done, or was restored from a row that a crash or a failed write kept from
   the levels. *)
OpenedIsProtected ==
  (IsHeld /\ held.since >= Cutover /\ trader # "opened"
     /\ writeFaults = 0 /\ restarts = 0) => IsProtected(held)

(* The books and the row agree on the levels as soon as no write is under way
   and none has failed: a restart has the protection the worker had. *)
RowKnowsLevels ==
  (IsHeld /\ trader \in {"idle", "repriced"} /\ writeFaults = 0) =>
    row # Flat /\ row.levels = held.levels

(* A position keeps its levels and its deadline for as long as it lives,
   through price updates and partial closes: only a restart may take them, and
   only from a position whose row does not have them. *)
KeepsLevels ==
  (IsProtected(held) /\ held' # Flat /\ held'.id = held.id
     /\ held'.levels # held.levels) =>
    restarts' > restarts /\ row.levels = NoLevels

(* A protected position past its deadline is closed, through failing orders and
   restarts: the watchdog sends the order again until it is filled. *)
OverdueCloses ==
  (IsProtected(held) /\ Overdue /\ exposure > 0 /\ restarts = Restarts)
    ~> (~IsHeld \/ exposure = 0)

\* The watchdog's loop runs on whatever an order or a pass raises, and an order
\* that is sent comes to its end.
ProtectionFairness ==
  /\ WF_protectionVars(CheckPositionsOnce)
  /\ WF_protectionVars(CloseFails \/ \E qty \in {1, 2} : CloseFills(qty))

ProtectionSpec ==
  /\ ProtectionInit /\ [][ProtectionNext]_protectionVars
  /\ ProtectionFairness
=============================================================================
