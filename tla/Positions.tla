------------------------------ MODULE Positions ------------------------------
(***************************************************************************)
(* The books of one worker: PortfolioEngine (portfolio/engine.py), its     *)
(* rows in the positions table (core/repositories.py), and the three tasks *)
(* that place orders and book the fills themselves - the                   *)
(* TradingOrchestrator, the PositionProtectionWatchdog and the             *)
(* PositionLiquidator.  Each task is sequential, but they interleave at    *)
(* every await, on the same books and without a lock.                      *)
(*                                                                         *)
(* An order is sent, filled by the exchange (module OrderExecution) and    *)
(* booked.  A lot costs 1 and there are no fees, so cash counts lots.      *)
(***************************************************************************)
EXTENDS Integers, FiniteSets, FiniteSetsExt

CONSTANTS
  Symbols,
  Lots,        \* quantity of every entry order
  Modes,       \* trading modes considered: LIVE, PAPER
  Regimes,     \* which tasks run alone: the cases considered
  MaxOpens,    \* bound on positions opened
  MaxEvents,   \* bound on kill switch events with close_positions
  MaxFaults,   \* bound on failing database operations
  MaxCrashes,  \* bound on restarts of the worker
  MaxTotal     \* bound on openings, faults and restarts together

Tasks == {"orchestrator", "watchdog", "liquidator"}
Closers == {"watchdog", "liquidator"}

ASSUME ConstantsOK ==
  /\ IsFiniteSet(Symbols)
  /\ Lots \in Nat \ {0}
  /\ Modes \subseteq {"LIVE", "PAPER"}
  /\ Regimes \subseteq SUBSET Tasks
  /\ {MaxOpens, MaxEvents, MaxFaults, MaxCrashes, MaxTotal} \subseteq Nat

VARIABLES
  mode,       \* the worker's trading mode
  alone,      \* tasks assumed to run while no other task does
  up,         \* the worker process runs
  net,        \* signed position of each symbol at the exchange
  positions,  \* PortfolioState._positions
  cash,       \* PortfolioState._cash, less the initial cash
  rows,       \* the positions table
  opens,      \* positions opened so far; also the next position id
  pc,         \* where each task stands
  order,      \* the order a task works on, and what was filled of it
  mine,       \* the Position object a task holds across an await
  todo,       \* the positions a closer has listed and not yet handled
  halted,     \* the worker's kill switch is active
  events,     \* kill switch events not yet handled
  tries,      \* attempts at the first of them
  flat,       \* what the liquidator will report
  faults,     \* failures of the database so far
  torn,       \* a restart met rows that were not the books (history)
  crashes     \* restarts so far

fixed == <<mode, alone>>
tasks == <<pc, order, mine, todo>>
books == <<positions, cash, opens>>
kill == <<halted, events, tries, flat>>
vars == <<fixed, up, net, books, rows, tasks, kill, faults, torn, crashes>>

-----------------------------------------------------------------------------
NoPosition == [id |-> 0, side |-> 0, qty |-> 0, guarded |-> FALSE]
NoOrder == [symbol |-> CHOOSE s \in Symbols : TRUE, side |-> 0, qty |-> 0,
            reduceOnly |-> FALSE, filled |-> 0]

Position == [id : Nat \ {0}, side : {1, -1}, qty : 1..Lots,
             guarded : BOOLEAN]

\* Side and quantity as one number: long positive, short negative.
Signed(p) == p.side * p.qty
Row(s, p) == [symbol |-> s, position |-> p, open |-> TRUE]
NoPositions == [s \in Symbols |-> NoPosition]

OpenRows == {r \in rows : r.open}
BookRows == {Row(s, positions[s]) :
               s \in {t \in Symbols : positions[t] # NoPosition}}

\* Worker and table of a fresh start, or of a restart with open positions.
Init ==
  /\ mode \in Modes
  /\ alone \in Regimes
  /\ up = TRUE
  /\ \E held \in SUBSET Symbols, d \in {1, -1} :
       LET id == CHOOSE f \in [Symbols -> 1..Cardinality(Symbols)] :
                   \A s, t \in Symbols : f[s] = f[t] => s = t
       IN positions = [s \in Symbols |->
            IF s \in held THEN [id |-> id[s], side |-> d, qty |-> Lots,
                                guarded |-> TRUE]
            ELSE NoPosition]
  /\ opens = Cardinality(Symbols)
  /\ net = [s \in Symbols |-> Signed(positions[s])]
  /\ cash = -SumFunction(net)
  /\ rows = BookRows
  /\ pc = [a \in Tasks |-> "idle"]
  /\ order = [a \in Tasks |-> NoOrder]
  /\ mine = [a \in Tasks |-> NoPosition]
  /\ todo = [a \in Closers |-> NoPositions]
  /\ halted = FALSE
  /\ events = 0
  /\ tries = 0
  /\ flat = TRUE
  /\ faults = 0
  /\ torn = FALSE
  /\ crashes = 0

Goto(a, p) == pc' = [pc EXCEPT ![a] = p]

\* The bounds of the runs: openings, faults and restarts, each and together.
Room == (opens - Cardinality(Symbols)) + faults + crashes < MaxTotal
MoreOpens == opens - Cardinality(Symbols) < MaxOpens /\ Room

\* Task a may begin: where that is assumed, only while the others rest.
MayBegin(a) ==
  /\ up
  /\ pc[a] = "idle"
  /\ \A b \in Tasks \ {a} : pc[b] # "idle" => {a, b} \cap alone = {}

\* The task has done with its order: the orchestrator's cycle ends, a closer
\* goes on with its list.
Finish(a, p) ==
  /\ Goto(a, p)
  /\ order' = [order EXCEPT ![a] = NoOrder]
  /\ mine' = [mine EXCEPT ![a] = NoPosition]
Proceed(a) == Finish(a, IF a = "orchestrator" THEN "idle" ELSE "next")

(***************************************************************************)
(* PositionRepository, and the "best-effort" calls of it                   *)
(***************************************************************************)

\* Deviation: the open row is not looked for.
Upsert_Inserts(s, p) == rows' = rows \cup {Row(s, p)}

\* upsert_open: an open row of the symbol is updated and keeps its id; else
\* a row is inserted, which fails if the id is taken.
Upsert(s, p) ==
  LET old == {r \in rows : r.open /\ r.symbol = s}
      taken == \E r \in rows : r.position.id = p.id
  IN rows' = IF old # {}
             THEN (rows \ old) \cup
                    {Row(s, [p EXCEPT !.id = r.position.id]) : r \in old}
             ELSE IF taken THEN rows
             ELSE rows \cup {Row(s, p)}

\* close: by id; no row with the id, no effect.
CloseRow(id) ==
  rows' = {IF r.position.id = id THEN [r EXCEPT !.open = FALSE] ELSE r :
             r \in rows}

\* The error is logged, and nobody makes up for it.
DbFault ==
  faults < MaxFaults /\ Room /\ faults' = faults + 1 /\ rows' = rows

SaveUpsert(s, p) == (Upsert(s, p) /\ UNCHANGED faults) \/ DbFault
SaveClose(id) == (CloseRow(id) /\ UNCHANGED faults) \/ DbFault

(***************************************************************************)
(* The orchestrator: a candle reprices, and may lead to an entry           *)
(***************************************************************************)

\* update_prices: the new Position objects stand before the first await.
Reprice(s) ==
  /\ MayBegin("orchestrator")
  /\ positions[s] # NoPosition
  /\ order' = [order EXCEPT !["orchestrator"].symbol = s]
  /\ mine' = [mine EXCEPT !["orchestrator"] = positions[s]]
  /\ Goto("orchestrator", "savePrice")
  /\ UNCHANGED <<fixed, up, net, books, rows, todo, kill, faults, torn,
                 crashes>>

SavePrice ==
  /\ pc["orchestrator"] = "savePrice"
  /\ SaveUpsert(order["orchestrator"].symbol, mine["orchestrator"])
  /\ Finish("orchestrator", "idle")
  /\ UNCHANGED <<fixed, up, net, books, todo, kill, torn, crashes>>

\* Deviation: an open position of the symbol does not stop the entry.
Enter_Pyramids(s) ==
  /\ MayBegin("orchestrator")
  /\ ~halted
  /\ MoreOpens
  /\ \E d \in {1, -1} :
       order' = [order EXCEPT !["orchestrator"] =
                   [symbol |-> s, side |-> d, qty |-> Lots,
                    reduceOnly |-> FALSE, filled |-> 0]]
  /\ Goto("orchestrator", "sent")
  /\ UNCHANGED <<fixed, up, net, books, rows, mine, todo, kill, faults, torn,
                 crashes>>

\* RiskEngine.evaluate approves a signal: kill switch off, and no open
\* position of the symbol in the books it was handed.
Enter(s) ==
  /\ MayBegin("orchestrator")
  /\ ~halted
  /\ positions[s] = NoPosition
  /\ MoreOpens
  /\ \E d \in {1, -1} :
       order' = [order EXCEPT !["orchestrator"] =
                   [symbol |-> s, side |-> d, qty |-> Lots,
                    reduceOnly |-> FALSE, filled |-> 0]]
  /\ Goto("orchestrator", "sent")
  /\ UNCHANGED <<fixed, up, net, books, rows, mine, todo, kill, faults, torn,
                 crashes>>

(***************************************************************************)
(* The closers: a list of Position objects, handled one after the other    *)
(***************************************************************************)

\* check_positions_once; a position without exit levels gives no exit.
Tick ==
  /\ MayBegin("watchdog")
  /\ \E s \in Symbols : positions[s].guarded
  /\ todo' = [todo EXCEPT !["watchdog"] =
                [s \in Symbols |-> IF positions[s].guarded THEN positions[s]
                                   ELSE NoPosition]]
  /\ Goto("watchdog", "next")
  /\ UNCHANGED <<fixed, up, net, books, rows, order, mine, kill, faults, torn,
                 crashes>>

\* on_kill_switch_event with close_positions, or a retry of it.
OnKillSwitchEvent ==
  /\ MayBegin("liquidator")
  /\ events > 0
  /\ tries' = tries + 1
  /\ todo' = [todo EXCEPT !["liquidator"] = positions]
  /\ Goto("liquidator", "next")
  /\ UNCHANGED <<fixed, up, net, books, rows, order, mine, halted, events,
                 flat, faults, torn, crashes>>

\* Deviation: the position stays on the list after its order.
Close_Again(a, s) ==
  LET p == todo[a][s]
  IN /\ pc[a] = "next"
     /\ p # NoPosition
     /\ order' = [order EXCEPT ![a] = [symbol |-> s, side |-> -p.side,
                    qty |-> p.qty, reduceOnly |-> TRUE, filled |-> 0]]
     /\ Goto(a, "sent")
     /\ UNCHANGED <<fixed, up, net, books, rows, mine, todo, kill, faults,
                    torn, crashes>>

\* _close_position: a reduce_only order against the listed position.
Close(a, s) ==
  LET p == todo[a][s]
  IN /\ pc[a] = "next"
     /\ p # NoPosition
     /\ order' = [order EXCEPT ![a] = [symbol |-> s, side |-> -p.side,
                    qty |-> p.qty, reduceOnly |-> TRUE, filled |-> 0]]
     /\ todo' = [todo EXCEPT ![a][s] = NoPosition]
     /\ Goto(a, "sent")
     /\ UNCHANGED <<fixed, up, net, books, rows, mine, kill, faults, torn,
                    crashes>>

\* The watchdog finds no reason to exit.
Keep(s) ==
  /\ pc["watchdog"] = "next"
  /\ todo["watchdog"][s] # NoPosition
  /\ todo' = [todo EXCEPT !["watchdog"][s] = NoPosition]
  /\ UNCHANGED <<fixed, up, net, books, rows, pc, order, mine, kill, faults,
                 torn, crashes>>

ListDone(a) == pc[a] = "next" /\ todo[a] = NoPositions

EndTick ==
  /\ ListDone("watchdog")
  /\ Goto("watchdog", "idle")
  /\ UNCHANGED <<fixed, up, net, books, rows, order, mine, todo, kill, faults,
                 torn, crashes>>

\* The verdict is logged and the event acknowledged.
EndLiquidation ==
  /\ ListDone("liquidator")
  /\ Goto("liquidator", "idle")
  /\ events' = events - 1
  /\ tries' = 0
  /\ flat' = TRUE
  /\ UNCHANGED <<fixed, up, net, books, rows, order, mine, todo, halted,
                 faults, torn, crashes>>

(***************************************************************************)
(* ExecutionEngine.execute, seen from the tasks                            *)
(***************************************************************************)

\* What of an order can be filled: a live exchange reduces only what there
\* is and may fill in part; a paper fill is complete and asks nobody.
Fillable(o) ==
  IF mode = "PAPER" THEN {o.qty}
  ELSE IF ~o.reduceOnly THEN 1..o.qty
  ELSE {q \in 1..o.qty : q <= -o.side * net[o.symbol]}

Fill(a) ==
  /\ pc[a] = "sent"
  /\ \E q \in Fillable(order[a]) :
       /\ net' = [net EXCEPT ![order[a].symbol] = @ + order[a].side * q]
       /\ order' = [order EXCEPT ![a].filled = q]
       /\ flat' = (flat /\ (a = "liquidator" => q = order[a].qty))
  /\ Goto(a, "filled")
  /\ UNCHANGED <<fixed, up, books, rows, mine, todo, halted, events, tries,
                 faults, torn, crashes>>

\* Deviation: a closing order without a fill counts as a close.
NoFill_CountsAsClosed(a) ==
  /\ pc[a] = "sent"
  /\ Proceed(a)
  /\ UNCHANGED <<fixed, up, net, books, rows, todo, kill, faults, torn,
                 crashes>>

\* Refused or unfilled.
NoFill(a) ==
  /\ pc[a] = "sent"
  /\ Proceed(a)
  /\ flat' = (flat /\ a # "liquidator")
  /\ UNCHANGED <<fixed, up, net, books, rows, todo, halted, events, tries,
                 faults, torn, crashes>>

(***************************************************************************)
(* PortfolioEngine.on_order_filled                                         *)
(***************************************************************************)

\* No position of the symbol: whatever the fill was for, it opens one.
OpenPosition(a) ==
  LET o == order[a]
      p == [id |-> opens + 1, side |-> o.side, qty |-> o.filled,
            guarded |-> FALSE]
  IN /\ pc[a] = "filled"
     /\ positions[o.symbol] = NoPosition
     /\ MoreOpens
     /\ positions' = [positions EXCEPT ![o.symbol] = p]
     /\ cash' = cash - Signed(p)
     /\ opens' = opens + 1
     /\ mine' = [mine EXCEPT ![a] = p]
     /\ Goto(a, "saveOpened")
     /\ UNCHANGED <<fixed, up, net, rows, order, todo, kill, faults, torn,
                    crashes>>

\* The row is written; then the protection hook's copy, with exit levels,
\* replaces whatever the books hold by now - if the hook sets any.
SaveOpened(a) ==
  LET guarded == [mine[a] EXCEPT !.guarded = TRUE]
  IN /\ pc[a] = "saveOpened"
     /\ SaveUpsert(order[a].symbol, mine[a])
     /\ \/ /\ positions' = [positions EXCEPT ![order[a].symbol] = guarded]
           /\ mine' = [mine EXCEPT ![a] = guarded]
           /\ Goto(a, "saveAgain")
           /\ UNCHANGED order
        \/ /\ Proceed(a)
           /\ UNCHANGED positions
     /\ UNCHANGED <<fixed, up, net, cash, opens, todo, kill, torn, crashes>>

\* The upsert that ends an opening, or a reduction.
SaveAgain(a) ==
  /\ pc[a] = "saveAgain"
  /\ SaveUpsert(order[a].symbol, mine[a])
  /\ Proceed(a)
  /\ UNCHANGED <<fixed, up, net, books, todo, kill, torn, crashes>>

\* A fill on the side of the position is dropped without a word.
IgnoreFill(a) ==
  /\ pc[a] = "filled"
  /\ positions[order[a].symbol].side = order[a].side
  /\ Proceed(a)
  /\ UNCHANGED <<fixed, up, net, books, rows, todo, kill, faults, torn,
                 crashes>>

\* A fill against it: the position is remembered, the trade written.
RecordTrade(a) ==
  /\ pc[a] = "filled"
  /\ positions[order[a].symbol].side = -order[a].side
  /\ mine' = [mine EXCEPT ![a] = positions[order[a].symbol]]
  /\ Goto(a, "traded")
  /\ UNCHANGED <<fixed, up, net, books, rows, order, todo, kill, faults, torn,
                 crashes>>

\* Deviation: a complete close leaves an empty position behind.
ClosePosition_KeepsEmpty(a) ==
  LET s == order[a].symbol
  IN /\ pc[a] = "traded"
     /\ order[a].filled >= mine[a].qty
     /\ positions[s] # NoPosition
     /\ positions' = [positions EXCEPT ![s] = [mine[a] EXCEPT !.qty = 0]]
     /\ cash' = cash + Signed(mine[a])
     /\ Goto(a, "saveClosed")
     /\ UNCHANGED <<fixed, up, net, rows, opens, order, mine, todo, kill,
                    faults, torn, crashes>>

\* The remembered position is closed; what the symbol holds by now goes.
ClosePosition(a) ==
  LET s == order[a].symbol
  IN /\ pc[a] = "traded"
     /\ order[a].filled >= mine[a].qty
     /\ positions[s] # NoPosition
     /\ positions' = [positions EXCEPT ![s] = NoPosition]
     /\ cash' = cash + Signed(mine[a])
     /\ Goto(a, "saveClosed")
     /\ UNCHANGED <<fixed, up, net, rows, opens, order, mine, todo, kill,
                    faults, torn, crashes>>

SaveClosed(a) ==
  /\ pc[a] = "saveClosed"
  /\ SaveClose(mine[a].id)
  /\ Proceed(a)
  /\ UNCHANGED <<fixed, up, net, books, todo, kill, torn, crashes>>

\* del raises a KeyError when the position is gone: a closer of the watchdog
\* goes on, the liquidator's handler fails and the event is tried again, at
\* most three times.
CloseFails(a) ==
  /\ pc[a] = "traded"
  /\ order[a].filled >= mine[a].qty
  /\ positions[order[a].symbol] = NoPosition
  /\ \/ /\ a # "liquidator"
        /\ Proceed(a)
        /\ UNCHANGED <<todo, events, tries, flat>>
     \/ /\ a = "liquidator"
        /\ Finish(a, "idle")
        /\ todo' = [todo EXCEPT ![a] = NoPositions]
        /\ events' = IF tries = 3 THEN events - 1 ELSE events
        /\ tries' = IF tries = 3 THEN 0 ELSE tries
        /\ flat' = TRUE
  /\ UNCHANGED <<fixed, up, net, books, rows, halted, faults, torn, crashes>>

\* Deviation: the reduced position stays in the table only.
ReducePosition_NotInMemory(a) ==
  LET rest == [mine[a] EXCEPT !.qty = @ - order[a].filled]
  IN /\ pc[a] = "traded"
     /\ order[a].filled < mine[a].qty
     /\ cash' = cash + mine[a].side * order[a].filled
     /\ mine' = [mine EXCEPT ![a] = rest]
     /\ Goto(a, "saveAgain")
     /\ UNCHANGED <<fixed, up, net, positions, rows, opens, order, todo, kill,
                    faults, torn, crashes>>

\* A partial close puts back the rest of the remembered position.
ReducePosition(a) ==
  LET rest == [mine[a] EXCEPT !.qty = @ - order[a].filled]
  IN /\ pc[a] = "traded"
     /\ order[a].filled < mine[a].qty
     /\ positions' = [positions EXCEPT ![order[a].symbol] = rest]
     /\ cash' = cash + mine[a].side * order[a].filled
     /\ mine' = [mine EXCEPT ![a] = rest]
     /\ Goto(a, "saveAgain")
     /\ UNCHANGED <<fixed, up, net, rows, opens, order, todo, kill, faults,
                    torn, crashes>>

(***************************************************************************)
(* Kill switch, crash and restart                                          *)
(***************************************************************************)

\* trigger(close_positions=True): the flag at once, the event over the bus.
Trigger ==
  /\ events < MaxEvents
  /\ halted' = TRUE
  /\ events' = events + 1
  /\ UNCHANGED <<fixed, up, net, books, rows, tasks, tries, flat, faults,
                 torn, crashes>>

Reset ==
  /\ halted
  /\ halted' = FALSE
  /\ UNCHANGED <<fixed, up, net, books, rows, tasks, events, tries, flat,
                 faults, torn, crashes>>

Busy(a) == pc[a] \notin {"idle", "next"}

\* An event that was delivered and not acknowledged is not read again, nor
\* are those that came with it.
Crash ==
  /\ up
  /\ crashes < MaxCrashes
  /\ Room
  /\ up' = FALSE
  /\ positions' = NoPositions
  /\ cash' = 0
  /\ pc' = [a \in Tasks |-> "idle"]
  /\ order' = [a \in Tasks |-> NoOrder]
  /\ mine' = [a \in Tasks |-> NoPosition]
  /\ todo' = [a \in Closers |-> NoPositions]
  /\ tries' = 0
  /\ events' \in IF tries > 0 THEN 0..(events - 1) ELSE {events}
  /\ flat' = TRUE
  /\ torn' = (torn \/ OpenRows # BookRows \/ \E a \in Tasks : Busy(a))
  /\ crashes' = crashes + 1
  /\ UNCHANGED <<fixed, net, rows, opens, halted, faults>>

\* Deviation: the cash bound in the restored positions is forgotten.
Restart_CashUntouched ==
  /\ ~up
  /\ up' = TRUE
  /\ positions' = [s \in Symbols |->
       IF \E r \in rows : r.open /\ r.symbol = s
       THEN (CHOOSE r \in rows : r.open /\ r.symbol = s).position
       ELSE NoPosition]
  /\ UNCHANGED <<fixed, net, cash, opens, rows, tasks, kill, faults, torn,
                 crashes>>

\* restore_from_persistence, before trading begins.
Restart ==
  /\ ~up
  /\ up' = TRUE
  /\ positions' = [s \in Symbols |->
       IF \E r \in rows : r.open /\ r.symbol = s
       THEN (CHOOSE r \in rows : r.open /\ r.symbol = s).position
       ELSE NoPosition]
  /\ cash' = -SumFunction([s \in Symbols |-> Signed(positions'[s])])
  /\ UNCHANGED <<fixed, net, opens, rows, tasks, kill, faults, torn, crashes>>

\* It fails; RecoveryManager logs that, and the lifespan goes on.
RestartEmpty ==
  /\ ~up
  /\ DbFault
  /\ up' = TRUE
  /\ torn' = TRUE
  /\ UNCHANGED <<fixed, net, books, tasks, kill, crashes>>

-----------------------------------------------------------------------------
OnOrderFilled(a) ==
  \/ OpenPosition(a) \/ SaveOpened(a) \/ SaveAgain(a) \/ IgnoreFill(a)
  \/ RecordTrade(a) \/ ClosePosition(a) \/ SaveClosed(a) \/ CloseFails(a)
  \/ ReducePosition(a)

Next ==
  \/ \E s \in Symbols : Reprice(s) \/ Enter(s) \/ Keep(s)
  \/ SavePrice
  \/ Tick \/ EndTick
  \/ OnKillSwitchEvent \/ EndLiquidation
  \/ \E a \in Closers, s \in Symbols : Close(a, s)
  \/ \E a \in Tasks : Fill(a) \/ NoFill(a) \/ OnOrderFilled(a)
  \/ Trigger \/ Reset
  \/ Crash \/ Restart \/ RestartEmpty

Spec == Init /\ [][Next]_vars

-----------------------------------------------------------------------------
(* Properties *)

\* Every variable keeps its type; in particular the books hold no empty and
\* no negative position, and the table has no more than one row of an id.
TypeOK ==
  /\ mode \in Modes
  /\ alone \in Regimes
  /\ {up, halted, flat, torn} \subseteq BOOLEAN
  /\ net \in [Symbols -> Int]
  /\ positions \in [Symbols -> Position \cup {NoPosition}]
  /\ cash \in Int
  /\ \A r \in rows : /\ r.symbol \in Symbols
                     /\ r.position \in Position
                     /\ r.position.id <= opens
                     /\ r.open \in BOOLEAN
  /\ \A q, r \in rows : q.position.id = r.position.id => q = r
  /\ \A a \in Tasks : order[a].filled <= order[a].qty
  /\ \A a \in Closers : todo[a] \in [Symbols -> Position \cup {NoPosition}]
  /\ mine \in [Tasks -> Position \cup {NoPosition}]
  /\ events \in 0..MaxEvents
  /\ tries \in 0..3
  /\ faults \in 0..MaxFaults
  /\ crashes \in 0..MaxCrashes

\* The emergency close runs while the other tasks rest. Nothing in the code
\* sees to that, and what follows fails without it.
Undisturbed == "liquidator" \in alone

\* Cash and positions always balance: every entry, close, reduction and
\* restore books the same quantity on both sides (the sign of a short entry
\* and the cash of restored positions were wrong once).
ValueConserved ==
  Undisturbed /\ up =>
    cash + SumFunction([s \in Symbols |-> Signed(positions[s])]) = 0

AtRest == up /\ \A a \in Tasks : ~Busy(a)

\* When no order is under way, the books say what is held at the exchange,
\* also after a restart - unless that met rows that were not the books.
BooksMatchExchange ==
  Undisturbed /\ AtRest /\ ~torn =>
    \A s \in Symbols : net[s] = Signed(positions[s])

WithinOneEntry == \A s \in Symbols : net[s] \in -Lots..Lots

\* At any time, of any entries and exits interleaving: the exposure in a
\* symbol is at most that of one entry.
OneEntryPerSymbol == Undisturbed /\ ~torn => WithinOneEntry

\* In live trading, where the exchange's own position limits a reduce_only
\* order, nobody has to take turns for that: an open position rejects a signal
\* to "avoid pyramiding/opposite exposure".
OneLiveEntryPerSymbol == mode = "LIVE" /\ ~torn => WithinOneEntry

\* Exits are "IMMER de-risking": the books of no symbol grow by a fill of
\* the watchdog or the liquidator.
ClosersNeverOpen ==
  [][Undisturbed => \A a \in Closers : ~OpenPosition(a)]_vars

\* There is one open row for a symbol at most, however upserts, closes and
\* restarts interleave.
OneOpenRow ==
  \A q, r \in rows : q.open /\ r.open /\ q.symbol = r.symbol => q = r

\* "Nach Emergency Close muss NET EXPOSURE = 0 beweisbar sein": when the
\* liquidator reports net_exposure_zero, nothing is held at the exchange.
FlatMeansFlat ==
  [][Undisturbed /\ EndLiquidation /\ flat /\ ~torn =>
       \A s \in Symbols : net[s] = 0]_vars

=============================================================================
