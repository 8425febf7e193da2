-------------------------------- MODULE Grid --------------------------------
(***************************************************************************)
(* Futures grids of one worker on one symbol: GridController               *)
(* (execution/grid_controller.py) with its tables, driven by three tasks   *)
(* that interleave at every await and share the grids without a lock:      *)
(*   scheduler   GridScheduler.on_candle_event: opens, price ticks         *)
(*   hook        SymbolKillSwitch.deactivate: closes the symbol's grids    *)
(*   liquidator  PositionLiquidator: closes all grids on a kill switch     *)
(* An order goes through ExecutionEngine.execute (module OrderExecution),  *)
(* which is one step here: it fills wholly, partly or not at all.  Prices  *)
(* are the positions of the levels; a level opens with Lots.               *)
(***************************************************************************)
EXTENDS Integers, Sequences, FiniteSets, FiniteSetsExt, SequencesExt

CONSTANTS
  MaxGrids,    \* bound on grids opened
  NLevels,     \* price levels of a grid; prices are 1..NLevels
  Lots,        \* quantity of a whole opening order
  Closers,     \* closing tasks considered: hook, liquidator
  Overlap,     \* a task may start while another one works on the grids
  MaxTicks,    \* bound on price ticks
  MaxOffs,     \* bound on symbol deactivations and kill switches
  MaxFaults,   \* bound on refused, partly filled and unsaved steps
  MaxCrashes,  \* bound on restarts of the worker
  MaxEvents    \* bound on all of these together

ASSUME GridConstants ==
  /\ Closers \subseteq {"hook", "liquidator"}
  /\ Overlap \in BOOLEAN
  /\ {MaxGrids, NLevels, Lots} \subseteq Nat \ {0}
  /\ {MaxTicks, MaxOffs, MaxFaults, MaxCrashes, MaxEvents} \subseteq Nat

Grids == 1..MaxGrids
Tasks == {"scheduler"} \cup Closers
Levels == 1..NLevels
Directions == {"long", "short"}

VARIABLES
  up,        \* the worker process runs
  grid,      \* GridController._grids
  opened,    \* GridScheduler._open_grid_keys holds the symbol's key
  task,      \* where each task stands in its coroutine
  symbolOn,  \* SymbolKillSwitch.is_active of the symbol
  killed,    \* KillSwitch.is_active, restored from Redis at a start
  event,     \* a KillSwitchEvent with close_positions awaits delivery
  row,       \* the grids table
  ledger,    \* the grid_orders table: fills of each grid, in order
  exch,      \* net quantity the exchange holds for each grid
  count,     \* ticks, deactivations and kills, faults, crashes
  torn,      \* grids with a fill that reached no ledger (history)
  behind,    \* grids restored from a row older than the books (history)
  raced,     \* grids closed while another task worked on them (history)
  unfilled,  \* grids whose closing order was not wholly filled (history)
  missed     \* grids that a restart could not read (history)

books == <<grid, opened>>
tables == <<row, ledger>>
switches == <<symbolOn, killed, event>>
history == <<torn, behind, raced, unfilled, missed>>
gridVars == <<up, books, task, switches, tables, exch, count, history>>

-----------------------------------------------------------------------------
\* The states of a grid's levels: quantity held by each, 0 if not filled.
Flat == [l \in Levels |-> 0]

NoGrid == [status |-> "none", dir |-> "long", held |-> Flat, net |-> 0,
           price |-> 1]

NoRow == [status |-> "none", dir |-> "long", net |-> 0, price |-> 1]

NoTask ==
  [at |-> "idle", grid |-> 0, next |-> 1, price |-> 1, level |-> 1,
   opening |-> FALSE, qty |-> 0, got |-> 0, todo |-> {}]

IsActive(g) == grid[g].status = "active"
ActiveGrids == {g \in Grids : IsActive(g)}
Sign(dir) == IF dir = "long" THEN 1 ELSE -1
Held(held) == SumFunction(held)

\* What a grid becomes when it is built from its parameters.
NewGrid(dir, p) ==
  [NoGrid EXCEPT !.status = "active", !.dir = dir, !.price = p]

RowOf(b) == [status |-> b.status, dir |-> b.dir, net |-> b.net,
             price |-> b.price]

\* Statuses that a restart looks for.
OpenStatuses == {"pending", "active", "paused", "closing"}

Spend(what) == count' = [count EXCEPT ![what] = @ + 1]
MaySpend(what) ==
  /\ count.ticks + count.offs + count.faults + count.crashes < MaxEvents
  /\ count[what] < CASE what = "ticks" -> MaxTicks
                     [] what = "offs" -> MaxOffs
                     [] what = "faults" -> MaxFaults
                     [] what = "crashes" -> MaxCrashes

\* Where a run assumes so, a task starts only while the others rest.
MayStart(t) ==
  /\ up
  /\ task[t].at = "idle"
  /\ Overlap \/ \A u \in Tasks : task[u].at = "idle"

Working(t, g) == task[t].at # "idle" /\ task[t].grid = g

Init ==
  /\ up = TRUE
  /\ grid = [g \in Grids |-> NoGrid]
  /\ opened = FALSE
  /\ task = [t \in Tasks |-> NoTask]
  /\ symbolOn = TRUE
  /\ killed = FALSE
  /\ event = FALSE
  /\ row = [g \in Grids |-> NoRow]
  /\ ledger = [g \in Grids |-> <<>>]
  /\ exch = [g \in Grids |-> 0]
  /\ count = [c \in {"ticks", "offs", "faults", "crashes"} |-> 0]
  /\ torn = {}
  /\ behind = {}
  /\ raced = {}
  /\ unfilled = {}
  /\ missed = {}

-----------------------------------------------------------------------------
(***************************************************************************)
(* Opening a grid                                                          *)
(***************************************************************************)

\* Deviation: the scheduler does not look for an active grid.
MayOpen_Deviation == ~opened

\* Is there no grid to tick, and was none opened under this key before?
MayOpen == ActiveGrids = {} /\ ~opened

Unused(g) == grid[g] = NoGrid /\ row[g] = NoRow /\ ledger[g] = <<>>

\* A candle finds no active grid, and the gates let one pass: open_grid
\* builds and tracks it; its row is saved next.  (In LIVE mode two reads of
\* the account come before, but main.py gives no account to open with.)
Open(g, dir, p) ==
  /\ MayStart("scheduler")
  /\ symbolOn
  /\ MayOpen
  /\ Unused(g) /\ \A h \in Grids : Unused(h) => g <= h
  /\ grid' = [grid EXCEPT ![g] = NewGrid(dir, p)]
  /\ task' = [task EXCEPT !["scheduler"] =
                [NoTask EXCEPT !.at = "opensave", !.grid = g]]
  /\ UNCHANGED <<up, opened, switches, tables, exch, count, history>>

-----------------------------------------------------------------------------
(***************************************************************************)
(* A price tick, and the walk over the levels                              *)
(***************************************************************************)

\* Has a move from one price to another crossed this level?
Crossed(from, to, level) ==
  \/ to < from /\ to <= level /\ level < from
  \/ to > from /\ from < level /\ level <= to

\* A cell's entry is its lower level in a long grid, the upper in a short.
Entry(g, cell) == IF grid[g].dir = "long" THEN cell ELSE cell + 1
Exit(g, cell) == IF grid[g].dir = "long" THEN cell + 1 ELSE cell

\* The price moves so that a grid's levels open.
Entering(g, to) == IF grid[g].dir = "long" THEN to < grid[g].price
                   ELSE to > grid[g].price

\* At a tick a cell opens on the way in and closes on the way out.
TickOpens(t, cell) ==
  LET g == task[t].grid IN
  /\ grid[g].held[Entry(g, cell)] = 0
  /\ Crossed(grid[g].price, task[t].price, Entry(g, cell))
  /\ Entering(g, task[t].price)

TickCloses(t, cell) ==
  LET g == task[t].grid IN
  /\ grid[g].held[Entry(g, cell)] > 0
  /\ Crossed(grid[g].price, task[t].price, Exit(g, cell))
  /\ ~Entering(g, task[t].price)

\* Deviation: a close walks over the cells, which are one less.
Due_Deviation(t) ==
  {i \in task[t].next..NLevels - 1 :
     IF t = "scheduler" THEN TickOpens(t, i) \/ TickCloses(t, i)
     ELSE grid[task[t].grid].held[i] > 0}

\* Cells (of a tick) or levels (of a close) that want an order now.
Due(t) ==
  IF t = "scheduler"
  THEN {c \in task[t].next..NLevels - 1 : TickOpens(t, c) \/ TickCloses(t, c)}
  ELSE {l \in task[t].next..NLevels : grid[task[t].grid].held[l] > 0}

\* A candle finds an active grid.  The switch is read once, before the walk:
\* a symbol that is off gets no ticks.
BeginTick(g, p) ==
  /\ MayStart("scheduler")
  /\ MaySpend("ticks")
  /\ symbolOn
  /\ IsActive(g)
  /\ task' = [task EXCEPT !["scheduler"] =
                [NoTask EXCEPT !.at = "walk", !.grid = g, !.price = p]]
  /\ Spend("ticks")
  /\ UNCHANGED <<up, books, switches, tables, exch, history>>

\* The next order: its size is fixed here, before any await.
Walk(t) ==
  /\ up
  /\ task[t].at = "walk"
  /\ Due(t) # {}
  /\ LET g == task[t].grid
         i == Min(Due(t))
         l == IF t = "scheduler" THEN Entry(g, i) ELSE i
         opening == t = "scheduler" /\ TickOpens(t, i)
     IN task' = [task EXCEPT ![t] =
          [@ EXCEPT !.at = "submit", !.next = i + 1, !.level = l,
                    !.opening = opening,
                    !.qty = IF opening THEN Lots ELSE grid[g].held[l]]]
  /\ UNCHANGED <<up, books, switches, tables, exch, count, history>>

-----------------------------------------------------------------------------
(***************************************************************************)
(* One order of a level (_fill_level)                                      *)
(***************************************************************************)

\* The rate limiter, a gate or preflight refuses the order; so does an
\* active kill switch, for opening and closing orders alike.
Refuse(t) ==
  /\ up
  /\ task[t].at = "submit"
  /\ killed \/ MaySpend("faults")
  /\ task' = [task EXCEPT ![t].at = "walk"]
  /\ IF killed THEN UNCHANGED count ELSE Spend("faults")
  /\ unfilled' = unfilled \cup (IF task[t].opening THEN {} ELSE {task[t].grid})
  /\ UNCHANGED <<up, books, switches, tables, exch, torn, behind, raced,
                 missed>>

\* The order passes the kill switch and is on its way.
Send(t) ==
  /\ up
  /\ task[t].at = "submit"
  /\ ~killed
  /\ task' = [task EXCEPT ![t].at = "sent"]
  /\ UNCHANGED <<up, books, switches, tables, exch, count, history>>

\* What n filled lots of the task's order change at the exchange.
Delta(t, n) == Sign(grid[task[t].grid].dir) *
               (IF task[t].opening THEN n ELSE -n)

\* The exchange fills n lots, all, some or none; the result comes back.
Answer(t, n) ==
  /\ up
  /\ task[t].at = "sent"
  /\ IF n = task[t].qty THEN UNCHANGED count
     ELSE MaySpend("faults") /\ Spend("faults")
  /\ exch' = [exch EXCEPT ![task[t].grid] = @ + Delta(t, n)]
  /\ task' = [task EXCEPT ![t].got = n,
                          ![t].at = IF n = 0 THEN "walk" ELSE "ledger"]
  /\ unfilled' = unfilled \cup
       (IF ~task[t].opening /\ n < task[t].qty THEN {task[t].grid} ELSE {})
  /\ UNCHANGED <<up, books, switches, tables, torn, behind, raced, missed>>

\* A fill in the ledger; whole: the status of its order's row is "filled".
Fill(t) == [level |-> task[t].level, opening |-> task[t].opening,
            qty |-> task[t].got, whole |-> task[t].got = task[t].qty]

\* Deviation: any closing fill empties the level.
Rest_AllGone(held, n) == 0

\* Deviation: more may be taken off a level than it holds.
Rest_Unbounded(held, n) == held - n

\* What is left on a level after closing n lots of it.
Rest(held, n) == IF held - n <= 0 THEN 0 ELSE held - n

\* Deviation: the quantity that was ordered.
Counted_Deviation(t) == task[t].qty

\* What the task's order counts for: the quantity that was filled.
Counted(t) == task[t].got

\* The fill is written to the ledger, or the write fails; either way it is
\* booked on the level and on the grid's net quantity, with no await between.
Book(t) ==
  /\ up
  /\ task[t].at = "ledger"
  /\ \/ /\ ledger' = [ledger EXCEPT ![task[t].grid] = Append(@, Fill(t))]
        /\ UNCHANGED <<count, torn>>
     \/ /\ MaySpend("faults")
        /\ Spend("faults")
        /\ torn' = torn \cup {task[t].grid}
        /\ UNCHANGED ledger
  /\ LET g == task[t].grid
         n == Counted(t)
     IN grid' = [grid EXCEPT
          ![g].held[task[t].level] = IF task[t].opening THEN n ELSE Rest(@, n),
          ![g].net = @ + Delta(t, n)]
  /\ task' = [task EXCEPT ![t].at = "save"]
  /\ UNCHANGED <<up, opened, switches, row, exch, behind, raced, unfilled,
                 missed>>

\* The row takes the grid as it is now, or the write fails and is ignored.
SaveRow(g) ==
  \/ /\ row' = [row EXCEPT ![g] = RowOf(grid[g])]
     /\ UNCHANGED count
  \/ /\ MaySpend("faults")
     /\ Spend("faults")
     /\ UNCHANGED row

\* _persist after a fill: back to the walk.
Save(t) ==
  /\ up
  /\ task[t].at = "save"
  /\ SaveRow(task[t].grid)
  /\ task' = [task EXCEPT ![t].at = "walk"]
  /\ UNCHANGED <<up, books, switches, ledger, exch, history>>

\* The walk of a tick is over: the price is kept and saved.
EndTick ==
  /\ up
  /\ task["scheduler"].at = "walk"
  /\ Due("scheduler") = {}
  /\ grid' = [grid EXCEPT ![task["scheduler"].grid].price =
                task["scheduler"].price]
  /\ task' = [task EXCEPT !["scheduler"].at = "ticksave"]
  /\ UNCHANGED <<up, opened, switches, tables, exch, count, history>>

SaveTick ==
  /\ up
  /\ task["scheduler"].at = "ticksave"
  /\ SaveRow(task["scheduler"].grid)
  /\ task' = [task EXCEPT !["scheduler"] = NoTask]
  /\ UNCHANGED <<up, books, switches, ledger, exch, history>>

\* The row of a new grid; then the scheduler remembers its key.
SaveOpen ==
  /\ up
  /\ task["scheduler"].at = "opensave"
  /\ SaveRow(task["scheduler"].grid)
  /\ opened' = TRUE
  /\ task' = [task EXCEPT !["scheduler"] = NoTask]
  /\ UNCHANGED <<up, grid, switches, ledger, exch, history>>

\* An order that ended cancelled or unconfirmed counts as unfilled, though
\* the exchange filled n lots of it.
AnswerLost(t, n) ==
  /\ up
  /\ task[t].at = "sent"
  /\ MaySpend("faults")
  /\ Spend("faults")
  /\ exch' = [exch EXCEPT ![task[t].grid] = @ + Delta(t, n)]
  /\ task' = [task EXCEPT ![t].at = "walk"]
  /\ torn' = torn \cup {task[t].grid}
  /\ unfilled' = unfilled \cup (IF task[t].opening THEN {} ELSE {task[t].grid})
  /\ UNCHANGED <<up, books, switches, tables, behind, raced, missed>>

-----------------------------------------------------------------------------
(***************************************************************************)
(* Closing grids: the symbol switch's hook and the liquidator              *)
(***************************************************************************)

\* A closing task lists the active grids and works the list off.
List(t) == [NoTask EXCEPT !.at = "list", !.todo = ActiveGrids]

\* deactivate: the entry is set, then every hook runs.
Deactivate ==
  /\ up
  /\ MaySpend("offs")
  /\ Spend("offs")
  /\ symbolOn' = FALSE
  /\ IF "hook" \in Closers
     THEN MayStart("hook") /\ task' = [task EXCEPT !["hook"] = List("hook")]
     ELSE UNCHANGED task
  /\ UNCHANGED <<up, books, killed, event, tables, exch, history>>

Activate ==
  /\ up
  /\ ~symbolOn
  /\ symbolOn' = TRUE
  /\ UNCHANGED <<up, books, task, killed, event, tables, exch, count,
                 history>>

\* The kill switch goes on and asks for liquidation (module KillSwitch).
Kill ==
  /\ "liquidator" \in Closers
  /\ ~killed /\ MaySpend("offs")
  /\ Spend("offs")
  /\ killed' = TRUE
  /\ event' = TRUE
  /\ UNCHANGED <<up, books, task, symbolOn, tables, exch, history>>

Release ==
  /\ killed
  /\ killed' = FALSE
  /\ UNCHANGED <<up, books, task, symbolOn, event, tables, exch, count,
                 history>>

\* The liquidator takes the event, and turns to the grids.
Liquidate ==
  /\ "liquidator" \in Closers
  /\ event
  /\ MayStart("liquidator")
  /\ event' = FALSE
  /\ task' = [task EXCEPT !["liquidator"] = List("liquidator")]
  /\ UNCHANGED <<up, books, symbolOn, killed, tables, exch, count, history>>

\* close_grid of a listed grid that is still active.
CloseNext(t, g) ==
  /\ up
  /\ task[t].at = "list"
  /\ g \in task[t].todo
  /\ IsActive(g)
  /\ grid' = [grid EXCEPT ![g].status = "closing"]
  /\ task' = [task EXCEPT ![t].at = "walk", ![t].grid = g, ![t].next = 1,
                          ![t].todo = @ \ {g}]
  /\ raced' = raced \cup {h \in {g} : \E u \in Tasks : Working(u, h)}
  /\ UNCHANGED <<up, opened, switches, tables, exch, count, torn, behind,
                 unfilled, missed>>

\* A listed grid that another task has closed since is passed over.
SkipNext(t, g) ==
  /\ up
  /\ task[t].at = "list"
  /\ g \in task[t].todo
  /\ ~IsActive(g)
  /\ task' = [task EXCEPT ![t].todo = @ \ {g}]
  /\ UNCHANGED <<up, books, switches, tables, exch, count, history>>

\* Every filled level was given one order: the grid is closed, whatever the
\* orders did.
EndClose(t) ==
  /\ up
  /\ t \in Closers
  /\ task[t].at = "walk"
  /\ Due(t) = {}
  /\ grid' = [grid EXCEPT ![task[t].grid].status = "closed"]
  /\ task' = [task EXCEPT ![t].at = "closesave"]
  /\ UNCHANGED <<up, opened, switches, tables, exch, count, history>>

SaveClose(t) ==
  /\ up
  /\ task[t].at = "closesave"
  /\ SaveRow(task[t].grid)
  /\ task' = [task EXCEPT ![t].at = "list"]
  /\ UNCHANGED <<up, books, switches, ledger, exch, history>>

EndList(t) ==
  /\ up
  /\ task[t].at = "list"
  /\ task[t].todo = {}
  /\ task' = [task EXCEPT ![t] = NoTask]
  /\ UNCHANGED <<up, books, switches, tables, exch, count, history>>

-----------------------------------------------------------------------------
(***************************************************************************)
(* Crash and restart                                                       *)
(***************************************************************************)

\* The worker dies.  An order on its way may still be filled.  Grids, keys
\* and symbol switch are in memory only.
Crash ==
  /\ up
  /\ MaySpend("crashes")
  /\ Spend("crashes")
  /\ \E late \in SUBSET {t \in Tasks : task[t].at = "sent"} :
       /\ exch' = [g \in Grids |-> exch[g] + SumFunction(
            [t \in late |-> IF task[t].grid = g THEN Delta(t, task[t].qty)
                            ELSE 0])]
       /\ torn' = torn \cup {task[t].grid : t \in late}
                       \cup {task[t].grid :
                              t \in {u \in Tasks : task[u].at = "ledger"}}
  /\ behind' = behind \cup
       {g \in Grids : grid[g] # NoGrid /\ RowOf(grid[g]) # row[g]}
  /\ up' = FALSE
  /\ grid' = [g \in Grids |-> NoGrid]
  /\ opened' = FALSE
  /\ task' = [t \in Tasks |-> NoTask]
  /\ symbolOn' = TRUE
  /\ UNCHANGED <<killed, event, tables, raced, unfilled, missed>>

\* Deviation: a closing fill always empties its level.
Replay_Deviation(fills) ==
  FoldLeft(LAMBDA held, f :
             [held EXCEPT ![f.level] = IF f.opening THEN @ + f.qty ELSE 0],
           Flat, fills)

\* The levels that a ledger of fills leaves, from the first fill on.
Replay(fills) ==
  FoldLeft(LAMBDA held, f :
             [held EXCEPT ![f.level] = IF f.opening THEN @ + f.qty
                                       ELSE Rest(@, f.qty)],
           Flat, fills)

\* Every fill's order is "filled" in the orders table.
AllWhole(fills) == \A i \in DOMAIN fills : fills[i].whole

\* Deviation: only active grids are looked for.
Restorable_Deviation(g) == row[g].status = "active" /\ AllWhole(ledger[g])

\* A row is restored if it is open and its ledger is beyond doubt.
Restorable(g) == row[g].status \in OpenStatuses /\ AllWhole(ledger[g])

\* Levels come from the ledger, everything else from the row.
FromTables(g) == [status |-> row[g].status, dir |-> row[g].dir,
                  held |-> Replay(ledger[g]), net |-> row[g].net,
                  price |-> row[g].price]

\* restore_from_persistence, before any task starts; a failing database
\* leaves the worker without grids.
Restart ==
  /\ ~up
  /\ up' = TRUE
  /\ \/ /\ grid' = [g \in Grids |-> IF Restorable(g) THEN FromTables(g)
                                    ELSE NoGrid]
        /\ UNCHANGED <<count, missed>>
     \/ /\ MaySpend("faults")
        /\ Spend("faults")
        /\ missed' = missed \cup {g \in Grids : Restorable(g)}
        /\ UNCHANGED grid
  /\ UNCHANGED <<opened, task, switches, tables, exch, torn, behind, raced,
                 unfilled>>

-----------------------------------------------------------------------------
Step(t) ==
  \/ Walk(t)
  \/ Refuse(t)
  \/ Send(t)
  \/ \E n \in 0..task[t].qty : Answer(t, n)
  \/ \E n \in 1..task[t].qty : AnswerLost(t, n)
  \/ Book(t)
  \/ Save(t)

Scheduler ==
  \/ \E g \in Grids, d \in Directions, p \in Levels : Open(g, d, p)
  \/ SaveOpen
  \/ \E g \in Grids, p \in Levels : BeginTick(g, p)
  \/ EndTick
  \/ SaveTick

Close(t) ==
  \/ \E g \in Grids : CloseNext(t, g) \/ SkipNext(t, g)
  \/ EndClose(t)
  \/ SaveClose(t)
  \/ EndList(t)

Next ==
  \/ Scheduler
  \/ \E t \in Tasks : Step(t)
  \/ \E t \in Closers : Close(t)
  \/ Deactivate
  \/ Activate
  \/ Kill
  \/ Release
  \/ Liquidate
  \/ Crash
  \/ Restart

Spec == Init /\ [][Next]_gridVars

-----------------------------------------------------------------------------
TypeOK ==
  /\ up \in BOOLEAN /\ opened \in BOOLEAN /\ symbolOn \in BOOLEAN
  /\ killed \in BOOLEAN /\ event \in BOOLEAN
  /\ grid \in [Grids -> [status : {"none", "active", "closing", "closed"},
                         dir : Directions, held : [Levels -> Nat],
                         net : Int, price : Levels]]
  /\ \A g \in Grids \ torn, l \in Levels : grid[g].held[l] <= Lots
  /\ row \in [Grids -> [status : {"none", "active", "closing", "closed"},
                        dir : Directions, net : Int, price : Levels]]
  /\ task \in [Tasks -> [at : {"idle", "opensave", "walk", "submit", "sent",
                               "ledger", "save", "ticksave", "list",
                               "closesave"},
                         grid : Grids \cup {0}, next : 1..NLevels + 1,
                         price : Levels, level : Levels, opening : BOOLEAN,
                         qty : Nat, got : Nat, todo : SUBSET Grids]]
  /\ exch \in [Grids -> Int]
  /\ {torn, behind, raced, unfilled, missed} \subseteq SUBSET Grids

Tracked == {g \in Grids : grid[g].status # "none"}

\* Fills of the exchange that are on their way into the books of a grid.
InFlight(g) ==
  SumFunction([t \in {u \in Tasks : task[u].at = "ledger" /\ Working(u, g)} |->
                 Delta(t, task[t].got)])

(* The net quantity of a grid, from which the liquidator judges whether it is
   flat, is what the exchange holds: no interleaving, partial fill or refusal
   changes that, only a fill that reached no ledger and a restart from an
   older row do. *)
NetMatchesExchange ==
  \A g \in Tracked \ (torn \cup behind) : exch[g] = grid[g].net + InFlight(g)

(* The levels of a grid add up to what the exchange holds, before and after
   restarts, unless a fill was lost or a close ran beside another task. *)
LevelsMatchExchange ==
  \A g \in Tracked \ (torn \cup raced) :
    exch[g] = Sign(grid[g].dir) * Held(grid[g].held) + InFlight(g)

(* Replaying the ledger gives the levels the worker has in memory, however
   fills of several tasks interleave: what a restart would restore. *)
ReplayMatchesLevels ==
  \A g \in Tracked \ torn : Replay(ledger[g]) = grid[g].held

(* Books, levels and ledger of a grid agree with each other and with the
   exchange, as far as each of them is meant to. *)
BooksAgree == NetMatchesExchange /\ LevelsMatchExchange /\ ReplayMatchesLevels

(* At most one grid of the symbol is active, across restarts: two would both
   open levels.  A restart that could not read the table forgets a grid, and
   one that reads a row older than the books may bring a closed one back. *)
OneActiveGrid == Cardinality(ActiveGrids \ (missed \cup behind)) <= 1

(* A closed grid holds nothing, here and at the exchange, if its closing
   orders were filled and nothing else worked on it. *)
ClosedIsFlatIfFilled ==
  \A g \in Tracked \ (unfilled \cup raced \cup torn) :
    grid[g].status = "closed" => grid[g].held = Flat /\ exch[g] = 0

(* close_grid says of a closed grid that its exposure is 0 by definition. *)
ClosedIsFlat ==
  \A g \in Grids : grid[g].status = "closed" => grid[g].held = Flat

(* A restart that can read the tables brings back every grid with exposure,
   with its levels: also one that was being closed. *)
RestartKeepsExposure ==
  [][~up /\ up' =>
       \A g \in Grids \ (torn \cup raced \cup unfilled \cup missed') :
         exch[g] # 0 /\ row[g] # NoRow /\ AllWhole(ledger[g])
           => /\ grid'[g].status \in OpenStatuses
              /\ exch[g] = Sign(grid'[g].dir) * Held(grid'[g].held)]_gridVars
=============================================================================
