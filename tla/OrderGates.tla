----------------------------- MODULE OrderGates -----------------------------
(***************************************************************************)
(* What an order of one symbol passes in LIVE mode before the exchange     *)
(* sees it: the gates of ExecutionEngine.execute, the preflight checks,    *)
(* leverage, rounding to the exchange's steps and the operator's           *)
(* verification profile.  Several orders are under way at once; each await *)
(* lets the others go on.                                                  *)
(***************************************************************************)
EXTENDS Integers, FiniteSets

CONSTANTS
  Requests,      \* calls of execute
  Grids,         \* grids that order
  NoGrid,        \* metadata without a grid_id
  Quantities,    \* quantities of orders, in units of the symbol
  MaxHeld,       \* bound on the position
  StepSize,      \* amount_precision: quantities are multiples of it
  MinAmount,     \* min_amount of the exchange
  MaxOrders,     \* max_orders of the profile
  MaxGrids,      \* max_concurrent_grids of the profile
  PositionCap,   \* max_position_size_usd, at price 1
  MaxLoss,       \* max_loss_usd
  MaxDailyLoss,  \* max_daily_loss_usd
  Day,           \* 24 hours, in steps of the clock
  Duration,      \* max_duration_minutes, in steps of the clock
  GateErrors     \* bound on failing requests to the exchange

ASSUME OrderGateConstants ==
  /\ {StepSize, Day} \subseteq Nat \ {0}
  /\ Quantities \subseteq Nat \ {0}
  /\ {MaxHeld, MinAmount, MaxOrders, MaxGrids, PositionCap, MaxLoss,
      MaxDailyLoss, Duration, GateErrors} \subseteq Nat

VARIABLES
  request,     \* where each call stands, with its order
  killed,      \* the kill switch is active
  held,        \* the symbol's position at the exchange
  levered,     \* _leverage_cache knows the symbol
  submitted,   \* orders_submitted
  activeGrids, \* active_grid_ids
  loss,        \* cumulative_realized_loss_usd
  dayLoss,     \* daily_realized_loss_usd
  sinceReset,  \* time since daily_loss_reset_at
  age,         \* time since started_at
  stopped,     \* the profile is deactivated
  gateErrors   \* failing requests so far

budget == <<submitted, activeGrids, stopped>>
losses == <<loss, dayLoss, sinceReset>>
orderGateVars == <<request, killed, held, levered, budget, losses, age,
                   gateErrors>>

Order == [entry : BOOLEAN, quantity : Quantities, grid : Grids \cup {NoGrid}]
NoRequest == [stage |-> "idle"]
RequestStages == {"idle", "limits", "account", "leverage", "rounding",
                  "verify", "sent"}

OrderGatesInit ==
  /\ request = [c \in Requests |-> NoRequest]
  /\ killed = FALSE
  /\ held = 0
  /\ levered = FALSE
  /\ submitted = 0 /\ activeGrids = {} /\ stopped = FALSE
  /\ loss = 0 /\ dayLoss = 0 /\ sinceReset = 0
  /\ age = 0
  /\ gateErrors = 0

At(c, stage) == request[c].stage = stage
Go(c, stage) == request' = [request EXCEPT ![c].stage = stage]
Refuse(c) == request' = [request EXCEPT ![c] = NoRequest]

GateError == gateErrors < GateErrors /\ gateErrors' = gateErrors + 1

\* An order of an approved strategy; the switch stops entries, and lets the
\* closes of liquidator and watchdog pass.
BeginOrder(c, o) ==
  /\ At(c, "idle")
  /\ o.entry => ~killed
  /\ o.entry \/ o.grid = NoGrid
  /\ request' = [request EXCEPT ![c] =
       [stage |-> "limits", order |-> o, raw |-> TRUE, bypass |-> killed]]
  /\ UNCHANGED <<killed, held, levered, budget, losses, age, gateErrors>>

\* The report's second look at the switch, which counts like every check.
SwitchAllows(c) == ~killed

\* Preflight, first part: the exchange's limits (which it may not know), then
\* the switch; an error fails the check.
CheckLimits(c, known) ==
  /\ At(c, "limits")
  /\ \/ /\ known => request[c].order.quantity >= MinAmount
        /\ SwitchAllows(c)
        /\ Go(c, "account")
        /\ UNCHANGED gateErrors
     \/ /\ \/ (known /\ request[c].order.quantity < MinAmount) \/ ~SwitchAllows(c)
        /\ Refuse(c)
        /\ UNCHANGED gateErrors
     \/ Refuse(c) /\ GateError
  /\ UNCHANGED <<killed, held, levered, budget, losses, age>>

\* A reduce-only order must fit the position.
Fits(o) == o.entry \/ o.quantity <= held

\* Preflight, the rest: connection, market, balance, leverage, position.
CheckAccount(c) ==
  /\ At(c, "account")
  /\ \/ /\ Fits(request[c].order)
        /\ Go(c, IF request[c].order.entry THEN "leverage" ELSE "verify")
        /\ UNCHANGED gateErrors
     \/ ~Fits(request[c].order) /\ Refuse(c) /\ UNCHANGED gateErrors
     \/ Refuse(c) /\ GateError
  /\ UNCHANGED <<killed, held, levered, budget, losses, age>>

\* set_leverage, unless the cache has the symbol; an exchange without it is
\* remembered like a success, any other error refuses the order.
EnsureLeverage(c) ==
  /\ At(c, "leverage")
  /\ \/ Go(c, "rounding") /\ levered' = TRUE /\ UNCHANGED gateErrors
     \/ ~levered /\ Refuse(c) /\ GateError /\ UNCHANGED levered
  /\ UNCHANGED <<killed, held, budget, losses, age>>

RoundedDown(n) == n - (n % StepSize)

\* Deviation: only the quantity as ordered is held against the minimum.
BigEnough_Deviation(n) == n > 0

BigEnough(n) == n > 0 /\ n >= MinAmount

\* _quantize_order: rounded down and tested again; if limits or price cannot
\* be had, the order goes on as it is.
RoundOrder(c) ==
  /\ At(c, "rounding")
  /\ LET n == RoundedDown(request[c].order.quantity)
     IN \/ /\ BigEnough(n)
           /\ request' = [request EXCEPT ![c].stage = "verify",
                ![c].order.quantity = n, ![c].raw = FALSE]
           /\ UNCHANGED gateErrors
        \/ ~BigEnough(n) /\ Refuse(c) /\ UNCHANGED gateErrors
        \/ Go(c, "verify") /\ GateError
  /\ UNCHANGED <<killed, held, levered, budget, losses, age>>

\* A daily loss older than a day is forgotten at the next check.
DayLossNow == IF sinceReset >= Day THEN 0 ELSE dayLoss

\* Deviation: the window of the profile is not looked at again.
Spent_Deviation == loss >= MaxLoss

\* Reasons that deactivate the profile for good.
Spent == age >= Duration \/ loss >= MaxLoss \/ DayLossNow >= MaxDailyLoss

\* Deviation: the grids that run already are compared with the limit, the
\* new one is not.
GridFits_Deviation(g) == Cardinality(activeGrids) <= MaxGrids

GridFits(g) == g \in activeGrids \/ Cardinality(activeGrids) < MaxGrids

\* Deviation: the last order allowed is followed by one more.
WithinProfile_Deviation(o) ==
  /\ submitted <= MaxOrders
  /\ o.grid # NoGrid => GridFits(o.grid)
  /\ o.quantity <= PositionCap

WithinProfile(o) ==
  /\ submitted < MaxOrders
  /\ o.grid # NoGrid => GridFits(o.grid)
  /\ o.quantity <= PositionCap

ResetDay ==
  IF sinceReset >= Day THEN dayLoss' = 0 /\ sinceReset' = 0
  ELSE UNCHANGED <<dayLoss, sinceReset>>

\* The verification gate and the record of what it let through, with no await
\* between them; a market order's price is asked for first.
Verify(c) ==
  /\ At(c, "verify")
  /\ UNCHANGED gateErrors
  /\ IF stopped \/ Spent
     THEN Refuse(c) /\ stopped' = TRUE /\ UNCHANGED <<submitted, activeGrids>>
     ELSE IF ~WithinProfile(request[c].order)
     THEN Refuse(c) /\ UNCHANGED budget
     ELSE /\ Go(c, "sent")
          /\ submitted' = submitted + 1
          /\ activeGrids' = activeGrids \cup ({request[c].order.grid} \ {NoGrid})
          /\ UNCHANGED stopped
  /\ IF stopped \/ age >= Duration \/ loss >= MaxLoss
     THEN UNCHANGED <<dayLoss, sinceReset>> ELSE ResetDay
  /\ UNCHANGED <<killed, held, levered, loss, age>>

\* No price for a market order: refused.
NoPrice(c) ==
  /\ At(c, "verify")
  /\ Refuse(c)
  /\ GateError
  /\ UNCHANGED <<killed, held, levered, budget, losses, age>>

\* The exchange executes the order; a close may realise a loss, which the
\* portfolio reports to the profile.
Execute(c, lost) ==
  /\ At(c, "sent")
  /\ request[c].order.entry => lost = 0
  /\ held' = IF request[c].order.entry THEN held + request[c].order.quantity
             ELSE IF held > request[c].order.quantity
             THEN held - request[c].order.quantity ELSE 0
  /\ held' <= MaxHeld
  /\ loss + lost <= MaxLoss
  /\ loss' = loss + lost
  /\ dayLoss' = dayLoss + lost
  /\ Refuse(c)
  /\ UNCHANGED <<killed, levered, budget, sinceReset, age, gateErrors>>

SwitchGate == /\ killed' = ~killed
              /\ UNCHANGED <<request, held, levered, budget, losses, age,
                             gateErrors>>

GateTime ==
  /\ age < Duration
  /\ age' = age + 1
  /\ sinceReset' = IF sinceReset < Day THEN sinceReset + 1 ELSE sinceReset
  /\ UNCHANGED <<request, killed, held, levered, budget, loss, dayLoss,
                 gateErrors>>

OrderGatesNext ==
  \/ \E c \in Requests :
       \/ \E o \in Order : BeginOrder(c, o)
       \/ \E known \in BOOLEAN : CheckLimits(c, known)
       \/ CheckAccount(c) \/ EnsureLeverage(c) \/ RoundOrder(c)
       \/ Verify(c) \/ NoPrice(c)
       \/ \E lost \in 0..1 : Execute(c, lost)
  \/ SwitchGate \/ GateTime

OrderGatesSpec == OrderGatesInit /\ [][OrderGatesNext]_orderGateVars

-----------------------------------------------------------------------------
OrderGatesTypeOK ==
  /\ \A c \in Requests : request[c].stage \in RequestStages
  /\ {killed, levered, stopped} \subseteq BOOLEAN
  /\ held \in 0..MaxHeld
  /\ submitted \in 0..MaxOrders /\ activeGrids \subseteq Grids
  /\ {loss, dayLoss} \subseteq 0..MaxLoss
  /\ sinceReset \in 0..Day /\ age \in 0..Duration
  /\ gateErrors \in 0..GateErrors

(* Orders that reach the verification gate together cannot overdraw its
   budget: what was let through stays within the profile's number of orders
   and of grids. *)
ProfileKept == submitted <= MaxOrders /\ Cardinality(activeGrids) <= MaxGrids

(* An entry the exchange gets has a quantity it takes, after the rounding as
   well as before it, unless its limits could not be read. *)
EntriesConform ==
  \A c \in Requests :
    At(c, "sent") /\ request[c].order.entry /\ ~request[c].raw =>
      /\ request[c].order.quantity % StepSize = 0
      /\ request[c].order.quantity >= MinAmount

(* A profile that has run out of time or has lost its budget lets nothing
   through any more, whatever has happened while the order was on its way. *)
SpentIsFinal ==
  stopped \/ age >= Duration \/ loss >= MaxLoss => submitted' = submitted
=============================================================================
