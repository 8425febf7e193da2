---------------------------- MODULE PionexOrders ----------------------------
(***************************************************************************)
(* The write path of the native Pionex adapter (exchanges/pionex.py on     *)
(* exchanges/pionex_client.py, LIVE futures): an order is looked up by its *)
(* client id, created, and read back in three requests; others poll and    *)
(* cancel meanwhile.  Pionex knows two states of an order only, OPEN and   *)
(* CLOSED.                                                                 *)
(***************************************************************************)
EXTENDS Integers, FiniteSets

CONSTANTS
  Markets,      \* symbols
  PerMarket,    \* orders placed of each symbol
  Size,         \* quantity of an order
  Placements,   \* bound on calls of place_order per order
  OpenLimit,    \* limit of get_futures_open_orders
  PionexFaults  \* bound on failing requests

ASSUME PionexConstants ==
  /\ {PerMarket, Size, Placements, OpenLimit} \subseteq Nat \ {0}
  /\ PionexFaults \in Nat

VARIABLES
  linked,      \* _connected, with the native client
  venue,       \* the exchange's orders, by client id and placement
  placing,     \* place_order, for each order: its stage and the order it made
  placements,  \* calls of place_order so far
  unseen,      \* lookups by client id that failed
  report,      \* last OrderResult the caller got for each order
  sweep,       \* cancel_all_orders: what it read, symbols left, failures
  pionexFaults

pionexVars == <<linked, venue, placing, placements, unseen, report, sweep,
                pionexFaults>>

\* order.id: a symbol and a number.
ClientIds == Markets \X (1..PerMarket)
MarketOf(x) == x[1][1]

OrderIds == ClientIds \X (1..Placements)
NoOrder == [state |-> "none", filled |-> 0]
NoReport == [status |-> "none", filled |-> 0]
NoSweep == [seen |-> {}, todo |-> {}, failed |-> {}]

PionexInit ==
  /\ linked = FALSE
  /\ venue = [x \in OrderIds |-> NoOrder]
  /\ placing = [c \in ClientIds |-> "idle"]
  /\ placements = [c \in ClientIds |-> 0]
  /\ unseen = [c \in ClientIds |-> 0]
  /\ report = [c \in ClientIds |-> NoReport]
  /\ sweep = NoSweep
  /\ pionexFaults = 0

PionexFault ==
  /\ pionexFaults < PionexFaults
  /\ pionexFaults' = pionexFaults + 1

OrdersOf(c) == {x \in OrderIds : x[1] = c /\ venue[x].state # "none"}
IsOpen(x) == venue[x].state = "OPEN"
Newest(c) == <<c, placements[c]>>

\* Deviation: whatever is closed was filled.
ParsedStatus_Deviation(o) ==
  IF o.state = "CLOSED" THEN "FILLED"
  ELSE IF 0 < o.filled /\ o.filled < Size THEN "PARTIALLY_FILLED"
  ELSE "SUBMITTED"

\* Deviation: a part that was executed stays a part.
ParsedStatus_Partial(o) ==
  IF 0 < o.filled /\ o.filled < Size THEN "PARTIALLY_FILLED"
  ELSE IF o.state = "OPEN" THEN "SUBMITTED"
  ELSE IF o.filled > 0 THEN "FILLED" ELSE "CANCELLED"

ParsedStatus(o) ==
  IF o.state = "CLOSED" THEN (IF o.filled > 0 THEN "FILLED" ELSE "CANCELLED")
  ELSE IF 0 < o.filled /\ o.filled < Size THEN "PARTIALLY_FILLED"
  ELSE "SUBMITTED"

\* _parse_native_order.
Parsed(x) == [status |-> ParsedStatus(venue[x]), filled |-> venue[x].filled]

Report(c, x) == report' = [report EXCEPT ![c] = Parsed(x)]
Placing(c, stage) == placing' = [placing EXCEPT ![c] = stage]

\* The connection is proved by a public and an authenticated request.
ConnectPionex ==
  /\ ~linked
  /\ \/ linked' = TRUE /\ UNCHANGED pionexFaults
     \/ UNCHANGED linked /\ PionexFault
  /\ UNCHANGED <<venue, placing, placements, unseen, report, sweep>>

\* close(): requests of calls that are under way fail from here on.
ClosePionex ==
  /\ linked
  /\ linked' = FALSE
  /\ PionexFault
  /\ UNCHANGED <<venue, placing, placements, unseen, report, sweep>>

PlaceOrder(c) ==
  /\ linked
  /\ placing[c] \in {"idle", "raised"}
  /\ placements[c] < Placements
  /\ placements' = [placements EXCEPT ![c] = @ + 1]
  /\ Placing(c, "lookup")
  /\ UNCHANGED <<linked, venue, unseen, report, sweep, pionexFaults>>

\* Deviation: an order with this client id is not taken for this one.
Existing_Deviation(c) == {}

Existing(c) == OrdersOf(c)

\* An order with the client id is the answer; an error counts as "none".
LookUp(c) ==
  /\ placing[c] = "lookup"
  /\ \/ /\ linked /\ Existing(c) # {}
        /\ \E x \in Existing(c) : Report(c, x)
        /\ Placing(c, "idle")
        /\ UNCHANGED <<unseen, pionexFaults>>
     \/ /\ linked /\ Existing(c) = {}
        /\ Placing(c, "create")
        /\ UNCHANGED <<unseen, report, pionexFaults>>
     \/ /\ PionexFault
        /\ unseen' = [unseen EXCEPT ![c] = @ + 1]
        /\ Placing(c, "create")
        /\ UNCHANGED report
  /\ UNCHANGED <<linked, venue, placements, sweep>>

\* The signed POST: the exchange takes the order or refuses it, and its
\* answer may be lost.
CreateOrder(c) ==
  /\ placing[c] = "create"
  /\ \/ /\ linked
        /\ venue' = [venue EXCEPT ![Newest(c)] = [state |-> "OPEN", filled |-> 0]]
        /\ \/ Placing(c, "readback") /\ UNCHANGED pionexFaults
           \/ Placing(c, "raised") /\ PionexFault
     \/ UNCHANGED venue /\ Placing(c, "raised") /\ UNCHANGED pionexFaults
  /\ UNCHANGED <<linked, placements, unseen, report, sweep>>

\* The status is read; an error here raises too, the order stands.
ReadBack(c) ==
  /\ placing[c] = "readback"
  /\ \/ /\ linked
        /\ Report(c, Newest(c))
        /\ Placing(c, "idle")
        /\ UNCHANGED pionexFaults
     \/ UNCHANGED report /\ Placing(c, "raised") /\ PionexFault
  /\ UNCHANGED <<linked, venue, placements, unseen, sweep>>

Acknowledged(c) == report[c].status # "none"
Finished(c) == report[c].status \in {"FILLED", "CANCELLED"}

\* Placement of the order the caller knows: the one it read last.
Known(c) == CHOOSE x \in OrdersOf(c) : \A y \in OrdersOf(c) : y[2] <= x[2]

\* get_order, from the loop that waits for the fill.
PollOrder(c) ==
  /\ linked
  /\ placing[c] = "idle" /\ Acknowledged(c) /\ ~Finished(c)
  /\ Report(c, Known(c))
  /\ UNCHANGED <<linked, venue, placing, placements, unseen, sweep,
                 pionexFaults>>

ClosedBy(S) == [x \in OrderIds |->
  IF x \in S THEN [venue[x] EXCEPT !.state = "CLOSED"] ELSE venue[x]]

\* cancel_order; False if Pionex does not know the order, or an error.
CancelOrder(c) ==
  /\ linked
  /\ placing[c] = "idle" /\ Acknowledged(c) /\ IsOpen(Known(c))
  /\ venue' = ClosedBy({Known(c)})
  /\ UNCHANGED <<linked, placing, placements, unseen, report, sweep,
                 pionexFaults>>

Open == {x \in OrderIds : IsOpen(x)}
MarketsOf(S) == {MarketOf(x) : x \in S}

\* cancel_all_orders reads a page of open orders of all symbols.
BeginSweep(page) ==
  /\ linked
  /\ sweep.todo = {}
  /\ page \subseteq Open
  /\ \/ Cardinality(page) = OpenLimit
     \/ page = Open /\ Cardinality(page) < OpenLimit
  /\ page # {}
  /\ sweep' = [seen |-> page, todo |-> MarketsOf(page), failed |-> {}]
  /\ UNCHANGED <<linked, venue, placing, placements, unseen, report,
                 pionexFaults>>

\* Deviation: only the orders that were read are cancelled.
Swept_Deviation(m) == {x \in sweep.seen : MarketOf(x) = m /\ x[2] = 1}

Swept(m) == {x \in Open : MarketOf(x) = m}

\* Then it cancels symbol by symbol; a failure is logged.
SweepMarket(m) ==
  /\ m \in sweep.todo
  /\ \/ /\ linked
        /\ venue' = ClosedBy(Swept(m))
        /\ sweep' = [sweep EXCEPT !.todo = @ \ {m}]
        /\ UNCHANGED pionexFaults
     \/ /\ PionexFault
        /\ sweep' = [sweep EXCEPT !.todo = @ \ {m}, !.failed = @ \cup {m}]
        /\ UNCHANGED venue
  /\ UNCHANGED <<linked, placing, placements, unseen, report>>

\* The exchange: a lot is executed, or the order ends; a full one always.
TradeLot(x) ==
  /\ IsOpen(x)
  /\ venue' = [venue EXCEPT ![x] =
       [filled |-> @.filled + 1,
        state |-> IF @.filled + 1 = Size THEN "CLOSED" ELSE "OPEN"]]
  /\ UNCHANGED <<linked, placing, placements, unseen, report, sweep,
                 pionexFaults>>

PionexNext ==
  \/ ConnectPionex \/ ClosePionex
  \/ \E c \in ClientIds :
       \/ PlaceOrder(c) \/ LookUp(c) \/ CreateOrder(c) \/ ReadBack(c)
       \/ PollOrder(c) \/ CancelOrder(c)
  \/ \E page \in SUBSET Open : BeginSweep(page)
  \/ \E m \in Markets : SweepMarket(m)
  \/ \E x \in OrderIds : TradeLot(x)

PionexSpec == PionexInit /\ [][PionexNext]_pionexVars

\* The pool connects, and the fill loop polls.
PionexFairness ==
  /\ WF_pionexVars(ConnectPionex /\ linked')
  /\ \A c \in ClientIds : WF_pionexVars(LookUp(c) \/ CreateOrder(c) \/ ReadBack(c))
  /\ \A c \in ClientIds : WF_pionexVars(PollOrder(c))

FairPionexSpec == PionexSpec /\ PionexFairness

-----------------------------------------------------------------------------
PionexTypeOK ==
  /\ linked \in BOOLEAN
  /\ venue \in [OrderIds -> [state : {"none", "OPEN", "CLOSED"}, filled : 0..Size]]
  /\ placing \in [ClientIds -> {"idle", "lookup", "create", "readback", "raised"}]
  /\ placements \in [ClientIds -> 0..Placements]
  /\ unseen \in [ClientIds -> 0..PionexFaults]
  /\ sweep.seen \subseteq OrderIds /\ sweep.todo \subseteq Markets
  /\ pionexFaults \in 0..PionexFaults

(* A final answer is the truth: the order it was read from trades no more,
   and exactly what it reports was executed; "FILLED" is never said of an
   order nothing of was executed. *)
FinalIsTrue ==
  \A c \in ClientIds : Finished(c) =>
    /\ (report[c].status = "FILLED") = (report[c].filled > 0)
    /\ \E x \in OrdersOf(c) : ~IsOpen(x) /\ venue[x].filled = report[c].filled

(* However often an order is placed, and wherever the placing broke off, the
   exchange has it once; only a lookup that failed can double it. *)
OncePerClientId ==
  \A c \in ClientIds : Cardinality(OrdersOf(c)) <= 1 + unseen[c]

(* What cancel_all_orders saw open is closed when it returns, unless the
   request for its symbol failed. *)
SweptIsClosed ==
  sweep.todo = {} =>
    \A x \in sweep.seen : IsOpen(x) => MarketOf(x) \in sweep.failed

(* An order the caller knows of and that has ended at the exchange is
   reported as ended, FILLED or CANCELLED, at last. *)
EndIsReported ==
  \A c \in ClientIds :
    Acknowledged(c) /\ ~Finished(c) /\ (\A x \in OrdersOf(c) : ~IsOpen(x))
      ~> (Finished(c) \/ Cardinality(OrdersOf(c)) > 1 \/ placing[c] # "idle")
=============================================================================
