--------------------------- MODULE DecisionProofs ---------------------------
(***************************************************************************)
(* Theorems about the decisions before an order, for all values of their   *)
(* constants: which strategies trade, what the risk engine approves, what  *)
(* the gates of an order let through, which strategy may trade a symbol,   *)
(* what the strategies signal, what a backtest is worth, what is sent to   *)
(* Pionex, which grids are designed, what the indicators say.  The         *)
(* components are composed so that each step is one of them; a component's *)
(* invariant is about its own variables, and PartsStep takes it to the     *)
(* composition.                                                            *)
(***************************************************************************)
EXTENDS MCDecisions, IndicatorProofs

-----------------------------------------------------------------------------
(* The parts *)

\* A component does its own step or stands still, whoever behaves.
LEMMA PartsStep ==
  ASSUME [DecisionsNext]_decisionsVars
  PROVE  /\ part' = part
         /\ [GateNext]_gateVars
         /\ [RiskNext]_riskVars
         /\ [OrderGatesNext]_orderGateVars
         /\ [ValidationNext]_validationVars
         /\ [SignalsNext]_signalVars
         /\ [BacktestNext]_backtestVars
         /\ [IndicatorsNext]_indicatorVars
         /\ [PionexNext]_pionexVars
         /\ [DesignNext]_designVars
<1>1. CASE UNCHANGED decisionsVars
  BY <1>1 DEF decisionsVars
<1>2. CASE Only("strategies") /\ GateNext
  BY <1>2 DEF Only
<1>3. CASE Only("risk") /\ RiskNext
  BY <1>3 DEF Only
<1>4. CASE Only("order gates") /\ OrderGatesNext
  BY <1>4 DEF Only
<1>5. CASE Only("pionex") /\ PionexNext
  BY <1>5 DEF Only
<1>6. CASE Only("symbols") /\ ValidationNext
  BY <1>6 DEF Only
<1>7. CASE Only("backtest") /\ BacktestNext
  BY <1>7 DEF Only
<1>8. CASE Only("indicators") /\ IndicatorsNext
  BY <1>8 DEF Only
<1>9. CASE Only("signals") /\ SignalsNext
  BY <1>9 DEF Only
<1>10. CASE Only("grid design") /\ DesignNext
  BY <1>10 DEF Only
<1> QED
  BY <1>1, <1>2, <1>3, <1>4, <1>5, <1>6, <1>7, <1>8, <1>9, <1>10
     DEF DecisionsNext

-----------------------------------------------------------------------------
(* Which strategies trade *)

Tallies == [faults : 0..GateFaults, starts : 0..GateStarts,
            requests : 0..GateRequests]

\* The phase, the sets and the tally.
GateTypes ==
  /\ phase \in Phases
  /\ todo \subseteq Strategies /\ forced \subseteq Strategies
  /\ active \subseteq Strategies /\ validated \subseteq Strategies
  /\ override \subseteq Strategies
  /\ rowActive \subseteq Strategies /\ rowValid \subseteq Strategies
  /\ trial \subseteq Strategies
  /\ touched \subseteq Strategies /\ unsaved \subseteq Strategies
  /\ gateCount \in Tallies

\* One backtest runs at a time, and the lifespan only activates what is
\* validated.
OneTrial == \A s, t \in trial : s = t
ActivatesValidated == phase = "activate" => todo \subseteq validated

\* The strategies whose row nobody but this start of the worker wrote.
Own == Strategies \ (touched \cup unsaved)

\* What the table says of them, step by step: an active entry has an active
\* row; recovery has still to deal with an active row whose entry is not.
EntryHasRow == phase # "down" => \A s \in Own : s \in active => s \in rowActive
RowIsDue == phase = "recover" =>
  \A s \in Own : s \in rowActive => s \in active \/ s \in todo

GateInv ==
  /\ GateTypes
  /\ OneTrial
  /\ ActivatesValidated
  /\ ActiveIsValidated
  /\ EntryHasRow
  /\ RowIsDue
  /\ TableSaysWhatTrades

LEMMA CountsUp ==
  ASSUME gateCount \in Tallies,
         \/ Counts("faults", GateFaults)
         \/ Counts("starts", GateStarts)
         \/ Counts("requests", GateRequests)
  PROVE  gateCount' \in Tallies
BY GateConstants DEF Counts, Tallies

\* What an entry and its row are after they were written.
LEMMA Written ==
  ASSUME GateTypes, NEW s \in Strategies, NEW on \in BOOLEAN,
         WriteActive(s, on)
  PROVE  /\ active' = With(active, s, on)
         /\ active' \subseteq Strategies /\ rowActive' \subseteq Strategies
         /\ unsaved' \subseteq Strategies
         /\ gateCount' \in Tallies
         /\ \A t \in Strategies \ {s} :
              /\ t \in unsaved' <=> t \in unsaved
              /\ t \in rowActive' <=> t \in rowActive
              /\ t \in active' <=> t \in active
         /\ s \notin unsaved' => /\ s \in rowActive' <=> on
                                 /\ s \in active' <=> on
<1>1. CASE /\ rowActive' = With(rowActive, s, on)
           /\ unsaved' = unsaved \ {s}
           /\ UNCHANGED gateCount
  BY <1>1 DEF GateTypes, WriteActive, With
<1>2. CASE /\ Counts("faults", GateFaults)
           /\ unsaved' = unsaved \cup {s}
           /\ UNCHANGED rowActive
  <2>1. gateCount' \in Tallies
    BY <1>2, CountsUp DEF GateTypes
  <2> QED BY <1>2, <2>1 DEF GateTypes, WriteActive, With
<1> QED BY <1>1, <1>2 DEF WriteActive

\* So the rows keep saying what they said.
LEMMA WrittenRows ==
  ASSUME GateTypes, NEW s \in Strategies, NEW on \in BOOLEAN,
         WriteActive(s, on), UNCHANGED <<phase, touched>>,
         EntryHasRow, RowIsDue, TableSaysWhatTrades,
         todo' = todo \/ todo' = todo \ {s}
  PROVE  EntryHasRow' /\ RowIsDue' /\ TableSaysWhatTrades'
<1>1. \A t \in Own' : t # s => t \in Own
  BY Written DEF Own
<1>2. \A t \in Own' : t = s => (t \in rowActive' <=> t \in active')
  BY Written DEF Own
<1>3. \A t \in Own' : t # s => /\ t \in rowActive' <=> t \in rowActive
                               /\ t \in active' <=> t \in active
  BY Written DEF Own
<1>4. EntryHasRow'
  BY <1>1, <1>2, <1>3 DEF EntryHasRow
<1>5. RowIsDue'
  BY <1>1, <1>2, <1>3 DEF RowIsDue
<1>6. TableSaysWhatTrades'
  <2> SUFFICES ASSUME phase' = "up", NEW t \in Own'
               PROVE  t \in rowActive' <=> t \in active'
    BY DEF TableSaysWhatTrades, Own
  <2>1. CASE t = s
    BY <2>1, <1>2
  <2>2. CASE t # s
    <3>1. t \in Own
      BY <2>2, <1>1
    <3>2. t \in rowActive <=> t \in active
      BY <3>1 DEF TableSaysWhatTrades, Own
    <3> QED BY <2>2, <3>2, <1>3
  <2> QED BY <2>1, <2>2
<1> QED BY <1>4, <1>5, <1>6

LEMMA InitGateInv == GateInit => GateInv
<1> SUFFICES ASSUME GateInit PROVE GateInv
  OBVIOUS
<1>1. gateCount \in Tallies
  BY GateConstants DEF GateInit, Tallies
<1> QED
  BY <1>1 DEF GateInit, GateInv, GateTypes, Phases, OneTrial,
       ActivatesValidated, ActiveIsValidated, EntryHasRow, RowIsDue,
       TableSaysWhatTrades

\* The phases of the start and the writes of entry and row.
LEMMA WritingSteps ==
  ASSUME GateInv, NEW s \in Strategies,
         BeginTrial(s) \/ EndTrial(s) \/ ActivateValidated(s) \/ Recover(s)
  PROVE  GateInv'
<1> USE DEF GateInv
<1>1. CASE BeginTrial(s)
  <2>1. WriteActive(s, TRUE) /\ UNCHANGED <<phase, touched>>
    BY <1>1 DEF BeginTrial
  <2>2. EntryHasRow' /\ RowIsDue' /\ TableSaysWhatTrades'
    BY <2>1, <1>1, WrittenRows DEF BeginTrial
  <2>3. GateTypes'
    BY <2>1, <1>1, Written DEF BeginTrial, GateTypes
  <2>4. ActiveIsValidated'
    BY <1>1 DEF BeginTrial, WriteActive, With, ActiveIsValidated
  <2>5. OneTrial' /\ ActivatesValidated'
    BY <1>1 DEF BeginTrial, OneTrial, ActivatesValidated
  <2> QED BY <2>2, <2>3, <2>4, <2>5
<1>2. CASE EndTrial(s)
  <2>1. WriteActive(s, FALSE) /\ UNCHANGED <<phase, touched>>
    BY <1>2 DEF EndTrial
  <2>2. EntryHasRow' /\ RowIsDue' /\ TableSaysWhatTrades'
    BY <2>1, <1>2, WrittenRows DEF EndTrial
  <2>3. validated \subseteq validated' /\ validated' \subseteq Strategies
    BY <1>2 DEF EndTrial, MarkValidated, GateTypes
  <2>4. GateTypes'
    BY <2>1, <2>3, <1>2, Written DEF EndTrial, GateTypes
  <2>5. ActiveIsValidated'
    BY <1>2, <2>3 DEF EndTrial, WriteActive, With, ActiveIsValidated,
                      OneTrial
  <2>6. OneTrial' /\ ActivatesValidated'
    BY <1>2, <2>3 DEF EndTrial, OneTrial, ActivatesValidated
  <2> QED BY <2>2, <2>4, <2>5, <2>6
<1>3. ASSUME NEW on \in BOOLEAN, SetActive(s, on), on => s \in validated
      PROVE  GateInv'
  <2>1. WriteActive(s, on) /\ UNCHANGED <<phase, touched>>
    BY <1>3 DEF SetActive
  <2>2. EntryHasRow' /\ RowIsDue' /\ TableSaysWhatTrades'
    BY <2>1, <1>3, WrittenRows DEF SetActive
  <2>3. GateTypes'
    BY <2>1, <1>3, Written DEF SetActive, GateTypes
  <2>4. ActiveIsValidated'
    BY <1>3 DEF SetActive, WriteActive, With, ActiveIsValidated
  <2>5. OneTrial' /\ ActivatesValidated'
    BY <1>3 DEF SetActive, OneTrial, ActivatesValidated
  <2> QED BY <2>2, <2>3, <2>4, <2>5
<1>4. CASE ActivateValidated(s)
  BY <1>4, <1>3 DEF ActivateValidated, ActivatesValidated
<1>5. CASE Recover(s)
  <2>1. CASE s \in validated
    <3>1. SetActive(s, TRUE)
      BY <1>5, <2>1 DEF Recover, Recovered, SetActive, WriteActive, With
    <3> QED BY <2>1, <3>1, <1>3
  <2>2. CASE s \notin validated
    <3>1. SetActive(s, FALSE)
      BY <1>5, <2>2 DEF Recover, Recovered, SetActive, WriteActive, With
    <3> QED BY <3>1, <1>3
  <2> QED BY <2>1, <2>2
<1> QED BY <1>1, <1>2, <1>4, <1>5

\* The steps that write no entry.
LEMMA OtherGateSteps ==
  ASSUME GateInv, NEW s \in Strategies,
         \/ ValidateGrid(s) \/ ForceActivate(s)
         \/ ApiActivate(s) \/ ApiDeactivate(s)
  PROVE  GateInv'
<1> USE DEF GateInv
<1>1. CASE ValidateGrid(s)
  <2>1. gateCount' \in Tallies
    BY <1>1, CountsUp DEF ValidateGrid, GateTypes
  <2>2. validated \subseteq validated' /\ validated' \subseteq Strategies
    BY <1>1 DEF ValidateGrid, MarkValidated, GateTypes
  <2>3. /\ phase = "validate"
        /\ todo' = todo \ {s}
        /\ UNCHANGED <<phase, forced, active, override, rows, trial, touched,
                       unsaved>>
    BY <1>1 DEF ValidateGrid
  <2>4. GateTypes'
    BY <2>1, <2>2, <2>3 DEF GateTypes, rows
  <2>5. OneTrial' /\ ActivatesValidated' /\ ActiveIsValidated'
    BY <2>2, <2>3 DEF OneTrial, ActivatesValidated, ActiveIsValidated
  <2>6. EntryHasRow' /\ RowIsDue' /\ TableSaysWhatTrades'
    BY <2>3 DEF EntryHasRow, RowIsDue, TableSaysWhatTrades, Own, rows
  <2> QED BY <2>4, <2>5, <2>6
<1>2. CASE ForceActivate(s)
  <2>1. gateCount' \in Tallies
    BY <1>2, CountsUp DEF ForceActivate, GateTypes
  <2>2. /\ validated' = validated \cup {s}
        /\ override' = override \cup {s}
        /\ phase = "override"
        /\ UNCHANGED <<forced, active, rowActive, trial, touched, unsaved>>
        /\ \/ /\ rowValid' = rowValid \cup {s}
              /\ todo' = todo \ {s}
              /\ UNCHANGED phase
           \/ /\ phase' = "down"
              /\ todo' = {}
              /\ UNCHANGED rowValid
    BY <1>2 DEF ForceActivate
  <2>3. GateTypes'
    BY <2>1, <2>2 DEF GateTypes, Phases
  <2>4. OneTrial' /\ ActivatesValidated' /\ ActiveIsValidated'
    BY <2>2 DEF OneTrial, ActivatesValidated, ActiveIsValidated
  <2>5. EntryHasRow' /\ RowIsDue' /\ TableSaysWhatTrades'
    BY <2>2 DEF EntryHasRow, RowIsDue, TableSaysWhatTrades, Own
  <2> QED BY <2>3, <2>4, <2>5
<1>3. ASSUME Counts("requests", GateRequests), touched' = touched \cup {s},
             \/ rowActive' = rowActive \cup {s}
             \/ rowActive' = rowActive \ {s},
             UNCHANGED <<phase, todo, forced, entries, rowValid, trial,
                         unsaved>>
      PROVE  GateInv'
  <2>1. gateCount' \in Tallies
    BY <1>3, CountsUp DEF GateTypes
  <2>2. GateTypes'
    BY <2>1, <1>3 DEF GateTypes, entries
  <2>3. OneTrial' /\ ActivatesValidated' /\ ActiveIsValidated'
    BY <1>3 DEF OneTrial, ActivatesValidated, ActiveIsValidated, entries
  <2>4. EntryHasRow' /\ RowIsDue' /\ TableSaysWhatTrades'
    BY <1>3 DEF EntryHasRow, RowIsDue, TableSaysWhatTrades, Own, entries
  <2> QED BY <2>2, <2>3, <2>4
<1>4. CASE ApiActivate(s)
  BY <1>4, <1>3 DEF ApiActivate
<1>5. CASE ApiDeactivate(s)
  BY <1>5, <1>3 DEF ApiDeactivate
<1> QED BY <1>1, <1>2, <1>4, <1>5

\* From one phase to the next; the invariant of the next phase is what the
\* step establishes.
LEMMA PhaseSteps ==
  ASSUME GateInv, NEW next, next \subseteq Strategies, NEW to, to \in Phases,
         NEW from, GoOn(from, to, next),
         to = "activate" => next \subseteq validated,
         to # "recover", to = "up" => from = "recover", from # "down"
  PROVE  GateInv'
<1> USE DEF GateInv
<1>1. GateTypes'
  BY DEF GoOn, GateTypes, entries, rows
<1>2. OneTrial' /\ ActivatesValidated' /\ ActiveIsValidated'
  BY DEF GoOn, OneTrial, ActivatesValidated, ActiveIsValidated, entries
<1>3. EntryHasRow' /\ RowIsDue' /\ TableSaysWhatTrades'
  BY DEF GoOn, EntryHasRow, RowIsDue, TableSaysWhatTrades, Own, entries, rows
<1> QED BY <1>1, <1>2, <1>3

LEMMA NextGateInv == GateInv /\ [GateNext]_gateVars => GateInv'
<1> SUFFICES ASSUME GateInv, [GateNext]_gateVars
             PROVE  GateInv'
  OBVIOUS
<1> USE DEF GateInv
<1>1. CASE UNCHANGED gateVars
  BY <1>1 DEF gateVars, entries, rows, GateTypes, OneTrial, Own,
       ActivatesValidated, ActiveIsValidated, EntryHasRow, RowIsDue,
       TableSaysWhatTrades
<1>2. ASSUME NEW names \in SUBSET Strategies, StartGate(names)
      PROVE  GateInv'
  <2>1. gateCount' \in Tallies
    BY <1>2, CountsUp DEF StartGate, GateTypes
  <2>2. GateTypes'
    BY <2>1, <1>2 DEF StartGate, GateTypes, Phases, rows
  <2> QED
    BY <2>2, <1>2 DEF StartGate, OneTrial, ActivatesValidated,
         ActiveIsValidated, EntryHasRow, RowIsDue, TableSaysWhatTrades, Own
<1>3. ASSUME NEW s \in Strategies,
             \/ BeginTrial(s) \/ EndTrial(s)
             \/ ValidateGrid(s) \/ ForceActivate(s)
             \/ ActivateValidated(s) \/ Recover(s)
             \/ ApiActivate(s) \/ ApiDeactivate(s)
      PROVE  GateInv'
  BY <1>3, WritingSteps, OtherGateSteps
<1>4. CASE \/ GoOn("validate", "override", forced)
           \/ GoOn("override", "activate", validated)
           \/ GoOn("activate", "names", {})
           \/ GoOn("recover", "up", {})
  <2>1. {"override", "activate", "names", "up"} \subseteq Phases
    BY DEF Phases
  <2> QED BY <1>4, <2>1, PhaseSteps DEF GateTypes
<1>5. CASE ReadNames
  <2>1. gateCount' \in Tallies
    BY <1>5, CountsUp DEF ReadNames, GateTypes
  <2>2. /\ phase = "names"
        /\ UNCHANGED <<forced, active, validated, override, rowActive,
                       rowValid, trial, touched>>
        /\ \/ phase' = "recover" /\ todo' = rowActive /\ UNCHANGED unsaved
           \/ phase' = "up" /\ todo' = {} /\ unsaved' = Strategies
    BY <1>5 DEF ReadNames, entries, rows
  <2>3. GateTypes'
    BY <2>1, <2>2 DEF GateTypes, Phases
  <2>4. OneTrial' /\ ActivatesValidated' /\ ActiveIsValidated'
    BY <2>2 DEF OneTrial, ActivatesValidated, ActiveIsValidated
  <2>5. EntryHasRow' /\ RowIsDue' /\ TableSaysWhatTrades'
    BY <2>2 DEF EntryHasRow, RowIsDue, TableSaysWhatTrades, Own
  <2> QED BY <2>3, <2>4, <2>5
<1>6. CASE StopGate
  <2>1. GateTypes'
    BY <1>6 DEF StopGate, GateTypes, Phases, rows
  <2> QED
    BY <2>1, <1>6 DEF StopGate, OneTrial, ActivatesValidated,
         ActiveIsValidated, EntryHasRow, RowIsDue, TableSaysWhatTrades, Own
<1> QED
  BY <1>1, <1>2, <1>3, <1>4, <1>5, <1>6 DEF GateNext

(* The go-live gate: in every state of the worker and of the table, whatever
   the API writes meanwhile, only what was validated or forced in this start
   trades, and a worker that is up has told the table. *)
THEOREM OnlyValidatedTrade == DecisionsSpec => []StrategyContract
<1>1. DecisionsInit => GateInv
  BY InitGateInv DEF DecisionsInit
<1>2. GateInv /\ [DecisionsNext]_decisionsVars => GateInv'
  BY NextGateInv, PartsStep
<1>3. GateInv => StrategyContract
  BY DEF GateInv, StrategyContract, GateTypeOK, GateTypes, Tallies
<1> QED BY <1>1, <1>2, <1>3, PTL DEF DecisionsSpec

-----------------------------------------------------------------------------
(* The gates of an order *)

\* What rounding down leaves is a multiple of the step, and no more than there
\* was.
LEMMA MultipleOfStep ==
  ASSUME NEW n \in Nat
  PROVE  /\ RoundedDown(n) \in Nat /\ RoundedDown(n) <= n
         /\ RoundedDown(n) % StepSize = 0
<1> DEFINE k == StepSize
           x == n - (n % k)
           d == (n \div k) - (x \div k)
<1>1. k \in Nat /\ k > 0
  BY OrderGateConstants
<1>2. n = k * (n \div k) + (n % k) /\ n % k \in 0..k-1 /\ n \div k \in Int
  BY <1>1
<1>3. x \in Nat /\ x <= n
  BY <1>1, <1>2
<1>4. x = k * (x \div k) + (x % k) /\ x % k \in 0..k-1 /\ x \div k \in Int
  BY <1>1, <1>3
<1>5. d \in Int
  BY <1>2, <1>4
<1>6. k * d = x % k
  <2>1. k * d = k * (n \div k) - k * (x \div k)
    BY <1>1, <1>2, <1>4
  <2> QED BY <2>1, <1>1, <1>2, <1>3, <1>4
<1>7. d = 0
  <2>1. ~ (d >= 1)
    <3> SUFFICES ASSUME d >= 1 PROVE FALSE
      OBVIOUS
    <3>1. k * d >= k
      BY <1>1, <1>5
    <3> QED BY <3>1, <1>1, <1>4, <1>6
  <2>2. ~ (d <= -1)
    <3> SUFFICES ASSUME d <= -1 PROVE FALSE
      OBVIOUS
    <3>1. k * d <= -k
      BY <1>1, <1>5
    <3> QED BY <3>1, <1>1, <1>4, <1>6
  <2> QED BY <2>1, <2>2, <1>5
<1>8. x % k = 0
  BY <1>1, <1>6, <1>7
<1> QED BY <1>3, <1>8 DEF RoundedDown

\* The order of a call; rounding leaves a quantity the profile never named.
GateOrders ==
  [entry : BOOLEAN, quantity : Nat, grid : Grids \cup {NoGrid}]

\* A call that is under way, and what its quantity is once it was rounded.
Calls == [stage : RequestStages \ {"idle"}, order : GateOrders,
          raw : BOOLEAN, bypass : BOOLEAN]
UnderWay(r) ==
  /\ r \in Calls
  /\ ~r.raw => /\ r.order.quantity % StepSize = 0
               /\ r.order.quantity >= MinAmount

CallsGo == /\ DOMAIN request = Requests
           /\ \A c \in Requests : ~At(c, "idle") => UnderWay(request[c])

GateNumbers ==
  /\ killed \in BOOLEAN /\ stopped \in BOOLEAN
  /\ held \in 0..MaxHeld
  /\ submitted \in 0..MaxOrders
  /\ loss \in 0..MaxLoss
  /\ sinceReset \in 0..Day /\ age \in 0..Duration
  /\ gateErrors \in 0..GateErrors

\* The loss of a day is a part of all that was lost.
DayIsPart == dayLoss \in 0..loss

GridsCounted ==
  /\ activeGrids \subseteq Grids /\ IsFiniteSet(activeGrids)
  /\ Cardinality(activeGrids) <= MaxGrids

OrderGatesInv ==
  CallsGo /\ GateNumbers /\ DayIsPart /\ GridsCounted /\ levered \in BOOLEAN

LEMMA InitOrderGates == OrderGatesInit => OrderGatesInv
<1> SUFFICES ASSUME OrderGatesInit PROVE OrderGatesInv
  OBVIOUS
<1>1. CallsGo
  BY DEF OrderGatesInit, CallsGo, At, NoRequest
<1>2. GateNumbers /\ DayIsPart /\ levered \in BOOLEAN
  <2>1. /\ {MaxHeld, MaxOrders, MaxLoss, Day, Duration, GateErrors}
             \subseteq Nat
    BY OrderGateConstants
  <2>2. killed \in BOOLEAN /\ stopped \in BOOLEAN /\ levered \in BOOLEAN
    BY DEF OrderGatesInit
  <2>3. 0 \in 0..MaxHeld /\ 0 \in 0..MaxOrders /\ 0 \in 0..MaxLoss
        /\ 0 \in 0..Day /\ 0 \in 0..Duration /\ 0 \in 0..GateErrors
        /\ 0 \in 0..0
    BY <2>1
  <2> QED BY <2>2, <2>3 DEF OrderGatesInit, GateNumbers, DayIsPart
<1>3. GridsCounted
  BY OrderGateConstants, FS_EmptySet DEF OrderGatesInit, GridsCounted
<1> QED BY <1>1, <1>2, <1>3 DEF OrderGatesInv

\* One call moves on, is refused, or begins.
LEMMA CallMoves ==
  ASSUME CallsGo, NEW c \in Requests, NEW r,
         request' = [request EXCEPT ![c] = r],
         r.stage # "idle" => UnderWay(r)
  PROVE  CallsGo'
<1>1. request'[c] = r /\ DOMAIN request' = Requests
  BY DEF CallsGo
<1>2. \A d \in Requests : d # c => request'[d] = request[d]
  BY DEF CallsGo
<1>3. ASSUME NEW d \in Requests, ~At(d, "idle")' PROVE UnderWay(request'[d])
  <2>1. CASE d = c
    BY <2>1, <1>1, <1>3 DEF At
  <2>2. CASE d # c
    BY <2>2, <1>2, <1>3 DEF At, CallsGo
  <2> QED BY <2>1, <2>2
<1> QED BY <1>1, <1>3 DEF CallsGo, UnderWay, At

LEMMA CallIsRefused ==
  ASSUME CallsGo, NEW c \in Requests, Refuse(c)
  PROVE  CallsGo'
<1>1. NoRequest.stage = "idle"
  BY DEF NoRequest
<1> QED BY <1>1, CallMoves DEF Refuse

LEMMA CallGoes ==
  ASSUME CallsGo, NEW c \in Requests, ~At(c, "idle"),
         NEW to \in RequestStages, Go(c, to)
  PROVE  CallsGo'
<1> DEFINE r == [request[c] EXCEPT !.stage = to]
<1>1. request' = [request EXCEPT ![c] = r]
  BY DEF Go
<1>2. UnderWay(request[c])
  BY DEF CallsGo
<1>3. r.order = request[c].order /\ r.raw = request[c].raw
  BY <1>2 DEF UnderWay, Calls
<1>4. r.stage # "idle" => r \in Calls
  BY <1>2 DEF UnderWay, Calls
<1>5. r.stage # "idle" => UnderWay(r)
  BY <1>2, <1>3, <1>4 DEF UnderWay
<1> HIDE DEF r
<1> QED BY <1>1, <1>5, CallMoves

LEMMA ErrorCounts ==
  ASSUME gateErrors \in 0..GateErrors, GateError
  PROVE  gateErrors' \in 0..GateErrors
BY OrderGateConstants DEF GateError

\* The gate lets an order through: the budget holds, for orders as for grids.
LEMMA VerifyKeeps ==
  ASSUME OrderGatesInv, NEW c \in Requests, Verify(c)
  PROVE  GateNumbers' /\ DayIsPart' /\ GridsCounted'
<1> USE DEF OrderGatesInv
<1>1. /\ UNCHANGED <<killed, held, loss, age, gateErrors>>
      /\ \/ UNCHANGED <<dayLoss, sinceReset>>
         \/ dayLoss' = 0 /\ sinceReset' = 0
  BY DEF Verify, ResetDay
<1>2. DayIsPart' /\ sinceReset' \in 0..Day
  BY <1>1, OrderGateConstants DEF DayIsPart, GateNumbers
<1>3. CASE stopped' = TRUE /\ UNCHANGED <<submitted, activeGrids>>
  BY <1>1, <1>2, <1>3 DEF GateNumbers, GridsCounted
<1>4. CASE UNCHANGED budget
  BY <1>1, <1>2, <1>4 DEF GateNumbers, GridsCounted, budget
<1>5. CASE /\ WithinProfile(request[c].order)
           /\ submitted' = submitted + 1
           /\ activeGrids' =
                activeGrids \cup ({request[c].order.grid} \ {NoGrid})
           /\ UNCHANGED stopped
  <2> DEFINE g == request[c].order.grid
  <2>1. GateNumbers'
    BY <1>1, <1>2, <1>5, OrderGateConstants DEF GateNumbers, WithinProfile
  <2>2. g \in Grids \cup {NoGrid}
    <3>1. UnderWay(request[c])
      BY DEF CallsGo, Verify, At
    <3> QED BY <3>1 DEF UnderWay, Calls, GateOrders
  <2>3. CASE g = NoGrid \/ g \in activeGrids
    <3>1. activeGrids' = activeGrids
      BY <1>5, <2>3
    <3> QED BY <1>2, <2>1, <3>1 DEF GridsCounted
  <2>4. CASE g # NoGrid /\ g \notin activeGrids
    <3>1. activeGrids' = activeGrids \cup {g} /\ g \in Grids
      BY <1>5, <2>2, <2>4
    <3>2. Cardinality(activeGrids) < MaxGrids
      BY <1>5, <2>4 DEF WithinProfile, GridFits
    <3>3. /\ IsFiniteSet(activeGrids \cup {g})
          /\ Cardinality(activeGrids \cup {g}) = Cardinality(activeGrids) + 1
      BY <2>4, FS_AddElement DEF GridsCounted
    <3>4. Cardinality(activeGrids) \in Nat
      BY FS_CardinalityType DEF GridsCounted
    <3>5. GridsCounted'
      BY <3>1, <3>2, <3>3, <3>4, OrderGateConstants DEF GridsCounted
    <3> QED BY <1>2, <2>1, <3>5
  <2> QED BY <2>3, <2>4
<1> QED
  BY <1>3, <1>4, <1>5 DEF Verify

LEMMA NextOrderGates ==
  OrderGatesInv /\ [OrderGatesNext]_orderGateVars => OrderGatesInv'
<1> SUFFICES ASSUME OrderGatesInv, [OrderGatesNext]_orderGateVars
             PROVE  OrderGatesInv'
  OBVIOUS
<1> USE DEF OrderGatesInv
<1>0. RequestStages = {"idle", "limits", "account", "leverage", "rounding",
                       "verify", "sent"}
  BY DEF RequestStages
<1>l. levered' \in BOOLEAN
  BY DEF OrderGatesNext, orderGateVars, BeginOrder, CheckLimits, CheckAccount,
     EnsureLeverage, RoundOrder, Verify, NoPrice, Execute, SwitchGate, GateTime
<1> DEFINE Kept == CallsGo' /\ GateNumbers' /\ DayIsPart' /\ GridsCounted'
<1> SUFFICES Kept
  BY <1>l
\* Steps that leave budget, position, losses and time alone.
<1>a. ASSUME UNCHANGED <<killed, held, budget, losses, age>>,
             gateErrors' \in 0..GateErrors
      PROVE  GateNumbers' /\ DayIsPart' /\ GridsCounted'
  BY <1>a DEF GateNumbers, DayIsPart, GridsCounted, budget, losses
<1>b. ASSUME UNCHANGED gateErrors \/ GateError
      PROVE  gateErrors' \in 0..GateErrors
  BY <1>b, ErrorCounts DEF GateNumbers
<1>1. CASE UNCHANGED orderGateVars
  BY <1>1 DEF orderGateVars, budget, losses, CallsGo, GateNumbers,
       DayIsPart, GridsCounted, At
<1>2. ASSUME NEW c \in Requests, NEW o \in Order, BeginOrder(c, o)
      PROVE  Kept
  <2> DEFINE r == [stage |-> "limits", order |-> o, raw |-> TRUE,
                   bypass |-> killed]
  <2>1. request' = [request EXCEPT ![c] = r]
    BY <1>2 DEF BeginOrder
  <2>2. o \in GateOrders
    BY OrderGateConstants DEF Order, GateOrders
  <2>3. UnderWay(r)
    BY <2>2, <1>0 DEF UnderWay, Calls, OrderGatesInv, GateNumbers
  <2> HIDE DEF r
  <2>4. CallsGo'
    BY <2>1, <2>3, CallMoves
  <2>5. UNCHANGED <<killed, held, budget, losses, age, gateErrors>>
    BY <1>2 DEF BeginOrder
  <2> QED BY <2>4, <2>5, <1>a, <1>b
<1>3. ASSUME NEW c \in Requests, NEW known \in BOOLEAN, CheckLimits(c, known)
      PROVE  Kept
  <2>1. ~At(c, "idle")
    BY <1>3 DEF CheckLimits, At
  <2>2. Go(c, "account") \/ Refuse(c)
    BY <1>3 DEF CheckLimits
  <2>3. CallsGo'
    BY <1>0, <2>1, <2>2, CallGoes, CallIsRefused
  <2>4. /\ UNCHANGED <<killed, held, budget, losses, age>>
        /\ UNCHANGED gateErrors \/ GateError
    BY <1>3 DEF CheckLimits
  <2> QED BY <2>3, <2>4, <1>a, <1>b
<1>4. ASSUME NEW c \in Requests, CheckAccount(c)
      PROVE  Kept
  <2>1. ~At(c, "idle")
    BY <1>4 DEF CheckAccount, At
  <2>2. Go(c, "leverage") \/ Go(c, "verify") \/ Refuse(c)
    BY <1>4 DEF CheckAccount
  <2>3. CallsGo'
    BY <1>0, <2>1, <2>2, CallGoes, CallIsRefused
  <2>4. /\ UNCHANGED <<killed, held, budget, losses, age>>
        /\ UNCHANGED gateErrors \/ GateError
    BY <1>4 DEF CheckAccount
  <2> QED BY <2>3, <2>4, <1>a, <1>b
<1>5. ASSUME NEW c \in Requests, EnsureLeverage(c)
      PROVE  Kept
  <2>1. ~At(c, "idle")
    BY <1>5 DEF EnsureLeverage, At
  <2>2. Go(c, "rounding") \/ Refuse(c)
    BY <1>5 DEF EnsureLeverage
  <2>3. CallsGo'
    BY <1>0, <2>1, <2>2, CallGoes, CallIsRefused
  <2>4. /\ UNCHANGED <<killed, held, budget, losses, age>>
        /\ UNCHANGED gateErrors \/ GateError
    BY <1>5 DEF EnsureLeverage
  <2> QED BY <2>3, <2>4, <1>a, <1>b
<1>6. ASSUME NEW c \in Requests, RoundOrder(c)
      PROVE  Kept
  <2> DEFINE q == request[c].order.quantity
             n == RoundedDown(q)
             r == [request[c] EXCEPT !.stage = "verify",
                     !.order.quantity = n, !.raw = FALSE]
  <2>1. ~At(c, "idle")
    BY <1>6 DEF RoundOrder, At
  <2>2. UnderWay(request[c])
    BY <2>1 DEF CallsGo
  <2>3. ASSUME BigEnough(n),
               request' = [request EXCEPT ![c].stage = "verify",
                 ![c].order.quantity = n, ![c].raw = FALSE]
        PROVE  CallsGo'
    <3>1. request' = [request EXCEPT ![c] = r]
      BY <2>3
    <3>2. q \in Nat
      BY <2>2 DEF UnderWay, Calls, GateOrders
    <3>3. n \in Nat /\ n % StepSize = 0
      BY <3>2, MultipleOfStep
    <3>4. n >= MinAmount
      BY <2>3 DEF BigEnough
    <3> HIDE DEF n, q
    <3>5. r.order = [request[c].order EXCEPT !.quantity = n]
      BY <2>2 DEF UnderWay, Calls
    <3>6. r.order \in GateOrders /\ r.order.quantity = n
      BY <3>5, <3>3, <2>2 DEF UnderWay, Calls, GateOrders
    <3>7. r.raw = FALSE /\ r \in Calls
      BY <1>0, <3>6, <2>2 DEF UnderWay, Calls
    <3> HIDE DEF r
    <3>8. UnderWay(r)
      BY <3>3, <3>4, <3>6, <3>7 DEF UnderWay
    <3> QED BY <3>1, <3>8, CallMoves
  <2> HIDE DEF r
  <2>4. ASSUME Go(c, "verify") PROVE CallsGo'
    BY <1>0, <2>1, <2>4, CallGoes
  <2>5. ASSUME Refuse(c) PROVE CallsGo'
    BY <2>5, CallIsRefused
  <2>6. CallsGo'
    BY <2>3, <2>4, <2>5, <1>6 DEF RoundOrder
  <2>7. /\ UNCHANGED <<killed, held, budget, losses, age>>
        /\ UNCHANGED gateErrors \/ GateError
    BY <1>6 DEF RoundOrder
  <2> QED BY <2>6, <2>7, <1>a, <1>b
<1>7. ASSUME NEW c \in Requests, Verify(c)
      PROVE  Kept
  <2>1. ~At(c, "idle")
    BY <1>7 DEF Verify, At
  <2>2. Go(c, "sent") \/ Refuse(c)
    BY <1>7 DEF Verify
  <2>3. CallsGo'
    BY <1>0, <2>1, <2>2, CallGoes, CallIsRefused
  <2> QED BY <2>3, <1>7, VerifyKeeps
<1>8. ASSUME NEW c \in Requests, NoPrice(c)
      PROVE  Kept
  <2>1. CallsGo'
    BY <1>8, CallIsRefused DEF NoPrice
  <2>2. UNCHANGED <<killed, held, budget, losses, age>> /\ GateError
    BY <1>8 DEF NoPrice
  <2> QED BY <2>1, <2>2, <1>a, <1>b
<1>9. ASSUME NEW c \in Requests, NEW lost \in 0..1, Execute(c, lost)
      PROVE  Kept
  <2>1. CallsGo'
    BY <1>9, CallIsRefused DEF Execute
  <2>2. UnderWay(request[c])
    BY <1>9 DEF CallsGo, Execute, At
  <2>3. request[c].order.quantity \in Nat
    BY <2>2 DEF UnderWay, Calls, GateOrders
  <2>4. held' \in 0..MaxHeld
    BY <1>9, <2>3, OrderGateConstants DEF Execute, GateNumbers
  <2>5. /\ loss' = loss + lost /\ loss + lost <= MaxLoss
        /\ dayLoss' = dayLoss + lost
        /\ UNCHANGED <<killed, budget, sinceReset, age, gateErrors>>
    BY <1>9 DEF Execute
  <2>6. loss' \in 0..MaxLoss /\ dayLoss' \in 0..loss'
    BY <2>5, OrderGateConstants DEF GateNumbers, DayIsPart
  <2> QED
    BY <2>1, <2>4, <2>5, <2>6 DEF GateNumbers, DayIsPart, GridsCounted, budget
<1>10. CASE SwitchGate
  BY <1>10 DEF SwitchGate, CallsGo, GateNumbers, DayIsPart, GridsCounted, At,
       budget, losses
<1>11. CASE GateTime
  <2>1. sinceReset' \in 0..Day /\ age' \in 0..Duration
    BY <1>11, OrderGateConstants DEF GateTime, GateNumbers
  <2> QED
    BY <1>11, <2>1 DEF GateTime, CallsGo, GateNumbers, DayIsPart,
         GridsCounted, At, budget
<1> QED
  BY <1>1, <1>2, <1>3, <1>4, <1>5, <1>6, <1>7, <1>8, <1>9, <1>10, <1>11
     DEF OrderGatesNext

(* The budget of the verification profile holds however many orders reach its
   gate at once, and what an entry sends is a quantity the exchange takes. *)
THEOREM GatesHold == DecisionsSpec => []GatesContract
<1>1. DecisionsInit => OrderGatesInv
  BY InitOrderGates DEF DecisionsInit
<1>2. OrderGatesInv /\ [DecisionsNext]_decisionsVars => OrderGatesInv'
  BY NextOrderGates, PartsStep
<1>3. OrderGatesInv => GatesContract
  <2> SUFFICES ASSUME OrderGatesInv PROVE GatesContract
    OBVIOUS
  <2> USE DEF OrderGatesInv
  <2>1. \A c \in Requests : request[c].stage \in RequestStages
    BY DEF CallsGo, At, UnderWay, Calls, RequestStages
  <2>2. OrderGatesTypeOK
    <3>1. {killed, levered, stopped} \subseteq BOOLEAN
      BY DEF GateNumbers
    <3>2. {loss, dayLoss} \subseteq 0..MaxLoss
      BY OrderGateConstants DEF GateNumbers, DayIsPart
    <3> QED
      BY <2>1, <3>1, <3>2 DEF OrderGatesTypeOK, GateNumbers, GridsCounted
  <2>3. ProfileKept
    BY DEF ProfileKept, GateNumbers, GridsCounted
  <2>4. EntriesConform
    BY DEF EntriesConform, CallsGo, At, UnderWay
  <2> QED BY <2>2, <2>3, <2>4 DEF GatesContract
<1> QED BY <1>1, <1>2, <1>3, PTL DEF DecisionsSpec

(* A profile out of time or money lets nothing through, whatever happened
   while the order was on its way to its gate. *)
THEOREM SpentProfileIsFinal == DecisionsSpec => [][SpentIsFinal]_decisionsVars
<1>1. ASSUME [OrderGatesNext]_orderGateVars PROVE SpentIsFinal
  <2>1. ASSUME NEW c \in Requests, Verify(c) PROVE SpentIsFinal
    BY <2>1 DEF Verify, SpentIsFinal, Spent, budget
  <2>2. CASE submitted' = submitted
    BY <2>2 DEF SpentIsFinal
  <2>3. CASE ~ \E c \in Requests : Verify(c)
    <3>1. submitted' = submitted
      BY <1>1, <2>3 DEF OrderGatesNext, orderGateVars, BeginOrder, CheckLimits,
           CheckAccount, EnsureLeverage, RoundOrder, NoPrice, Execute,
           SwitchGate, GateTime, budget
    <3> QED BY <3>1, <2>2
  <2> QED BY <2>1, <2>3
<1>2. [DecisionsNext]_decisionsVars => SpentIsFinal
  BY <1>1, PartsStep
<1> QED BY <1>2, PTL DEF DecisionsSpec

-----------------------------------------------------------------------------
(* What the risk engine approves *)

Books == [Assets -> 0..MaxEquity]

\* An evaluation keeps what it measured; what it approved fits with that.
Measured(c) ==
  /\ c \in [stage : {"measured"}, asset : Assets, equity : 0..MaxEquity,
            book : Books, peak : 0..MaxEquity, start : 0..MaxEquity]
Approved(c) ==
  /\ c \in [stage : {"approved"}, asset : Assets, size : Nat,
            equity : 0..MaxEquity, book : Books]
  /\ Gross(c.book) + c.size <= MaxLeverage * c.equity
  /\ ExposureShare > 0 =>
       10 * (Gross(c.book) + c.size) <= ExposureShare * c.equity

CycleFits == cycle = Idle \/ Measured(cycle) \/ Approved(cycle)

RiskNumbers ==
  /\ equity \in 0..MaxEquity /\ peak \in 0..MaxEquity
  /\ dayStart \in 0..MaxEquity
  /\ book \in Books
  /\ tripped \in {"off", "task", "on"}
  /\ rest \in [Names \X Assets -> 0..Cooldown]
  /\ riskFaults \in 0..RiskFaults

RiskInv == RiskNumbers /\ CycleFits

LEMMA GrossType ==
  ASSUME NEW b \in Books
  PROVE  Gross(b) \in Int
<1>1. DOMAIN b = Assets /\ \A s \in Assets : b[s] \in Int
  BY RiskConstants DEF Books
<1>2. SumFunctionOnSet(b, Assets) \in Int
  BY <1>1, SumType, RiskConstants
<1> QED BY <1>1, <1>2 DEF Gross, SumFunction

LEMMA LesserOfTwo ==
  ASSUME NEW a \in Int, NEW b \in Int
  PROVE  Min({a, b}) \in {a, b} /\ Min({a, b}) <= a /\ Min({a, b}) <= b
<1>1. \E x \in {a, b} : \A y \in {a, b} : x <= y
  BY a <= b \/ b <= a
<1> QED BY <1>1 DEF Min

LEMMA InitRisk == RiskInit => RiskInv
BY RiskConstants DEF RiskInit, RiskInv, RiskNumbers, CycleFits, Books, Empty

LEMMA NextRisk == RiskInv /\ [RiskNext]_riskVars => RiskInv'
<1> SUFFICES ASSUME RiskInv, [RiskNext]_riskVars
             PROVE  RiskInv'
  OBVIOUS
<1> USE DEF RiskInv
<1>0. /\ Cooldown \in Nat /\ MaxEquity \in Nat /\ RiskFaults \in Nat
      /\ MaxLeverage \in Nat /\ ExposureShare \in Nat
  BY RiskConstants
<1>a. ASSUME RiskCount PROVE riskFaults' \in 0..RiskFaults
  BY <1>0, <1>a DEF RiskCount, RiskNumbers
<1>b. ASSUME cycle' = Idle \/ cycle' = cycle PROVE CycleFits'
  BY <1>b DEF CycleFits, Measured, Approved
<1>1. CASE UNCHANGED riskVars
  BY <1>1, <1>b DEF riskVars, RiskNumbers
<1>2. ASSUME NEW s \in Assets, BeginCycle(s) PROVE RiskInv'
  <2>1. /\ peak' \in 0..MaxEquity /\ dayStart' \in 0..MaxEquity
        /\ UNCHANGED <<equity, book, tripped, rest, riskFaults>>
    BY <1>2 DEF BeginCycle, Measure, Larger, RiskNumbers
  <2>2. cycle' = [stage |-> "measured", asset |-> s, equity |-> equity,
                  book |-> book, peak |-> peak', start |-> dayStart']
    BY <1>2 DEF BeginCycle
  <2>3. RiskNumbers'
    BY <2>1 DEF RiskNumbers
  <2>4. Measured(cycle')
    BY <2>1, <2>2 DEF Measured, RiskNumbers
  <2> QED BY <2>3, <2>4 DEF CycleFits, Measured
<1>3. ASSUME NEW n \in 1..MaxEquity, Approve(n) PROVE RiskInv'
  <2> DEFINE m == Min({n, Headroom(cycle)})
  <2>1. RiskNumbers'
    BY <1>3 DEF Approve, RiskNumbers
  <2>2. Measured(cycle)
    BY <1>3 DEF Approve, CycleFits, Idle, Approved
  <2>3. cycle.equity \in Nat /\ cycle.book \in Books
    BY <1>0, <2>2 DEF Measured
  <2>4. Gross(cycle.book) \in Int
    BY <2>3, GrossType
  <2>5. Headroom(cycle) \in Int
    BY <1>0, <2>3, <2>4 DEF Headroom
  <2>6. m \in Int /\ m <= Headroom(cycle)
    BY <2>5, LesserOfTwo
  <2>7. m > 0 /\ WithinExposure(cycle, m)
    BY <1>3 DEF Approve
  <2>8. cycle' = [stage |-> "approved", asset |-> cycle.asset, size |-> m,
                  equity |-> cycle.equity, book |-> cycle.book]
    BY <1>3 DEF Approve
  <2> HIDE DEF m
  <2>9. Gross(cycle.book) + m <= MaxLeverage * cycle.equity
    <3>1. MaxLeverage * cycle.equity \in Int
      BY <1>0, <2>3
    <3> QED BY <3>1, <2>4, <2>6 DEF Headroom
  <2>10. cycle' \in [stage : {"approved"}, asset : Assets, size : Nat,
                     equity : 0..MaxEquity, book : Books]
    BY <2>2, <2>6, <2>7, <2>8 DEF Measured
  <2>11. /\ cycle'.book = cycle.book /\ cycle'.size = m
         /\ cycle'.equity = cycle.equity
    BY <2>8
  <2>12. Approved(cycle')
    BY <2>7, <2>9, <2>10, <2>11 DEF Approved, WithinExposure
  <2> QED BY <2>1, <2>12 DEF CycleFits, Approved
<1>4. ASSUME NEW n \in 1..MaxEquity, FillOrder(n) PROVE RiskInv'
  <2>1. CycleFits'
    BY <1>4, <1>b DEF FillOrder
  <2>2. n \in 0..MaxEquity
    BY <1>0
  <2>3. book' \in Books
    BY <1>4, <2>2 DEF FillOrder, RiskNumbers, Books
  <2>4. Cooldown \in 0..Cooldown
    BY <1>0
  <2>5. rest' \in [Names \X Assets -> 0..Cooldown]
    BY <1>4, <2>4 DEF FillOrder, RiskNumbers
  <2> QED BY <1>4, <2>1, <2>3, <2>5 DEF FillOrder, RiskNumbers
<1>5. CASE Breach
  <2>1. CycleFits'
    BY <1>5, <1>b DEF Breach
  <2> QED BY <1>5, <2>1 DEF Breach, RiskNumbers
<1>6. CASE Reject \/ NoFill
  <2>1. CycleFits'
    BY <1>6, <1>b DEF Reject, NoFill
  <2> QED BY <1>6, <2>1 DEF Reject, NoFill, RiskNumbers
<1>7. CASE Trip \/ TripElsewhere
  <2>1. CycleFits'
    BY <1>7, <1>b DEF Trip, TripElsewhere
  <2> QED BY <1>7, <1>a, <2>1 DEF Trip, TripElsewhere, RiskNumbers
<1>8. CASE RiskClock
  <2>1. CycleFits'
    BY <1>8, <1>b DEF RiskClock
  <2>2. rest' \in [Names \X Assets -> 0..Cooldown]
    BY <1>0, <1>8 DEF RiskClock, RiskNumbers, Larger
  <2> QED BY <1>8, <2>1, <2>2 DEF RiskClock, RiskNumbers
<1>9. CASE NewDay \/ ResetSwitch
  <2>1. CycleFits'
    BY <1>9, <1>b DEF NewDay, ResetSwitch
  <2> QED BY <1>0, <1>9, <1>a, <2>1 DEF NewDay, ResetSwitch, RiskNumbers
<1>10. CASE RestartRisk
  <2>1. CycleFits'
    BY <1>10, <1>b DEF RestartRisk
  <2>2. rest' \in [Names \X Assets -> 0..Cooldown]
    BY <1>0, <1>10 DEF RestartRisk
  <2> QED BY <1>0, <1>10, <1>a, <2>1, <2>2 DEF RestartRisk, RiskNumbers
<1>11. ASSUME NEW s \in Assets, CloseOut(s) PROVE RiskInv'
  <2>1. CycleFits'
    BY <1>11, <1>b DEF CloseOut
  <2> QED BY <1>0, <1>11, <2>1 DEF CloseOut, RiskNumbers, Books
<1>12. ASSUME NEW s \in Assets, NEW up \in BOOLEAN, Reprice(s, up)
       PROVE  RiskInv'
  <2>1. CycleFits'
    BY <1>12, <1>b DEF Reprice
  <2> QED BY <1>0, <1>12, <2>1 DEF Reprice, RiskNumbers, Books
<1> QED
  BY <1>1, <1>2, <1>3, <1>4, <1>5, <1>6, <1>7, <1>8, <1>9, <1>10, <1>11,
     <1>12 DEF RiskNext

(* Whatever the sizer proposes and whatever happens to the books meanwhile,
   an approved order fits under both limits with what was measured. *)
THEOREM ApprovalsFit == DecisionsSpec => []RiskContract
<1>1. DecisionsInit => RiskInv
  BY InitRisk DEF DecisionsInit
<1>2. RiskInv /\ [DecisionsNext]_decisionsVars => RiskInv'
  BY NextRisk, PartsStep
<1>3. RiskInv => RiskContract
  <2> SUFFICES ASSUME RiskInv PROVE RiskContract
    OBVIOUS
  <2>1. RiskTypeOK
    BY DEF RiskInv, RiskTypeOK, RiskNumbers, CycleFits, Idle, Measured,
         Approved, Books
  <2>2. ApprovedFits
    BY DEF RiskInv, ApprovedFits, CycleFits, Idle, Measured, Approved
  <2> QED BY <2>1, <2>2 DEF RiskContract
<1> QED BY <1>1, <1>2, <1>3, PTL DEF DecisionsSpec

(* No entry is filled while the switch is on. *)
THEOREM NoEntryWhileTripped == DecisionsSpec => [][EntriesStop]_decisionsVars
<1>1. ASSUME RiskInv, [RiskNext]_riskVars PROVE EntriesStop
  <2> SUFFICES ASSUME tripped = "on", NEW s \in Assets, book[s] = 0
               PROVE  book'[s] = 0
    BY DEF EntriesStop
  <2>1. CASE book' = book
    BY <2>1
  <2>2. ASSUME NEW n, FillOrder(n) PROVE FALSE
    BY <2>2 DEF FillOrder, MaySend
  <2>3. ASSUME NEW x \in Assets, CloseOut(x) PROVE book'[s] = 0
    BY <2>3 DEF CloseOut, RiskInv, RiskNumbers, Books
  <2>4. ASSUME NEW x \in Assets, NEW up \in BOOLEAN, Reprice(x, up)
        PROVE  book'[s] = 0
    BY <2>4 DEF Reprice, RiskInv, RiskNumbers, Books
  <2> QED
    BY <1>1, <2>1, <2>2, <2>3, <2>4 DEF RiskNext, riskVars, BeginCycle,
       Approve, Breach, Reject, NoFill, Trip, TripElsewhere, RiskClock,
       NewDay, ResetSwitch, RestartRisk
<1>2. RiskInv /\ [DecisionsNext]_decisionsVars => EntriesStop
  BY <1>1, PartsStep
<1>3. DecisionsInit => RiskInv
  BY InitRisk DEF DecisionsInit
<1>4. RiskInv /\ [DecisionsNext]_decisionsVars => RiskInv'
  BY NextRisk, PartsStep
<1> QED BY <1>2, <1>3, <1>4, PTL DEF DecisionsSpec

-----------------------------------------------------------------------------
(* Which strategy may trade a symbol *)

Keys == Candidates \cup {Nobody}
ResultRows == [status : Statuses, best : BOOLEAN, score : 0..NoScore]
ResultTables == [Batches -> [Keys -> ResultRows]]
RunRecords ==
  [at : {"idle", "load", "try", "mark"}, batch : Batches \cup {NoRun.batch},
   left : SUBSET Candidates, tried : SUBSET Candidates, best : Keys,
   score : 0..MaxScore]

SymbolTypes ==
  /\ result \in ResultTables
  /\ batchRun \in RunRecords
  /\ batchRun.at # "idle" => batchRun.batch \in Batches
  /\ batchRun.at = "load" => batchRun.tried = {} /\ batchRun.best = Nobody
  /\ allowed \in Keys \cup {Unknown}
  /\ stale \in BOOLEAN
  /\ signalled \in [by : Keys, known : BOOLEAN]
  /\ tally \in [runs : Nat, faults : Nat, stops : Nat]
  /\ ended \subseteq Batches

Running(b) == batchRun.at # "idle" /\ batchRun.batch = b

\* A batch that was not run over has one best row at most, none while it
\* runs, and one when a run of it has ended.
OneBest(b) ==
  /\ \A j, k \in BestOf(b) : j = k
  /\ Running(b) => BestOf(b) = {}
  /\ b \in ended => BestOf(b) # {}

\* The row of a candidate that was tried.
TriedRow(r) ==
  /\ r.best = FALSE
  /\ r.score \in 0..MaxScore
  /\ r.status = IF Passes(r.score) THEN "validated_but_not_active"
                ELSE "no_valid_strategy"

\* Where a run stands that tries the candidates: each has the row of this
\* run, or none; the best one so far is the best of them.
Tries(b) ==
  /\ batchRun.tried \cap batchRun.left = {}
  /\ batchRun.tried \cup batchRun.left # {}
  /\ batchRun.at = "mark" => batchRun.left = {}
  /\ \A j \in Candidates \ batchRun.tried : result[b][j] = NoResult
  /\ \A j \in batchRun.tried : /\ TriedRow(result[b][j])
                               /\ result[b][j].score <= batchRun.score
  /\ batchRun.tried = {} => batchRun.best = Nobody
  /\ batchRun.tried # {} =>
       /\ batchRun.best \in batchRun.tried
       /\ result[b][batchRun.best].score = batchRun.score

Competes(b) == Running(b) /\ batchRun.at # "load"

WinnerOf(b) ==
  \A k \in Candidates : result[b][k].best =>
    /\ \A j \in Candidates : result[b][j] # NoResult =>
         result[b][j].score <= result[b][k].score
    /\ result[b][k].status = "active" <=>
         \E j \in Candidates : result[b][j].status \in
           {"active", "validated_but_not_active"}

\* A batch that was neither run over nor cut off.
Judged(b) ==
  /\ BestOf(b) = {} /\ ~Competes(b) =>
       \A k \in Candidates : result[b][k] = NoResult
  /\ Competes(b) => Tries(b)
  /\ WinnerOf(b)

BatchOk(b) == /\ b \notin rerun => OneBest(b)
              /\ b \notin rerun \cup broken => Judged(b)

\* Only what passed is made active.
ActivePassed ==
  \A b \in Batches, k \in Keys :
    result[b][k].status = "active" => result[b][k].score > 0

\* A batch activated the strategy for the symbol.
Proven(k) ==
  \E b \in Batches : result[b][k].best /\ result[b][k].status = "active"

\* What the worker holds to be allowed, and what it signalled on, is in the
\* table.
GateKnows ==
  rerun = {} =>
    /\ allowed # Unknown => BestRows # {}
    /\ allowed \in Candidates => Proven(allowed)
    /\ signalled.by # Nobody /\ signalled.known =>
         signalled.by \in Candidates /\ Proven(signalled.by)

SymbolInv ==
  /\ SymbolTypes
  /\ \A b \in Batches : BatchOk(b)
  /\ ActivePassed
  /\ GateKnows

LEMMA InitSymbols == ValidationInit => SymbolInv
<1> SUFFICES ASSUME ValidationInit PROVE SymbolInv
  OBVIOUS
<1>0. MaxScore \in Nat /\ MaxScore > 0
  BY ValidationConstants
<1>1. NoResult \in ResultRows
  BY <1>0 DEF NoResult, ResultRows, Statuses, NoScore
<1>2. NoRun \in RunRecords /\ NoRun.at = "idle"
  BY <1>0 DEF NoRun, RunRecords, Keys
<1>3. SymbolTypes
  BY <1>1, <1>2 DEF ValidationInit, SymbolTypes, ResultTables, Keys
<1>4. \A b \in Batches, k \in Keys : result[b][k] = NoResult
  BY DEF ValidationInit, Keys
<1>5. \A b \in Batches : BestOf(b) = {}
  BY <1>4, <1>3 DEF BestOf, NoResult, SymbolTypes, ResultTables
<1>6. \A b \in Batches : ~Running(b)
  BY <1>2 DEF ValidationInit, Running
<1>7. \A b \in Batches : BatchOk(b)
  BY <1>4, <1>5, <1>6 DEF BatchOk, OneBest, Judged, Competes, WinnerOf,
       ValidationInit, NoResult, Keys
<1>8. ActivePassed
  BY <1>4 DEF ActivePassed, NoResult
<1>9. GateKnows
  <2>1. Unknown \notin Candidates
    BY ValidationConstants DEF Unknown
  <2> QED BY <2>1 DEF GateKnows, ValidationInit
<1> QED BY <1>3, <1>7, <1>8, <1>9 DEF SymbolInv

-----------------------------------------------------------------------------
\* One row is written.
LEMMA Upserted ==
  ASSUME result \in ResultTables, NEW b \in Batches, NEW k \in Keys,
         NEW status \in Statuses, NEW best \in BOOLEAN,
         NEW score \in 0..NoScore,
         Upsert(b, k, status, best, score)
  PROVE  /\ result' \in ResultTables
         /\ result'[b][k] = [status |-> status, best |-> best, score |-> score]
         /\ \A j \in Keys : j # k => result'[b][j] = result[b][j]
         /\ \A d \in Batches : d # b => result'[d] = result[d]
<1> DEFINE r == [status |-> status, best |-> best, score |-> score]
<1>1. r \in ResultRows
  BY DEF ResultRows
<1>2. result' = [result EXCEPT ![b][k] = r]
  BY DEF Upsert
<1> HIDE DEF r
<1>3. result' = [result EXCEPT ![b] = [result[b] EXCEPT ![k] = r]]
  BY <1>2
<1>4. [result[b] EXCEPT ![k] = r] \in [Keys -> ResultRows]
  BY <1>1 DEF ResultTables
<1>5. result'[b] = [result[b] EXCEPT ![k] = r]
  BY <1>3 DEF ResultTables
<1>6. result' \in ResultTables
  BY <1>3, <1>4 DEF ResultTables
<1>7. /\ result'[b][k] = r
      /\ \A j \in Keys : j # k => result'[b][j] = result[b][j]
  BY <1>5 DEF ResultTables
<1>8. \A d \in Batches : d # b => result'[d] = result[d]
  BY <1>3 DEF ResultTables
<1> QED BY <1>6, <1>7, <1>8 DEF r

\* The best rows of a batch, as membership says it.
LEMMA BestIs ==
  ASSUME result \in ResultTables, NEW b \in Batches
  PROVE  \A k : k \in BestOf(b) <=> k \in Keys /\ result[b][k].best
BY DEF BestOf, ResultTables

LEMMA BestWillBe ==
  ASSUME result' \in ResultTables, NEW b \in Batches
  PROVE  \A k : k \in BestOf(b)' <=> k \in Keys /\ result'[b][k].best
BY DEF BestOf, ResultTables

\* What a step does not touch of a batch.
LEMMA OtherBatch ==
  ASSUME NEW b \in Batches, BatchOk(b), result'[b] = result[b],
         ~Running(b), ~Running(b)', rerun \subseteq rerun',
         broken \subseteq broken', b \in ended' => b \in ended
  PROVE  BatchOk(b)'
<1>1. BestOf(b)' = BestOf(b)
  BY DEF BestOf
<1>2. b \notin rerun' => OneBest(b)'
  BY <1>1 DEF BatchOk, OneBest
<1>3. ASSUME b \notin rerun' \cup broken' PROVE Judged(b)'
  <2>1. Judged(b)
    BY <1>3 DEF BatchOk
  <2> QED BY <1>1, <2>1 DEF Judged, Competes, WinnerOf
<1> QED BY <1>2, <1>3 DEF BatchOk

\* A run ends with a row for no strategy, which is the only best one.
LEMMA EndsWithout ==
  ASSUME SymbolInv, NEW b \in Batches, Running(b), b = batchRun.batch,
         NEW status \in Statuses \ {"active"}, EndWithout(status),
         UNCHANGED <<rerun, allowed, stale, signalled>>,
         broken \subseteq broken',
         tally' \in [runs : Nat, faults : Nat, stops : Nat]
  PROVE  SymbolTypes' /\ (\A d \in Batches : BatchOk(d)') /\ ActivePassed'
<1> USE DEF SymbolInv
<1>1. /\ Upsert(b, Nobody, status, TRUE, NoScore)
      /\ ended' = ended \cup {b}
      /\ batchRun' = NoRun
  BY DEF EndWithout
<1>2. NoScore \in 0..NoScore /\ NoScore > 0 /\ NoScore \in Nat
  BY ValidationConstants DEF NoScore
<1>3. Nobody \in Keys /\ result \in ResultTables
  BY DEF Keys, SymbolTypes
<1>4. /\ result' \in ResultTables
      /\ result'[b][Nobody] =
           [status |-> status, best |-> TRUE, score |-> NoScore]
      /\ \A j \in Keys : j # Nobody => result'[b][j] = result[b][j]
      /\ \A d \in Batches : d # b => result'[d] = result[d]
  BY <1>1, <1>2, <1>3, Upserted
<1>5. NoRun \in RunRecords /\ NoRun.at = "idle"
  BY ValidationConstants DEF NoRun, RunRecords, Keys
<1>6. SymbolTypes'
  BY <1>1, <1>4, <1>5 DEF SymbolTypes
<1>7. \A d \in Batches : ~Running(d)'
  BY <1>1, <1>5 DEF Running
<1>8. \A d \in Batches : d # b => BatchOk(d)'
  BY <1>1, <1>4, <1>7, OtherBatch DEF Running
<1>9. BatchOk(b)'
  <2>1. Nobody \in BestOf(b)'
    BY <1>3, <1>4, BestWillBe
  <2>2. ASSUME b \notin rerun PROVE \A k \in BestOf(b)' : k = Nobody
    <3>1. BestOf(b) = {}
      BY <2>2 DEF BatchOk, OneBest
    <3>2. \A k \in Keys : ~result[b][k].best
      BY <1>3, <3>1, BestIs
    <3> QED BY <1>4, <3>2, BestWillBe
  <2>3. ASSUME b \notin rerun' \cup broken' PROVE Judged(b)'
    <3>1. \A k \in Candidates : ~result'[b][k].best
      <4>1. \A k \in Candidates : k \in Keys /\ k # Nobody
        BY ValidationConstants DEF Keys
      <4> QED BY <2>2, <2>3, <4>1, <1>4, BestWillBe
    <3> QED BY <2>1, <3>1, <1>7 DEF Judged, Competes, WinnerOf
  <2> QED BY <2>1, <2>2, <2>3, <1>7 DEF BatchOk, OneBest
<1>10. ActivePassed'
  <2> SUFFICES ASSUME NEW d \in Batches, NEW k \in Keys,
                      result'[d][k].status = "active"
               PROVE  result'[d][k].score > 0
    BY DEF ActivePassed
  <2>1. CASE d = b /\ k = Nobody
    BY <2>1, <1>4
  <2>2. CASE ~(d = b /\ k = Nobody)
    <3>1. result'[d][k] = result[d][k]
      BY <2>2, <1>4
    <3> QED BY <3>1 DEF ActivePassed
  <2> QED BY <2>1, <2>2
<1> QED BY <1>6, <1>8, <1>9, <1>10

\* A row that is best stays as it is, unless its batch is run over.
LEMMA BestStays ==
  ASSUME SymbolInv, SymbolTypes', rerun' = {}, rerun = {},
         \A b \in Batches : ~Running(b) => result'[b] = result[b],
         UNCHANGED <<allowed, signalled>>
  PROVE  GateKnows'
<1> USE DEF SymbolInv
<1>0. result \in ResultTables /\ result' \in ResultTables
  BY DEF SymbolTypes
<1>1. ASSUME NEW b \in Batches, NEW k \in Keys, result[b][k].best
      PROVE  result'[b][k] = result[b][k]
  <2>1. k \in BestOf(b)
    BY <1>0, <1>1, BestIs
  <2>2. ~Running(b)
    BY <2>1 DEF BatchOk, OneBest
  <2> QED BY <2>2
<1>2. BestRows # {} => BestRows' # {}
  BY <1>1 DEF BestRows, Keys
<1>3. \A k \in Candidates : Proven(k) => Proven(k)'
  BY <1>1 DEF Proven, Keys
<1> QED BY <1>2, <1>3 DEF GateKnows

LEMMA ScriptSteps ==
  ASSUME SymbolInv,
         \/ \E b \in Batches, resume \in BOOLEAN : RunBatch(b, resume)
         \/ \E h \in Histories : Load(h)
         \/ \E k \in Candidates, score \in 0..MaxScore : TryCandidate(k, score)
         \/ ClearBest \/ MarkBest \/ RunFails \/ KillScript
  PROVE  /\ SymbolTypes' /\ (\A d \in Batches : BatchOk(d)') /\ ActivePassed'
         /\ UNCHANGED <<allowed, stale, signalled>>
         /\ rerun \subseteq rerun'
         /\ \A b \in Batches : ~Running(b) => result'[b] = result[b]
<1> USE DEF SymbolInv
<1> DEFINE Goal ==
      /\ SymbolTypes' /\ (\A d \in Batches : BatchOk(d)') /\ ActivePassed'
      /\ UNCHANGED <<allowed, stale, signalled>>
      /\ rerun \subseteq rerun'
      /\ \A b \in Batches : ~Running(b) => result'[b] = result[b]
<1> SUFFICES Goal
  OBVIOUS
<1>a. MaxScore \in Nat /\ MaxScore > 0 /\ NoScore = MaxScore + 1
      /\ Nobody \notin Candidates
  BY ValidationConstants DEF NoScore
<1>b. /\ NoRun \in RunRecords /\ NoRun.at = "idle" /\ NoRun.tried = {}
      /\ NoRun.best = Nobody
  BY <1>a DEF NoRun, RunRecords, Keys
<1>c. result \in ResultTables
  BY DEF SymbolTypes
<1>d. ASSUME NEW what \in {"runs", "faults", "stops"}, NEW bound,
             CountOne(what, bound)
      PROVE  tally' \in [runs : Nat, faults : Nat, stops : Nat]
  BY <1>d DEF CountOne, SymbolTypes
<1>1. ASSUME NEW b \in Batches, NEW resume \in BOOLEAN, RunBatch(b, resume)
      PROVE  Goal
  <2>1. /\ batchRun.at = "idle"
        /\ UNCHANGED <<result, broken, allowed, stale, signalled>>
    BY <1>1 DEF RunBatch, gateState
  <2>2. tally' \in [runs : Nat, faults : Nat, stops : Nat]
    BY <1>1, <1>d DEF RunBatch
  <2>3. ActivePassed'
    BY <2>1 DEF ActivePassed
  <2>4. BestOf(b)' = BestOf(b) /\ \A d \in Batches : ~Running(d)
    BY <2>1 DEF BestOf, Running
  <2>5. CASE Processed(b) /\ ended' = ended \cup {b}
             /\ UNCHANGED <<batchRun, rerun>>
    <3>1. SymbolTypes'
      BY <2>1, <2>2, <2>5 DEF SymbolTypes
    <3>2. \A d \in Batches : ~Running(d)'
      BY <2>4, <2>5 DEF Running
    <3>3. \A d \in Batches : d # b => BatchOk(d)'
      BY <2>1, <2>4, <2>5, <3>2, OtherBatch
    <3>4. BatchOk(b)'
      <4>1. b \notin rerun' => OneBest(b)'
        BY <2>4, <2>5, <3>2 DEF BatchOk, OneBest, Processed
      <4>2. b \notin rerun' \cup broken' => Judged(b)'
        BY <2>1, <2>4, <2>5, <3>2 DEF BatchOk, Judged, Competes, WinnerOf
      <4> QED BY <4>1, <4>2 DEF BatchOk
    <3> QED BY <2>1, <2>3, <2>5, <3>1, <3>3, <3>4
  <2>6. CASE /\ batchRun' = [NoRun EXCEPT !.at = "load", !.batch = b]
             /\ rerun' = rerun \cup {c \in {b} : Processed(b)}
             /\ UNCHANGED ended
    <3>1. /\ batchRun' \in RunRecords /\ batchRun'.at = "load"
          /\ batchRun'.batch = b /\ batchRun'.tried = {}
          /\ batchRun'.best = Nobody
      BY <1>b, <2>6 DEF RunRecords
    <3>2. SymbolTypes'
      BY <2>1, <2>2, <2>6, <3>1 DEF SymbolTypes
    <3>3. \A d \in Batches : d # b => BatchOk(d)'
      BY <2>1, <2>4, <2>6, <3>1, OtherBatch DEF Running
    <3>4. BatchOk(b)'
      <4>1. b \notin rerun' => OneBest(b)'
        BY <2>4, <2>6 DEF BatchOk, OneBest, Processed
      <4>2. b \notin rerun' \cup broken' => Judged(b)'
        BY <2>1, <2>4, <2>6, <3>1 DEF BatchOk, Judged, Competes, WinnerOf,
             Running
      <4> QED BY <4>1, <4>2 DEF BatchOk
    <3> QED BY <2>1, <2>3, <2>6, <3>2, <3>3, <3>4
  <2> QED BY <1>1, <2>5, <2>6 DEF RunBatch
<1>2. ASSUME NEW h \in Histories, Load(h) PROVE Goal
  <2>b. PICK b : b = batchRun.batch
    OBVIOUS
  <2> USE <2>b
  <2>1. /\ batchRun.at = "load" /\ b \in Batches
        /\ UNCHANGED <<rerun, broken, tally, allowed, stale, signalled>>
    BY <1>2 DEF Load, SymbolTypes, gateState
  <2>2. tally' \in [runs : Nat, faults : Nat, stops : Nat]
    BY <2>1 DEF SymbolTypes
  <2>3. Running(b) /\ \A d \in Batches : d # b => ~Running(d)
    BY <2>1 DEF Running
  <2>4. ASSUME NEW status \in Statuses \ {"active"}, EndWithout(status)
        PROVE  Goal
    <3>1. SymbolTypes' /\ (\A d \in Batches : BatchOk(d)') /\ ActivePassed'
      BY <2>1, <2>2, <2>3, <2>4, EndsWithout
    <3>2. Upsert(b, Nobody, status, TRUE, NoScore)
      BY <2>4 DEF EndWithout
    <3>3. \A d \in Batches : d # b => result'[d] = result[d]
      BY <2>1, <3>2, <1>c DEF Upsert, ResultTables
    <3> QED BY <2>1, <2>3, <3>1, <3>3
  <2>5. CASE Quality(h) # "ok" /\ EndWithout(Quality(h))
    <3>1. Quality(h) \in Statuses \ {"active"}
      BY <2>5 DEF Quality, Statuses
    <3> QED BY <2>4, <2>5, <3>1
  <2>6. CASE EndWithout("no_valid_strategy")
    <3>1. "no_valid_strategy" \in Statuses \ {"active"}
      BY DEF Statuses
    <3> QED BY <2>4, <2>6, <3>1
  <2>7. CASE /\ h.suits # {}
             /\ batchRun' = [batchRun EXCEPT !.at = "try", !.left = h.suits]
             /\ UNCHANGED <<result, ended>>
    <3>0. h.suits \subseteq Candidates
      BY DEF Histories
    <3>1. /\ batchRun' \in RunRecords /\ batchRun'.at = "try"
          /\ batchRun'.batch = b /\ batchRun'.left = h.suits
          /\ batchRun'.tried = {} /\ batchRun'.best = Nobody
      BY <2>1, <2>7, <3>0 DEF SymbolTypes, RunRecords
    <3>2. SymbolTypes'
      BY <2>1, <2>7, <3>1 DEF SymbolTypes
    <3>3. \A d \in Batches : d # b => BatchOk(d)'
      BY <2>1, <2>3, <2>7, <3>1, OtherBatch DEF Running
    <3>4. BestOf(b)' = BestOf(b)
      BY <2>7 DEF BestOf
    <3>5. b \notin rerun' => OneBest(b)'
      BY <2>1, <2>3, <2>7, <3>4 DEF BatchOk, OneBest
    <3>6. ASSUME b \notin rerun' \cup broken' PROVE Judged(b)'
      <4>1. OneBest(b) /\ Judged(b)
        BY <2>1, <3>6 DEF BatchOk
      <4>2. \A k \in Candidates : result'[b][k] = NoResult
        BY <2>1, <2>3, <2>7, <4>1 DEF OneBest, Judged, Competes
      <4>3. Tries(b)'
        BY <2>7, <3>1, <4>2 DEF Tries
      <4>4. WinnerOf(b)'
        BY <4>2 DEF WinnerOf, NoResult
      <4>5. Competes(b)'
        BY <3>1 DEF Competes, Running
      <4> QED BY <4>3, <4>4, <4>5 DEF Judged
    <3>7. BatchOk(b)'
      BY <3>5, <3>6 DEF BatchOk
    <3>8. ActivePassed'
      BY <2>7 DEF ActivePassed
    <3> QED BY <2>1, <2>7, <3>2, <3>3, <3>7, <3>8
  <2> QED BY <1>2, <2>5, <2>6, <2>7 DEF Load
<1>3. ASSUME NEW k \in Candidates, NEW score \in 0..MaxScore,
             TryCandidate(k, score)
      PROVE  Goal
  <2>b. PICK b : b = batchRun.batch
    OBVIOUS
  <2> USE <2>b
  <2> DEFINE better == batchRun.best = Nobody \/ score > batchRun.score
             status == IF Passes(score) THEN "validated_but_not_active"
                       ELSE "no_valid_strategy"
             row == [status |-> status, best |-> FALSE, score |-> score]
  <2>1. /\ batchRun.at = "try" /\ b \in Batches /\ k \in batchRun.left
        /\ UNCHANGED <<rerun, broken, ended, tally, allowed, stale, signalled>>
    BY <1>3 DEF TryCandidate, SymbolTypes, gateState
  <2>2. /\ k \in Keys /\ status \in Statuses \ {"active"}
        /\ score \in 0..NoScore /\ score \in Nat
    BY <1>a DEF Keys, Statuses
  <2>3. /\ result' \in ResultTables
        /\ result'[b][k] = row
        /\ \A j \in Keys : j # k => result'[b][j] = result[b][j]
        /\ \A d \in Batches : d # b => result'[d] = result[d]
    <3>1. Upsert(b, k, status, FALSE, score)
      BY <1>3 DEF TryCandidate
    <3> HIDE DEF status
    <3> QED BY <2>1, <2>2, <3>1, <1>c, Upserted
  <2>4. Running(b) /\ \A d \in Batches : d # b => ~Running(d)
    BY <2>1 DEF Running
  <2>5. /\ batchRun' \in RunRecords
        /\ batchRun'.at = "try" /\ batchRun'.batch = b
        /\ batchRun'.left = batchRun.left \ {k}
        /\ batchRun'.tried = batchRun.tried \cup {k}
        /\ batchRun'.best = IF better THEN k ELSE batchRun.best
        /\ batchRun'.score = IF better THEN score ELSE batchRun.score
    <3>1. batchRun' = [batchRun EXCEPT !.left = @ \ {k}, !.tried = @ \cup {k},
                         !.best = IF better THEN k ELSE @,
                         !.score = IF better THEN score ELSE @]
      BY <1>3 DEF TryCandidate
    <3> HIDE DEF better
    <3> QED BY <2>1, <2>2, <3>1 DEF SymbolTypes, RunRecords
  <2>6. SymbolTypes'
    BY <2>1, <2>3, <2>5 DEF SymbolTypes
  <2>7. row.best = FALSE /\ row.status # "active" /\ TriedRow(row)
    BY <2>2 DEF TriedRow, Passes, Statuses
  <2>8. row.score = score
    OBVIOUS
  <2> HIDE DEF row, status
  <2>9. \A d \in Batches : d # b => BatchOk(d)'
    BY <2>1, <2>3, <2>4, <2>5, OtherBatch DEF Running
  <2>10. ASSUME b \notin rerun
         PROVE  BestOf(b)' = {} /\ b \notin ended /\ BestOf(b) = {}
    <3>1. BestOf(b) = {} /\ b \notin ended
      BY <2>1, <2>4, <2>10 DEF BatchOk, OneBest
    <3>2. \A j \in Keys : ~result[b][j].best
      BY <2>1, <3>1, <1>c, BestIs
    <3>3. \A j \in Keys : ~result'[b][j].best
      BY <2>3, <2>7, <3>2
    <3> QED BY <2>1, <2>3, <3>1, <3>3, BestWillBe
  <2>11. b \notin rerun' => OneBest(b)'
    BY <2>1, <2>10 DEF OneBest
  <2>12. ASSUME b \notin rerun' \cup broken' PROVE Judged(b)'
    <3>1. Tries(b)
      BY <2>1, <2>4, <2>12 DEF BatchOk, Judged, Competes
    <3>2. batchRun.score \in Nat /\ k \notin batchRun.tried
          /\ batchRun.tried \subseteq Candidates
      BY <1>a, <2>1, <3>1 DEF SymbolTypes, RunRecords, Tries
    <3>3. \A j \in batchRun.tried : result'[b][j] = result[b][j]
      BY <2>3, <3>2 DEF Keys
    <3>4. \A j \in Candidates \ batchRun'.tried : result'[b][j] = NoResult
      BY <2>3, <2>5, <3>1 DEF Keys, Tries
    <3>5. /\ batchRun'.tried \cap batchRun'.left = {}
          /\ batchRun'.tried # {}
      BY <2>5, <3>1 DEF Tries
    <3>6. \A j \in batchRun.tried :
            TriedRow(result[b][j]) /\ result[b][j].score <= batchRun.score
            /\ result[b][j].score \in Nat
      BY <1>a, <3>1 DEF Tries, TriedRow
    <3>7. \A j \in batchRun'.tried :
            TriedRow(result'[b][j]) /\ result'[b][j].score <= batchRun'.score
      <4> SUFFICES ASSUME NEW j \in batchRun'.tried
                   PROVE  /\ TriedRow(result'[b][j])
                          /\ result'[b][j].score <= batchRun'.score
        OBVIOUS
      <4>1. CASE j = k
        <5>1. result'[b][j] = row
          BY <2>3, <4>1
        <5>2. score <= batchRun'.score
          BY <2>2, <2>5, <3>2
        <5> QED BY <2>7, <2>8, <5>1, <5>2
      <4>2. CASE j # k
        <5>1. j \in batchRun.tried
          BY <2>5, <4>2
        <5>2. batchRun.best # Nobody
          BY <1>a, <3>1, <3>2, <5>1 DEF Tries
        <5>3. batchRun.score <= batchRun'.score
          BY <2>2, <2>5, <3>2, <5>2
        <5>4. batchRun'.score \in Nat
          BY <2>2, <2>5, <3>2
        <5> QED BY <3>2, <3>3, <3>6, <5>1, <5>3, <5>4
      <4> QED BY <4>1, <4>2
    <3>8. /\ batchRun'.best \in batchRun'.tried
          /\ result'[b][batchRun'.best].score = batchRun'.score
      <4>1. CASE better
        BY <2>3, <2>5, <2>8, <4>1
      <4>2. CASE ~better
        <5>1. batchRun.tried # {}
          BY <3>1, <4>2 DEF Tries
        <5> QED BY <2>5, <3>1, <3>3, <4>2, <5>1 DEF Tries
      <4> QED BY <4>1, <4>2
    <3>9. Tries(b)'
      BY <2>5, <3>4, <3>5, <3>7, <3>8 DEF Tries
    <3>10. Competes(b)'
      BY <2>5 DEF Competes, Running
    <3>11. WinnerOf(b)'
      <4>1. \A j \in Candidates : ~result'[b][j].best
        BY <2>1, <2>3, <2>10, <2>12, BestWillBe DEF Keys
      <4> QED BY <4>1 DEF WinnerOf
    <3> QED BY <3>9, <3>10, <3>11 DEF Judged
  <2>13. BatchOk(b)'
    BY <2>11, <2>12 DEF BatchOk
  <2>14. ActivePassed'
    <3> SUFFICES ASSUME NEW d \in Batches, NEW j \in Keys,
                        result'[d][j].status = "active"
                 PROVE  result'[d][j].score > 0
      BY DEF ActivePassed
    <3>1. result'[d][j] = result[d][j]
      BY <2>3, <2>7
    <3> QED BY <3>1 DEF ActivePassed
  <2> QED BY <2>1, <2>3, <2>4, <2>6, <2>9, <2>13, <2>14
<1>4. CASE ClearBest
  <2>b. PICK b : b = batchRun.batch
    OBVIOUS
  <2> USE <2>b
  <2>1. /\ batchRun.at = "try" /\ batchRun.left = {} /\ b \in Batches
        /\ UNCHANGED <<rerun, broken, ended, tally, allowed, stale, signalled>>
    BY <1>4 DEF ClearBest, SymbolTypes, gateState
  <2>2. result' = [result EXCEPT ![b] =
                     [k \in DOMAIN result[b] |->
                        [result[b][k] EXCEPT !.best = FALSE]]]
    BY <1>4 DEF ClearBest
  <2>3. result[b] \in [Keys -> ResultRows]
    BY <2>1, <1>c DEF ResultTables
  <2>4. /\ result'[b] = [k \in Keys |-> [result[b][k] EXCEPT !.best = FALSE]]
        /\ \A d \in Batches : d # b => result'[d] = result[d]
    BY <2>1, <2>2, <2>3, <1>c DEF ResultTables
  <2>5. \A k \in Keys : /\ result'[b][k] \in ResultRows
                        /\ result'[b][k].best = FALSE
                        /\ result'[b][k].status = result[b][k].status
                        /\ result'[b][k].score = result[b][k].score
                        /\ ~result[b][k].best => result'[b][k] = result[b][k]
    <3> SUFFICES ASSUME NEW k \in Keys
                 PROVE  /\ result'[b][k] \in ResultRows
                        /\ result'[b][k].best = FALSE
                        /\ result'[b][k].status = result[b][k].status
                        /\ result'[b][k].score = result[b][k].score
                        /\ ~result[b][k].best => result'[b][k] = result[b][k]
      OBVIOUS
    <3>1. PICK r : r = result[b][k]
      OBVIOUS
    <3>2. r \in ResultRows
      BY <2>3, <3>1
    <3>3. result'[b][k] = [r EXCEPT !.best = FALSE]
      BY <2>4, <3>1
    <3>4. /\ [r EXCEPT !.best = FALSE] \in ResultRows
          /\ [r EXCEPT !.best = FALSE].best = FALSE
          /\ [r EXCEPT !.best = FALSE].status = r.status
          /\ [r EXCEPT !.best = FALSE].score = r.score
      BY <3>2 DEF ResultRows
    <3>5. ~r.best => [r EXCEPT !.best = FALSE] = r
      <4>1. r.best \in BOOLEAN
        BY <3>2 DEF ResultRows
      <4>2. ~r.best => r.best = FALSE
        BY <4>1, Zenon
      <4> QED BY <3>2, <4>2 DEF ResultRows
    <3> QED BY <3>1, <3>3, <3>4, <3>5
  <2>6. result' \in ResultTables
    <3>1. result'[b] \in [Keys -> ResultRows]
      BY <2>4, <2>5
    <3> QED BY <2>1, <2>2, <2>4, <3>1, <1>c DEF ResultTables
  <2>7. /\ batchRun' \in RunRecords
        /\ batchRun'.at = "mark" /\ batchRun'.batch = b
        /\ batchRun'.left = {} /\ batchRun'.tried = batchRun.tried
        /\ batchRun'.best = batchRun.best /\ batchRun'.score = batchRun.score
    BY <1>4, <2>1 DEF ClearBest, SymbolTypes, RunRecords
  <2>8. SymbolTypes'
    BY <2>1, <2>6, <2>7 DEF SymbolTypes
  <2>9. Running(b) /\ \A d \in Batches : d # b => ~Running(d)
    BY <2>1 DEF Running
  <2>10. \A d \in Batches : d # b => BatchOk(d)'
    BY <2>1, <2>4, <2>7, <2>9, OtherBatch DEF Running
  <2>11. ASSUME b \notin rerun
         PROVE  /\ BestOf(b)' = {} /\ b \notin ended
                /\ \A k \in Keys : result'[b][k] = result[b][k]
    <3>1. BestOf(b) = {} /\ b \notin ended
      BY <2>1, <2>9, <2>11 DEF BatchOk, OneBest
    <3>2. \A j \in Keys : ~result[b][j].best
      BY <2>1, <3>1, <1>c, BestIs
    <3> QED BY <2>1, <2>5, <2>6, <3>1, <3>2, BestWillBe
  <2>12. b \notin rerun' => OneBest(b)'
    BY <2>1, <2>11 DEF OneBest
  <2>13. ASSUME b \notin rerun' \cup broken' PROVE Judged(b)'
    <3>1. Tries(b)
      BY <2>1, <2>9, <2>13 DEF BatchOk, Judged, Competes
    <3>2. batchRun.tried \subseteq Candidates /\ Candidates \subseteq Keys
      BY DEF SymbolTypes, RunRecords, Keys
    <3>3. \A k \in Keys : result'[b][k] = result[b][k]
      BY <2>1, <2>11, <2>13
    <3>4. Tries(b)'
      BY <2>1, <2>7, <3>1, <3>2, <3>3 DEF Tries
    <3>5. Competes(b)'
      BY <2>7 DEF Competes, Running
    <3>6. WinnerOf(b)'
      BY <2>5, <3>2 DEF WinnerOf
    <3> QED BY <3>4, <3>5, <3>6 DEF Judged
  <2>14. BatchOk(b)'
    BY <2>12, <2>13 DEF BatchOk
  <2>15. ActivePassed'
    BY <2>4, <2>5 DEF ActivePassed
  <2> QED BY <2>1, <2>4, <2>8, <2>9, <2>10, <2>14, <2>15
<1>5. CASE MarkBest
  <2>b. PICK b : b = batchRun.batch
    OBVIOUS
  <2> USE <2>b
  <2>w. PICK w : w = batchRun.best
    OBVIOUS
  <2> USE <2>w
  <2> DEFINE status == IF Passes(batchRun.score) THEN "active"
                       ELSE "no_valid_strategy"
             row == [status |-> status, best |-> TRUE,
                     score |-> batchRun.score]
  <2>1. /\ batchRun.at = "mark" /\ b \in Batches
        /\ ended' = ended \cup {b} /\ batchRun' = NoRun
        /\ UNCHANGED <<rerun, broken, tally, allowed, stale, signalled>>
    BY <1>5 DEF MarkBest, SymbolTypes, gateState
  <2>2. /\ w \in Keys /\ status \in Statuses /\ batchRun.score \in 0..NoScore
        /\ batchRun.score \in Nat
    BY <1>a DEF Statuses, SymbolTypes, RunRecords
  <2>3. /\ result' \in ResultTables
        /\ result'[b][w] = row
        /\ \A j \in Keys : j # w => result'[b][j] = result[b][j]
        /\ \A d \in Batches : d # b => result'[d] = result[d]
    <3>1. Upsert(b, w, status, TRUE, batchRun.score)
      BY <1>5 DEF MarkBest
    <3> HIDE DEF status
    <3> QED BY <2>1, <2>2, <3>1, <1>c, Upserted
  <2>4. Running(b) /\ \A d \in Batches : d # b => ~Running(d)
    BY <2>1 DEF Running
  <2>5. SymbolTypes'
    BY <1>b, <2>1, <2>3 DEF SymbolTypes
  <2>6. row.best = TRUE /\ row.score = batchRun.score
        /\ row.status = status /\ (status = "active" <=> batchRun.score > 0)
    BY DEF Passes
  <2> HIDE DEF status, row
  <2>7. \A d \in Batches : ~Running(d)'
    BY <1>b, <2>1 DEF Running
  <2>8. \A d \in Batches : d # b => BatchOk(d)'
    BY <2>1, <2>3, <2>4, <2>7, OtherBatch
  <2>9. w \in BestOf(b)'
    BY <2>1, <2>2, <2>3, <2>6, BestWillBe
  <2>10. ASSUME b \notin rerun PROVE \A j \in Keys : ~result[b][j].best
    <3>1. BestOf(b) = {}
      BY <2>1, <2>4, <2>10 DEF BatchOk, OneBest
    <3> QED BY <2>1, <3>1, <1>c, BestIs
  <2>11. b \notin rerun' => OneBest(b)'
    <3>1. b \notin rerun => \A k \in BestOf(b)' : k = w
      BY <2>1, <2>3, <2>10, BestWillBe
    <3> QED BY <2>1, <2>7, <2>9, <3>1 DEF OneBest
  <2>12. ASSUME b \notin rerun' \cup broken' PROVE Judged(b)'
    <3>1. Tries(b)
      BY <2>1, <2>4, <2>12 DEF BatchOk, Judged, Competes
    <3>2. batchRun.tried # {} /\ w \in batchRun.tried
      BY <2>1, <3>1 DEF Tries
    <3>3. \A j \in Candidates : j # w => result'[b][j] = result[b][j]
      BY <2>3 DEF Keys
    <3>4. \A j \in Candidates : result'[b][j].best => j = w
      BY <2>1, <2>10, <2>12, <3>3 DEF Keys
    <3>5. ASSUME NEW j \in Candidates, result'[b][j] # NoResult
          PROVE  result'[b][j].score <= batchRun.score
      <4>1. CASE j = w
        BY <2>2, <2>3, <2>6, <4>1
      <4>2. CASE j # w
        BY <3>1, <3>3, <3>5, <4>2 DEF Tries
      <4> QED BY <4>1, <4>2
    <3>6. result'[b][w].status = "active" <=>
            \E j \in Candidates : result'[b][j].status \in
              {"active", "validated_but_not_active"}
      <4>1. w \in Candidates
        BY <3>2 DEF SymbolTypes, RunRecords
      <4>2. CASE batchRun.score > 0
        BY <2>3, <2>6, <4>1, <4>2
      <4>3. CASE ~(batchRun.score > 0)
        <5>1. status = "no_valid_strategy"
          BY <4>3 DEF status, Passes
        <5>2. \A j \in Candidates : j # w =>
                result'[b][j].status \in {"none", "no_valid_strategy"}
          <6> SUFFICES ASSUME NEW j \in Candidates, j # w
                       PROVE  result'[b][j].status \in
                                {"none", "no_valid_strategy"}
            OBVIOUS
          <6>1. CASE j \in batchRun.tried
            <7>1. /\ TriedRow(result[b][j])
                  /\ result[b][j].score <= batchRun.score
              BY <3>1, <6>1 DEF Tries
            <7>2. ~Passes(result[b][j].score)
              BY <1>a, <2>2, <4>3, <7>1 DEF TriedRow, Passes
            <7> QED BY <3>3, <7>1, <7>2 DEF TriedRow
          <6>2. CASE j \notin batchRun.tried
            BY <3>1, <3>3, <6>2 DEF Tries, NoResult
          <6> QED BY <6>1, <6>2
        <5> QED BY <2>3, <2>6, <5>1, <5>2
      <4> QED BY <4>2, <4>3
    <3>7. WinnerOf(b)'
      BY <2>3, <2>6, <3>4, <3>5, <3>6 DEF WinnerOf
    <3> QED BY <2>1, <2>7, <2>9, <3>7 DEF Judged, Competes
  <2>13. BatchOk(b)'
    BY <2>11, <2>12 DEF BatchOk
  <2>14. ActivePassed'
    <3> SUFFICES ASSUME NEW d \in Batches, NEW j \in Keys,
                        result'[d][j].status = "active"
                 PROVE  result'[d][j].score > 0
      BY DEF ActivePassed
    <3>1. CASE d = b /\ j = w
      BY <2>3, <2>6, <3>1
    <3>2. CASE ~(d = b /\ j = w)
      <4>1. result'[d][j] = result[d][j]
        BY <2>3, <3>2
      <4> QED BY <4>1 DEF ActivePassed
    <3> QED BY <3>1, <3>2
  <2> QED BY <2>1, <2>3, <2>4, <2>5, <2>8, <2>13, <2>14
<1>6. ASSUME RunFails \/ KillScript PROVE Goal
  <2>b. PICK b : b = batchRun.batch
    OBVIOUS
  <2> USE <2>b
  <2>1. /\ batchRun.at # "idle" /\ b \in Batches
        /\ broken' = broken \cup {b}
        /\ UNCHANGED <<rerun, allowed, stale, signalled>>
    BY <1>6 DEF RunFails, KillScript, SymbolTypes, gateState
  <2>2. tally' \in [runs : Nat, faults : Nat, stops : Nat]
    BY <1>6, <1>d DEF RunFails, MayFail, KillScript
  <2>3. Running(b) /\ \A d \in Batches : d # b => ~Running(d)
    BY <2>1 DEF Running
  <2>4. CASE batchRun' = NoRun /\ UNCHANGED <<result, ended>>
    <3>1. SymbolTypes'
      BY <1>b, <2>1, <2>2, <2>4 DEF SymbolTypes
    <3>2. \A d \in Batches : ~Running(d)'
      BY <1>b, <2>4 DEF Running
    <3>3. \A d \in Batches : d # b => BatchOk(d)'
      BY <2>1, <2>3, <2>4, <3>2, OtherBatch
    <3>4. BestOf(b)' = BestOf(b)
      BY <2>4 DEF BestOf
    <3>5. BatchOk(b)'
      BY <2>1, <2>4, <3>2, <3>4 DEF BatchOk, OneBest
    <3>6. ActivePassed'
      BY <2>4 DEF ActivePassed
    <3> QED BY <2>1, <2>4, <3>1, <3>3, <3>5, <3>6
  <2>5. CASE EndWithout("technical_failure")
    <3>0. "technical_failure" \in Statuses \ {"active"}
      BY DEF Statuses
    <3>1. Upsert(b, Nobody, "technical_failure", TRUE, NoScore)
      BY <2>5 DEF EndWithout
    <3>2. \A d \in Batches : d # b => result'[d] = result[d]
      BY <2>1, <3>1, <1>c DEF Upsert, ResultTables
    <3>3. SymbolTypes' /\ (\A d \in Batches : BatchOk(d)') /\ ActivePassed'
      BY <2>1, <2>2, <2>3, <2>5, <3>0, EndsWithout
    <3> QED BY <2>1, <2>3, <3>2, <3>3
  <2> QED BY <1>6, <2>4, <2>5 DEF RunFails, KillScript
<1> HIDE DEF Goal
<1> QED BY <1>1, <1>2, <1>3, <1>4, <1>5, <1>6

-----------------------------------------------------------------------------
\* The worker reads the table, forgets it, or is told by nobody.
LEMMA EvaluateStep ==
  ASSUME SymbolInv, Evaluate
  PROVE  SymbolTypes' /\ GateKnows' /\ StaysKnown
<1> USE DEF SymbolInv
<1>0. /\ UNCHANGED <<result, rerun, broken, ended, batchRun>>
      /\ \/ allowed' \in Mapped /\ stale' = FALSE
         \/ UNCHANGED <<allowed, stale>>
      /\ tally' = tally \/ CountOne("faults", ValidationFaults)
  BY DEF Evaluate, MayFail, table
<1>1. PICK k \in Allowed(allowed') \cup {Nobody} :
        signalled' = [by |-> k, known |-> allowed' # Unknown]
  BY DEF Evaluate
<1>2. allowed' \in Keys \cup {Unknown}
  BY <1>0 DEF SymbolTypes, Mapped, BestRows, Keys
<1>3. k \in Keys
  BY <1>1, <1>2 DEF Allowed, Keys
<1>4. tally' \in [runs : Nat, faults : Nat, stops : Nat]
  BY <1>0 DEF SymbolTypes, CountOne
<1>5. SymbolTypes'
  BY <1>0, <1>1, <1>2, <1>3, <1>4 DEF SymbolTypes
<1>6. BestRows' = BestRows /\ \A a : Proven(a)' <=> Proven(a)
  BY <1>0 DEF BestRows, Proven
<1>7. Unknown \notin Keys
  BY ValidationConstants DEF Unknown, Keys
<1>8. ASSUME rerun = {}
      PROVE  /\ allowed' # Unknown => BestRows # {}
             /\ allowed' \in Candidates => Proven(allowed')
             /\ allowed # Unknown => allowed' # Unknown
  <2>1. CASE allowed' = allowed
    BY <1>8, <2>1 DEF GateKnows
  <2>2. CASE allowed' \in Mapped /\ BestRows = {}
    <3>1. allowed' = Unknown
      BY <2>2 DEF Mapped
    <3>2. allowed = Unknown
      BY <1>8, <2>2 DEF GateKnows
    <3> QED BY <1>7, <3>1, <3>2 DEF Keys
  <2>3. CASE allowed' \in Mapped /\ BestRows # {}
    <3>1. PICK x \in BestRows :
            allowed' = IF result[x[1]][x[2]].status = "active" THEN x[2]
                       ELSE Nobody
      BY <2>3 DEF Mapped
    <3>2. /\ x[1] \in Batches /\ x[2] \in Keys
          /\ result[x[1]][x[2]].best
      BY <3>1 DEF BestRows, Keys
    <3>3. allowed' \in Keys
      BY <3>1, <3>2 DEF Keys
    <3>4. allowed' \in Candidates => Proven(allowed')
      <4>1. Nobody \notin Candidates
        BY ValidationConstants
      <4> QED BY <3>1, <3>2, <4>1 DEF Proven
    <3> QED BY <1>7, <2>3, <3>3, <3>4
  <2> QED BY <1>0, <2>1, <2>2, <2>3
<1>9. GateKnows'
  <2> SUFFICES ASSUME rerun = {}
               PROVE  /\ allowed' # Unknown => BestRows # {}
                      /\ allowed' \in Candidates => Proven(allowed')
                      /\ signalled'.by # Nobody /\ signalled'.known =>
                           /\ signalled'.by \in Candidates
                           /\ Proven(signalled'.by)
    BY <1>0, <1>6 DEF GateKnows
  <2>1. ASSUME signalled'.by # Nobody, signalled'.known
        PROVE  signalled'.by \in Candidates /\ Proven(signalled'.by)
    <3>1. signalled'.by = k /\ allowed' # Unknown
      BY <1>1, <2>1
    <3>2. k = allowed' /\ k \in Candidates
      BY <1>1, <1>2, <2>1, <3>1 DEF Allowed, Keys
    <3> QED BY <1>8, <3>1, <3>2
  <2> QED BY <1>8, <2>1
<1>10. StaysKnown
  BY <1>0, <1>8 DEF StaysKnown
<1> QED BY <1>5, <1>9, <1>10

LEMMA NextSymbols ==
  SymbolInv /\ [ValidationNext]_validationVars => SymbolInv' /\ StaysKnown
<1> SUFFICES ASSUME SymbolInv, [ValidationNext]_validationVars
             PROVE  SymbolInv' /\ StaysKnown
  OBVIOUS
<1> USE DEF SymbolInv
<1>0. \A b \in Batches : BatchOk(b)
  OBVIOUS
\* The batches are as they were when the worker does something.
<1>a. ASSUME UNCHANGED <<result, rerun, broken, ended, batchRun>>
      PROVE  (\A b \in Batches : BatchOk(b)') /\ ActivePassed'
  <2>1. \A b \in Batches : BatchOk(b)'
    BY <1>0, <1>a DEF BatchOk, OneBest, Judged, Competes, Tries, WinnerOf,
         Running, BestOf
  <2> QED BY <1>a, <2>1 DEF ActivePassed
<1>1. CASE UNCHANGED validationVars
  <2>1. UNCHANGED <<result, rerun, broken, ended, batchRun, allowed, stale,
                    signalled, tally>>
    BY <1>1 DEF validationVars
  <2>2. SymbolTypes' /\ StaysKnown
    BY <2>1 DEF SymbolTypes, StaysKnown
  <2>3. GateKnows'
    BY <2>1 DEF GateKnows, BestRows, Proven
  <2> QED BY <1>a, <2>1, <2>2, <2>3
<1>2. CASE \/ \E b \in Batches, resume \in BOOLEAN : RunBatch(b, resume)
           \/ \E h \in Histories : Load(h)
           \/ \E k \in Candidates, score \in 0..MaxScore :
                TryCandidate(k, score)
           \/ ClearBest \/ MarkBest \/ RunFails \/ KillScript
  <2>1. /\ SymbolTypes' /\ (\A d \in Batches : BatchOk(d)') /\ ActivePassed'
        /\ UNCHANGED <<allowed, stale, signalled>>
        /\ rerun \subseteq rerun'
        /\ \A b \in Batches : ~Running(b) => result'[b] = result[b]
    BY <1>2, ScriptSteps
  <2>2. CASE rerun' = {}
    <3>1. rerun = {}
      BY <2>1, <2>2
    <3>2. GateKnows'
      BY <2>1, <2>2, <3>1, BestStays
    <3> QED BY <2>1, <3>2 DEF StaysKnown
  <2>3. CASE rerun' # {}
    BY <2>1, <2>3 DEF GateKnows, StaysKnown
  <2> QED BY <2>2, <2>3
<1>3. CASE Evaluate
  <2>1. UNCHANGED <<result, rerun, broken, ended, batchRun>>
    BY <1>3 DEF Evaluate, table
  <2> QED BY <1>3, <1>a, <2>1, EvaluateStep
<1>4. CASE BecomeStale
  <2>1. /\ UNCHANGED <<result, rerun, broken, ended, batchRun, allowed,
                       signalled, tally>>
        /\ stale' = TRUE
    BY <1>4 DEF BecomeStale, table
  <2>2. SymbolTypes' /\ StaysKnown
    BY <2>1 DEF SymbolTypes, StaysKnown
  <2>3. GateKnows'
    BY <2>1 DEF GateKnows, BestRows, Proven
  <2> QED BY <1>a, <2>1, <2>2, <2>3
<1>5. CASE RestartGate
  <2>1. /\ UNCHANGED <<result, rerun, broken, ended, batchRun>>
        /\ allowed' = Unknown /\ stale' = TRUE
        /\ signalled' = [by |-> Nobody, known |-> FALSE]
        /\ tally' = [tally EXCEPT !.stops = @ + 1]
    BY <1>5 DEF RestartGate, CountOne, table
  <2>2. /\ tally' \in [runs : Nat, faults : Nat, stops : Nat]
        /\ tally'.stops > tally.stops
    BY <2>1 DEF SymbolTypes
  <2>3. SymbolTypes' /\ StaysKnown
    BY <2>1, <2>2 DEF SymbolTypes, StaysKnown, Keys
  <2>4. GateKnows'
    BY <2>1, ValidationConstants DEF GateKnows, Unknown
  <2> QED BY <1>a, <2>1, <2>3, <2>4
<1> QED
  BY <1>1, <1>2, <1>3, <1>4, <1>5 DEF ValidationNext

(* Through kills, failures and resumed runs of the batch script a batch has
   one best row, the best of its candidates, and a result if a run of it came
   to its end; the worker signals with a strategy that passed. *)
THEOREM BatchesAreJudged == DecisionsSpec => []SymbolContract
<1>1. DecisionsInit => SymbolInv
  BY InitSymbols DEF DecisionsInit
<1>2. SymbolInv /\ [DecisionsNext]_decisionsVars => SymbolInv'
  BY NextSymbols, PartsStep
<1>3. SymbolInv => SymbolContract
  <2> SUFFICES ASSUME SymbolInv PROVE SymbolContract
    OBVIOUS
  <2> USE DEF SymbolInv
  <2>0. result \in ResultTables /\ Candidates \subseteq Keys
    BY DEF SymbolTypes, Keys
  <2>1. ValidationTypeOK
    BY <2>0 DEF ValidationTypeOK, SymbolTypes, ResultTables, ResultRows, Keys,
         RunRecords
  <2>2. OneBestPerBatch
    <3> SUFFICES ASSUME NEW b \in Batches \ rerun
                 PROVE  Cardinality(BestOf(b)) <= 1
      BY DEF OneBestPerBatch
    <3>1. \A j, k \in BestOf(b) : j = k
      BY DEF BatchOk, OneBest
    <3>2. CASE BestOf(b) = {}
      <4>1. Cardinality(BestOf(b)) = 0
        BY <3>2, FS_EmptySet
      <4> QED BY <4>1
    <3>3. CASE BestOf(b) # {}
      <4>1. PICK k : k \in BestOf(b)
        BY <3>3
      <4>2. BestOf(b) = {k}
        BY <3>1, <4>1
      <4>3. Cardinality(BestOf(b)) = 1
        BY <4>2, FS_Singleton
      <4> QED BY <4>3
    <3> QED BY <3>2, <3>3
  <2>3. EndedHasResult
    BY DEF EndedHasResult, BatchOk, OneBest, SymbolTypes
  <2>4. WinnerIsBest
    BY DEF WinnerIsBest, BatchOk, Judged, WinnerOf
  <2>5. SignalIsValidated
    BY <2>0 DEF SignalIsValidated, GateKnows, Proven, ActivePassed
  <2> QED BY <2>1, <2>2, <2>3, <2>4, <2>5 DEF SymbolContract
<1> QED BY <1>1, <1>2, <1>3, PTL DEF DecisionsSpec

(* A worker that knows what a symbol may trade does not fall back to allowing
   everything, whatever fails or is written meanwhile. *)
THEOREM GateStaysKnown == DecisionsSpec => [][StaysKnown]_decisionsVars
<1>1. DecisionsInit => SymbolInv
  BY InitSymbols DEF DecisionsInit
<1>2. SymbolInv /\ [DecisionsNext]_decisionsVars => SymbolInv' /\ StaysKnown
  BY NextSymbols, PartsStep
<1> QED BY <1>1, <1>2, PTL DEF DecisionsSpec

-----------------------------------------------------------------------------
(* The strategies judge both sides alike *)

\* What an indicator may say; a market upside down is one of these as well.
Feats ==
  [adx : Int, rsi : Int, position : Int, width : Int, atr : Int, volume : Int,
   di : {-1, 1}, ema : {-1, 1}, macd : {-1, 1}, ret : {-1, 1}]

Judges == {"mean_reversion_v1", "trend_following_v1", "momentum_v1",
           "breakout_v1", "volatility_adjusted_momentum_v1"}
Given == [side : {Long, Short}, strategy : Judges, points : Int, max : Int]
MaySay == Given \cup {NoSignal}

LEMMA BundlesAreFeats == Bundles \subseteq Feats
BY SignalConstants DEF Bundles, Feats

LEMMA MirrorIs ==
  ASSUME NEW b \in Feats
  PROVE  /\ Mirrored(b) \in Feats
         /\ Mirrored(b).adx = b.adx /\ Mirrored(b).width = b.width
         /\ Mirrored(b).atr = b.atr /\ Mirrored(b).volume = b.volume
         /\ Mirrored(b).rsi = 100 - b.rsi
         /\ Mirrored(b).position = 100 - b.position
         /\ Mirrored(b).di = -b.di /\ Mirrored(b).ema = -b.ema
         /\ Mirrored(b).macd = -b.macd /\ Mirrored(b).ret = -b.ret
<1> DEFINE c == Mirrored(b)
<1>1. /\ c.adx = b.adx /\ c.width = b.width
      /\ c.atr = b.atr /\ c.volume = b.volume
      /\ c.rsi = 100 - b.rsi /\ c.position = 100 - b.position
      /\ c.di = -b.di /\ c.ema = -b.ema
      /\ c.macd = -b.macd /\ c.ret = -b.ret
  BY DEF Mirrored, Feats
<1>2. /\ \A x \in Feats, v \in Int : [x EXCEPT !.rsi = v] \in Feats
      /\ \A x \in Feats, v \in Int : [x EXCEPT !.position = v] \in Feats
  BY DEF Feats
<1>3. /\ \A x \in Feats, v \in {-1, 1} : [x EXCEPT !.di = v] \in Feats
      /\ \A x \in Feats, v \in {-1, 1} : [x EXCEPT !.ema = v] \in Feats
      /\ \A x \in Feats, v \in {-1, 1} : [x EXCEPT !.macd = v] \in Feats
      /\ \A x \in Feats, v \in {-1, 1} : [x EXCEPT !.ret = v] \in Feats
  BY DEF Feats
<1>4. PICK p, q \in Int : p = 100 - b.rsi /\ q = 100 - b.position
  BY DEF Feats
<1>5. PICK d, e, m, x \in {-1, 1} :
        d = -b.di /\ e = -b.ema /\ m = -b.macd /\ x = -b.ret
  BY DEF Feats
<1>6. c = [[[[[[b EXCEPT !.rsi = p] EXCEPT !.position = q] EXCEPT !.di = d]
             EXCEPT !.ema = e] EXCEPT !.macd = m] EXCEPT !.ret = x]
  BY <1>4, <1>5 DEF Mirrored, Feats
<1> HIDE DEF c
<1>7. c \in Feats
  <2>1. [[b EXCEPT !.rsi = p] EXCEPT !.position = q] \in Feats
    BY <1>2
  <2>2. [[[b EXCEPT !.rsi = p] EXCEPT !.position = q] EXCEPT !.di = d]
          \in Feats
    BY <1>3, <2>1
  <2>3. [[[[b EXCEPT !.rsi = p] EXCEPT !.position = q] EXCEPT !.di = d]
          EXCEPT !.ema = e] \in Feats
    BY <1>3, <2>2
  <2>4. [[[[[b EXCEPT !.rsi = p] EXCEPT !.position = q] EXCEPT !.di = d]
          EXCEPT !.ema = e] EXCEPT !.macd = m] \in Feats
    BY <1>3, <2>3
  <2> QED BY <1>3, <1>6, <2>4
<1> QED BY <1>1, <1>7 DEF c

\* Trends turn into each other; the other regimes have no side.
LEMMA RegimeMirrors ==
  ASSUME NEW b \in Feats
  PROVE  LET r == ClassifyRegime(b)  s == ClassifyRegime(Mirrored(b)) IN
         /\ r = "trending_up" => s = "trending_down"
         /\ r = "trending_down" => s = "trending_up"
         /\ r \notin {"trending_up", "trending_down"} => s = r
BY MirrorIs DEF ClassifyRegime, HighVolatility, Feats

LEMMA RatedIs ==
  ASSUME NEW name \in Judges, NEW side \in {Long, Short}, NEW points \in Int,
         NEW max \in Int
  PROVE  /\ Rated(name, side, points, max) \in MaySay
         /\ Rated(name, side, points, max) # NoSignal =>
              /\ Rated(name, side, points, max).side = side
              /\ Rated(name, side, points, max).strategy = name
BY DEF Rated, MaySay, Given

LEMMA RatedMirrors ==
  ASSUME NEW name \in Judges, NEW points \in Int, NEW max \in Int
  PROVE  /\ Opposed(Rated(name, Long, points, max)) =
              Rated(name, Short, points, max)
         /\ Opposed(Rated(name, Short, points, max)) =
              Rated(name, Long, points, max)
BY DEF Rated, Opposed, NoSignal, Long, Short

LEMMA ClearerIs ==
  ASSUME NEW name \in Judges, NEW l \in Int, NEW s \in Int, NEW max \in Int
  PROVE  /\ Clearer(name, l, s, max) \in MaySay
         /\ Clearer(name, l, s, max) # NoSignal =>
              Clearer(name, l, s, max).strategy = name
BY RatedIs DEF Clearer, MaySay

LEMMA ClearerMirrors ==
  ASSUME NEW name \in Judges, NEW l \in Int, NEW s \in Int, NEW max \in Int
  PROVE  Opposed(Clearer(name, l, s, max)) = Clearer(name, s, l, max)
<1>1. ASSUME l > s
      PROVE  Opposed(Clearer(name, l, s, max)) = Clearer(name, s, l, max)
  <2>1. ~(s > l)
    BY <1>1
  <2> QED BY <1>1, <2>1, RatedMirrors DEF Clearer
<1>2. ASSUME s > l
      PROVE  Opposed(Clearer(name, l, s, max)) = Clearer(name, s, l, max)
  <2>1. ~(l > s)
    BY <1>2
  <2> QED BY <1>2, <2>1, RatedMirrors DEF Clearer
<1>3. ASSUME ~(l > s), ~(s > l)
      PROVE  Opposed(Clearer(name, l, s, max)) = Clearer(name, s, l, max)
  BY <1>3 DEF Clearer, Opposed
<1> QED BY <1>1, <1>2, <1>3

LEMMA ReturnMirrors ==
  ASSUME NEW b \in Feats
  PROVE  Return(b) \in Int /\ Return(Mirrored(b)) = -Return(b)
<1>1. b.ret \in {-1, 1} /\ Mirrored(b).ret = -b.ret /\ ReturnSize \in Nat
  BY MirrorIs, SignalConstants DEF Feats
<1>2. CASE b.ret = 1
  BY <1>1, <1>2 DEF Return
<1>3. CASE b.ret = -1
  BY <1>1, <1>3 DEF Return
<1> QED BY <1>1, <1>2, <1>3

\* The points of the pairs of scores.
LEMMA ReversionMirrors ==
  ASSUME NEW b \in Feats
  PROVE  /\ ReversionLong(b) \in Int /\ ReversionShort(b) \in Int
         /\ ReversionLong(Mirrored(b)) = ReversionShort(b)
         /\ ReversionShort(Mirrored(b)) = ReversionLong(b)
<1>1. ReversionLong(b) \in Int /\ ReversionShort(b) \in Int
  BY DEF ReversionLong, ReversionShort, When
<1>2. ReversionLong(Mirrored(b)) = ReversionShort(b)
  BY MirrorIs DEF ReversionLong, ReversionShort, When, Feats
<1>3. ReversionShort(Mirrored(b)) = ReversionLong(b)
  BY MirrorIs DEF ReversionLong, ReversionShort, When, Feats
<1> QED BY <1>1, <1>2, <1>3

LEMMA MeanReversionMirrors ==
  ASSUME NEW b \in Feats
  PROVE  /\ MeanReversion(b) \in MaySay
         /\ MeanReversion(b) # NoSignal =>
              MeanReversion(b).strategy = "mean_reversion_v1"
         /\ MeanReversion(Mirrored(b)) = Opposed(MeanReversion(b))
BY ReversionMirrors, ClearerIs, ClearerMirrors
   DEF MeanReversion, Judges

LEMMA TrendMirrors ==
  ASSUME NEW b \in Feats
  PROVE  /\ TrendLong(b) \in MaySay /\ TrendShort(b) \in MaySay
         /\ TrendLong(b) # NoSignal =>
              /\ TrendLong(b).side = Long
              /\ TrendLong(b).strategy = "trend_following_v1"
         /\ TrendShort(b) # NoSignal =>
              /\ TrendShort(b).side = Short
              /\ TrendShort(b).strategy = "trend_following_v1"
         /\ TrendLong(Mirrored(b)) = Opposed(TrendShort(b))
         /\ TrendShort(Mirrored(b)) = Opposed(TrendLong(b))
<1> DEFINE l(x) == When(x.rsi > 50, 8) + When(x.rsi > 60, 2)
                   + When(x.ema > 0, 10)
                   + When(x.adx >= 25, 6) + When(x.adx \in 20..24, 3)
                   + When(x.ema > 0, 4) + When(x.volume >= 80, 4)
                   + When(x.position \in 41..84, 2) + When(x.di > 0, 4)
           s(x) == When(x.rsi < 50, 8) + When(x.rsi < 40, 2)
                   + When(x.ema < 0, 10)
                   + When(x.adx >= 25, 6) + When(x.adx \in 20..24, 3)
                   + When(x.ema < 0, 4) + When(x.volume >= 80, 4)
                   + When(x.position \in 16..59, 2) + When(x.di < 0, 4)
           m == Halved(b, 36)
           name == "trend_following_v1"
<1>1. name \in Judges /\ Long \in {Long, Short} /\ Short \in {Long, Short}
  BY DEF Judges
<1>2. l(b) \in Int /\ s(b) \in Int /\ m \in Int
  BY DEF When, Halved
<1>3. l(Mirrored(b)) = s(b)
  BY MirrorIs DEF When, Feats
<1>4. s(Mirrored(b)) = l(b)
  BY MirrorIs DEF When, Feats
<1>5. Halved(Mirrored(b), 36) = m
  BY MirrorIs DEF Halved
<1>6. \A x : /\ TrendLong(x) = Rated(name, Long, l(x), Halved(x, 36))
             /\ TrendShort(x) = Rated(name, Short, s(x), Halved(x, 36))
  BY Zenon DEF TrendLong, TrendShort
<1> HIDE DEF l, s, m, name
<1>7. /\ TrendLong(b) = Rated(name, Long, l(b), m)
      /\ TrendShort(b) = Rated(name, Short, s(b), m)
  BY <1>6 DEF m
<1>8. /\ TrendLong(Mirrored(b)) = Rated(name, Long, s(b), m)
      /\ TrendShort(Mirrored(b)) = Rated(name, Short, l(b), m)
  BY <1>3, <1>4, <1>5, <1>6
<1>9. /\ TrendLong(Mirrored(b)) = Opposed(TrendShort(b))
      /\ TrendShort(Mirrored(b)) = Opposed(TrendLong(b))
  BY <1>1, <1>2, <1>7, <1>8, RatedMirrors
<1>10. /\ TrendLong(b) \in MaySay
       /\ TrendLong(b) # NoSignal =>
            TrendLong(b).side = Long /\ TrendLong(b).strategy = name
  BY <1>1, <1>2, <1>7, RatedIs
<1>11. /\ TrendShort(b) \in MaySay
       /\ TrendShort(b) # NoSignal =>
            TrendShort(b).side = Short /\ TrendShort(b).strategy = name
  BY <1>1, <1>2, <1>7, RatedIs
<1> QED BY <1>9, <1>10, <1>11 DEF name

LEMMA MomentumMirrors ==
  ASSUME NEW b \in Feats
  PROVE  /\ MomentumLong(b) \in MaySay /\ MomentumShort(b) \in MaySay
         /\ MomentumLong(b) # NoSignal =>
              /\ MomentumLong(b).side = Long
              /\ MomentumLong(b).strategy = "momentum_v1"
         /\ MomentumShort(b) # NoSignal =>
              /\ MomentumShort(b).side = Short
              /\ MomentumShort(b).strategy = "momentum_v1"
         /\ MomentumLong(Mirrored(b)) = Opposed(MomentumShort(b))
         /\ MomentumShort(Mirrored(b)) = Opposed(MomentumLong(b))
<1> DEFINE l(x) == When(Return(x) > 10, 10) + When(Return(x) \in 1..10, 4)
                   + When(Return(x) > 0, 6) + When(x.rsi \in 56..79, 8)
                   + When(x.macd > 0, 8) + When(x.volume >= 110, 6)
                   + When(x.adx > 18, 2)
           s(x) == When(Return(x) < -10, 10) + When(-Return(x) \in 1..10, 4)
                   + When(Return(x) < 0, 6) + When(x.rsi \in 21..44, 8)
                   + When(x.macd < 0, 8) + When(x.volume >= 110, 6)
                   + When(x.adx > 18, 2)
           name == "momentum_v1"
<1>1. name \in Judges /\ Long \in {Long, Short} /\ Short \in {Long, Short}
      /\ 40 \in Int
  BY DEF Judges
<1>2. l(b) \in Int /\ s(b) \in Int
  BY DEF When
<1>3. l(Mirrored(b)) = s(b)
  BY MirrorIs, ReturnMirrors DEF When, Feats
<1>4. s(Mirrored(b)) = l(b)
  BY MirrorIs, ReturnMirrors DEF When, Feats
<1>6. \A x : /\ MomentumLong(x) = Rated(name, Long, l(x), 40)
             /\ MomentumShort(x) = Rated(name, Short, s(x), 40)
  BY Zenon DEF MomentumLong, MomentumShort
<1> HIDE DEF l, s, name
<1>7. /\ MomentumLong(Mirrored(b)) = Rated(name, Long, s(b), 40)
      /\ MomentumShort(Mirrored(b)) = Rated(name, Short, l(b), 40)
  BY <1>3, <1>4, <1>6
<1>8. /\ MomentumLong(Mirrored(b)) = Opposed(MomentumShort(b))
      /\ MomentumShort(Mirrored(b)) = Opposed(MomentumLong(b))
  BY <1>1, <1>2, <1>6, <1>7, RatedMirrors
<1>9. /\ MomentumLong(b) \in MaySay
      /\ MomentumLong(b) # NoSignal =>
           MomentumLong(b).side = Long /\ MomentumLong(b).strategy = name
  BY <1>1, <1>2, <1>6, RatedIs
<1>10. /\ MomentumShort(b) \in MaySay
       /\ MomentumShort(b) # NoSignal =>
            MomentumShort(b).side = Short /\ MomentumShort(b).strategy = name
  BY <1>1, <1>2, <1>6, RatedIs
<1> QED BY <1>8, <1>9, <1>10 DEF name

LEMMA BreakoutMirrors ==
  ASSUME NEW b \in Feats
  PROVE  /\ Breakout(b) \in MaySay
         /\ Breakout(b) # NoSignal => Breakout(b).strategy = "breakout_v1"
         /\ Breakout(Mirrored(b)) = Opposed(Breakout(b))
<1> DEFINE o(x) == When(x.width >= 45, 8 + 6) + When(x.volume >= 120, 6)
                   + When(x.adx > 18, 2)
           l(x) == o(x) + When(x.position >= 90, 10)
                   + When(x.rsi \in 56..74, 4)
           s(x) == o(x) + When(x.position <= 10, 10)
                   + When(x.rsi \in 26..44, 4)
           name == "breakout_v1"
<1>1. name \in Judges /\ 36 \in Int
  BY DEF Judges
<1>2. l(b) \in Int /\ s(b) \in Int
  BY DEF When
<1>3. l(Mirrored(b)) = s(b) /\ s(Mirrored(b)) = l(b)
  BY MirrorIs DEF When, Feats
<1>4. \A x : Breakout(x) = Clearer(name, l(x), s(x), 36)
  BY Zenon DEF Breakout
<1> HIDE DEF l, s, o, name
<1>5. Breakout(Mirrored(b)) = Clearer(name, s(b), l(b), 36)
  BY <1>3, <1>4
<1>6. Breakout(Mirrored(b)) = Opposed(Breakout(b))
  BY <1>1, <1>2, <1>4, <1>5, ClearerMirrors
<1>7. Breakout(b) \in MaySay
      /\ (Breakout(b) # NoSignal => Breakout(b).strategy = name)
  BY <1>1, <1>2, <1>4, ClearerIs
<1> QED BY <1>6, <1>7 DEF name

LEMMA VolatilityMirrors ==
  ASSUME NEW b \in Feats
  PROVE  /\ VolatilityMomentum(b) \in MaySay
         /\ VolatilityMomentum(b) # NoSignal =>
              VolatilityMomentum(b).strategy =
                "volatility_adjusted_momentum_v1"
         /\ VolatilityMomentum(Mirrored(b)) = Opposed(VolatilityMomentum(b))
<1> DEFINE p(x, sign) ==
             When(sign * Return(x) > 20, 10) + When(sign * Return(x) > 0, 6)
             + When(IF sign > 0 THEN x.rsi \in 59..77 ELSE x.rsi \in 23..41, 8)
             + When(sign * x.macd > 0, 8) + When(x.volume >= 130, 8)
           d(x) == IF x.atr > HighVolatility THEN x.atr ELSE HighVolatility
           l(x) == HighVolatility * p(x, 1)
           s(x) == HighVolatility * p(x, -1)
           m(x) == 40 * d(x)
           name == "volatility_adjusted_momentum_v1"
<1>1. name \in Judges
  BY DEF Judges
<1>2. p(b, 1) \in Int /\ p(b, -1) \in Int /\ d(b) \in Int
  BY DEF When, HighVolatility, Feats
<1>3. p(Mirrored(b), 1) = p(b, -1)
  BY MirrorIs, ReturnMirrors DEF When, Feats
<1>4. p(Mirrored(b), -1) = p(b, 1)
  BY MirrorIs, ReturnMirrors DEF When, Feats
<1>5. d(Mirrored(b)) = d(b)
  BY MirrorIs
<1>6. \A x : VolatilityMomentum(x) = Clearer(name, l(x), s(x), m(x))
  BY Zenon DEF VolatilityMomentum
<1> HIDE DEF p, d, name
<1>7. l(b) \in Int /\ s(b) \in Int /\ m(b) \in Int
  BY <1>2 DEF HighVolatility
<1>8. /\ l(Mirrored(b)) = s(b) /\ s(Mirrored(b)) = l(b)
      /\ m(Mirrored(b)) = m(b)
  BY <1>3, <1>4, <1>5
<1> HIDE DEF l, s, m
<1>9. VolatilityMomentum(Mirrored(b)) = Clearer(name, s(b), l(b), m(b))
  BY <1>6, <1>8
<1>10. VolatilityMomentum(Mirrored(b)) = Opposed(VolatilityMomentum(b))
  BY <1>1, <1>6, <1>7, <1>9, ClearerMirrors
<1>11. /\ VolatilityMomentum(b) \in MaySay
       /\ VolatilityMomentum(b) # NoSignal =>
            VolatilityMomentum(b).strategy = name
  BY <1>1, <1>6, <1>7, ClearerIs
<1> QED BY <1>10, <1>11 DEF name


LEMMA OpinionsAre ==
  ASSUME NEW b
  PROVE  /\ Opinions(b, "ranging") = {MeanReversion(b)} \ {NoSignal}
         /\ Opinions(b, "breakout") = {Breakout(b)} \ {NoSignal}
         /\ Opinions(b, "high_volatility") =
              {VolatilityMomentum(b)} \ {NoSignal}
         /\ Opinions(b, "trending_up") =
              {TrendLong(b), MomentumLong(b)} \ {NoSignal}
         /\ Opinions(b, "trending_down") =
              {TrendShort(b), MomentumShort(b)} \ {NoSignal}
         /\ \A r : r \notin {"ranging", "breakout", "high_volatility",
                             "trending_up", "trending_down"} =>
              Opinions(b, r) = {}
BY DEF Opinions, TrendFollowing, Momentum

\* Opinions are signals, of the strategies of the regime, of one side.
LEMMA OpinionsType ==
  ASSUME NEW b \in Feats, NEW r, NEW o \in Opinions(b, r)
  PROVE  /\ o \in Given
         /\ r = "ranging" => o.strategy = "mean_reversion_v1"
         /\ r = "breakout" => o.strategy = "breakout_v1"
         /\ r = "high_volatility" =>
              o.strategy = "volatility_adjusted_momentum_v1"
         /\ r \in {"trending_up", "trending_down"} =>
              o.strategy \in {"trend_following_v1", "momentum_v1"}
         /\ r = "trending_up" => o.side = Long
         /\ r = "trending_down" => o.side = Short
         /\ r \in {"ranging", "breakout", "high_volatility",
                   "trending_up", "trending_down"}
<1>1. o \in MaySay \ {NoSignal} => o \in Given
  BY DEF MaySay
<1>2. CASE r = "ranging"
  BY <1>1, <1>2, OpinionsAre, MeanReversionMirrors
<1>3. CASE r = "breakout"
  BY <1>1, <1>3, OpinionsAre, BreakoutMirrors
<1>4. CASE r = "high_volatility"
  BY <1>1, <1>4, OpinionsAre, VolatilityMirrors
<1>5. CASE r = "trending_up"
  BY <1>1, <1>5, OpinionsAre, TrendMirrors, MomentumMirrors
<1>6. CASE r = "trending_down"
  BY <1>1, <1>6, OpinionsAre, TrendMirrors, MomentumMirrors
<1> QED BY <1>2, <1>3, <1>4, <1>5, <1>6, OpinionsAre

LEMMA OneSide ==
  ASSUME NEW b \in Feats, NEW r
  PROVE  \A o, p \in Opinions(b, r) : o.side = p.side
<1>1. CASE r \in {"ranging", "breakout", "high_volatility"}
  BY <1>1, OpinionsAre
<1>2. CASE r \in {"trending_up", "trending_down"}
  BY <1>2, OpinionsType
<1> QED BY <1>1, <1>2, OpinionsType

\* Turning opinions round keeps what is an opinion and what is none.
LEMMA OpposedSets ==
  ASSUME NEW x \in MaySay, NEW y \in MaySay
  PROVE  {Opposed(o) : o \in {x, y} \ {NoSignal}} =
           {Opposed(x), Opposed(y)} \ {NoSignal}
<1>1. \A o \in MaySay : Opposed(o) = NoSignal <=> o = NoSignal
  <2> SUFFICES ASSUME NEW o \in Given PROVE Opposed(o) # NoSignal
    BY DEF MaySay, Opposed
  <2>1. o # NoSignal
    BY DEF Given, NoSignal, Long, Short
  <2>2. Opposed(o).side \in {Long, Short}
    BY <2>1 DEF Opposed, Given
  <2> QED BY <2>2 DEF NoSignal, Long, Short
<1> QED BY <1>1

LEMMA TwinSides ==
  ASSUME NEW b \in Feats
  PROVE  Opinions(Mirrored(b), ClassifyRegime(Mirrored(b))) =
           {Opposed(o) : o \in Opinions(b, ClassifyRegime(b))}
<1> DEFINE c == Mirrored(b)
           r == ClassifyRegime(b)
           s == ClassifyRegime(c)
<1>0. /\ r = "trending_up" => s = "trending_down"
      /\ r = "trending_down" => s = "trending_up"
      /\ r \notin {"trending_up", "trending_down"} => s = r
  BY RegimeMirrors
<1> HIDE DEF r, s, c
<1> SUFFICES Opinions(c, s) = {Opposed(o) : o \in Opinions(b, r)}
  BY DEF r, s, c
<1>1. CASE r = "ranging"
  <2>1. MeanReversion(c) = Opposed(MeanReversion(b))
        /\ MeanReversion(b) \in MaySay
    BY MeanReversionMirrors DEF c
  <2>2. {Opposed(o) : o \in {MeanReversion(b)} \ {NoSignal}} =
          {Opposed(MeanReversion(b))} \ {NoSignal}
    BY <2>1, OpposedSets
  <2> QED BY <1>0, <1>1, <2>1, <2>2, OpinionsAre
<1>2. CASE r = "breakout"
  <2>1. Breakout(c) = Opposed(Breakout(b)) /\ Breakout(b) \in MaySay
    BY BreakoutMirrors DEF c
  <2>2. {Opposed(o) : o \in {Breakout(b)} \ {NoSignal}} =
          {Opposed(Breakout(b))} \ {NoSignal}
    BY <2>1, OpposedSets
  <2> QED BY <1>0, <1>2, <2>1, <2>2, OpinionsAre
<1>3. CASE r = "high_volatility"
  <2>1. VolatilityMomentum(c) = Opposed(VolatilityMomentum(b))
        /\ VolatilityMomentum(b) \in MaySay
    BY VolatilityMirrors DEF c
  <2>2. {Opposed(o) : o \in {VolatilityMomentum(b)} \ {NoSignal}} =
          {Opposed(VolatilityMomentum(b))} \ {NoSignal}
    BY <2>1, OpposedSets
  <2> QED BY <1>0, <1>3, <2>1, <2>2, OpinionsAre
<1>4. CASE r = "trending_up"
  <2>1. /\ TrendShort(c) = Opposed(TrendLong(b)) /\ TrendLong(b) \in MaySay
        /\ MomentumShort(c) = Opposed(MomentumLong(b))
        /\ MomentumLong(b) \in MaySay
    BY TrendMirrors, MomentumMirrors DEF c
  <2>2. {Opposed(o) : o \in {TrendLong(b), MomentumLong(b)} \ {NoSignal}} =
          {Opposed(TrendLong(b)), Opposed(MomentumLong(b))} \ {NoSignal}
    BY <2>1, OpposedSets
  <2> QED BY <1>0, <1>4, <2>1, <2>2, OpinionsAre
<1>5. CASE r = "trending_down"
  <2>1. /\ TrendLong(c) = Opposed(TrendShort(b)) /\ TrendShort(b) \in MaySay
        /\ MomentumLong(c) = Opposed(MomentumShort(b))
        /\ MomentumShort(b) \in MaySay
    BY TrendMirrors, MomentumMirrors DEF c
  <2>2. {Opposed(o) : o \in {TrendShort(b), MomentumShort(b)} \ {NoSignal}} =
          {Opposed(TrendShort(b)), Opposed(MomentumShort(b))} \ {NoSignal}
    BY <2>1, OpposedSets
  <2> QED BY <1>0, <1>5, <2>1, <2>2, OpinionsAre
<1>6. CASE r \notin {"ranging", "breakout", "high_volatility",
                     "trending_up", "trending_down"}
  <2>1. Opinions(c, s) = {} /\ Opinions(b, r) = {}
    BY <1>0, <1>6, OpinionsAre
  <2> QED BY <2>1
<1> QED BY <1>1, <1>2, <1>3, <1>4, <1>5, <1>6

\* The regime of a trend, to live trading or to a backtest, has the direction
\* index on its side: the two never name opposite trends.
LEMMA TrendsAgree ==
  ASSUME NEW b \in Feats
  PROVE  {ClassifyRegime(b), DetectRegimeSimple(b)} #
           {"trending_up", "trending_down"}
<1>1. b.di \in {-1, 1}
  BY DEF Feats
<1>2. ClassifyRegime(b) = "trending_up" => b.di > 0
  BY DEF ClassifyRegime
<1>3. ClassifyRegime(b) = "trending_down" => ~(b.di > 0)
  BY DEF ClassifyRegime
<1>4. DetectRegimeSimple(b) = "trending_up" => b.di > 0
  BY DEF DetectRegimeSimple
<1>5. DetectRegimeSimple(b) = "trending_down" => b.di < 0
  BY DEF DetectRegimeSimple
<1>6. ~(b.di > 0 /\ b.di < 0)
  BY <1>1
<1> QED BY <1>2, <1>3, <1>4, <1>5, <1>6

\* A strategy is meant for one regime, or for the two trends.
LEMMA SameStrategySameSide ==
  ASSUME NEW b \in Feats, NEW r, NEW s,
         {r, s} # {"trending_up", "trending_down"},
         NEW o \in Opinions(b, r), NEW p \in Opinions(b, s),
         o.strategy = p.strategy
  PROVE  o.side = p.side
<1>1. CASE r = s
  BY <1>1, OneSide
<1>2. CASE r # s
  <2>1. ~(r \in {"trending_up", "trending_down"} /\
          s \in {"trending_up", "trending_down"})
    BY <1>2
  <2> QED BY <1>2, <2>1, OpinionsType
<1> QED BY <1>1, <1>2

LEMMA AtMostOneSide ==
  ASSUME NEW b \in Feats, NEW r
  PROVE  Cardinality({o.side : o \in Opinions(b, r)}) <= 1
<1> DEFINE S == {o.side : o \in Opinions(b, r)}
<1>1. CASE Opinions(b, r) = {}
  <2>1. S = {}
    BY <1>1
  <2>2. Cardinality(S) = 0
    BY <2>1, FS_EmptySet
  <2> QED BY <2>2
<1>2. ASSUME NEW o \in Opinions(b, r) PROVE Cardinality(S) <= 1
  <2>1. S = {o.side}
    BY OneSide
  <2>2. Cardinality(S) = 1
    BY <2>1, FS_Singleton
  <2> QED BY <2>2
<1> QED BY <1>1, <1>2

\* A regime has at most two strategies.
LEMMA AtMostTwo ==
  ASSUME NEW b, NEW r
  PROVE  \E x, y : Opinions(b, r) \subseteq {x, y}
<1>1. CASE r \in {"ranging", "breakout", "high_volatility"}
  BY <1>1, OpinionsAre
<1>2. CASE r = "trending_up"
  BY <1>2, OpinionsAre
<1>3. CASE r = "trending_down"
  BY <1>3, OpinionsAre
<1>4. CASE r \notin {"ranging", "breakout", "high_volatility",
                     "trending_up", "trending_down"}
  BY <1>4, OpinionsAre
<1> QED BY <1>1, <1>2, <1>3, <1>4

\* What the strategies agree on is what one of them said.
LEMMA AggregateIsHeard ==
  ASSUME NEW b \in Feats, NEW r,
         NEW heard, heard \subseteq Opinions(b, r),
         Aggregate(heard) # NoSignal
  PROVE  Aggregate(heard) \in heard
<1> DEFINE clearer(o, p) == o.points * p.max >= p.points * o.max
<1>1. heard # {}
  BY DEF Aggregate
<1>2. \A o \in heard : o.points \in Int /\ o.max \in Int
  <2> SUFFICES ASSUME NEW o \in heard PROVE o \in Given
    BY DEF Given
  <2> QED BY OpinionsType
<1>3. \A o, p \in heard : clearer(o, p) \/ clearer(p, o)
  <2> SUFFICES ASSUME NEW o \in heard, NEW p \in heard
               PROVE  clearer(o, p) \/ clearer(p, o)
    OBVIOUS
  <2>1. PICK m \in Int : m = o.points * p.max
    BY <1>2
  <2>2. PICK n \in Int : n = p.points * o.max
    BY <1>2
  <2> QED BY <2>1, <2>2
<1> HIDE DEF clearer
<1>4. \E o \in heard : \A p \in heard : clearer(o, p)
  <2>1. PICK x, y : heard \subseteq {x, y}
    BY AtMostTwo
  <2> QED BY <1>1, <1>3, <2>1
<1>5. Aggregate(heard) = CHOOSE o \in heard : \A p \in heard : clearer(o, p)
  BY DEF Aggregate, clearer
<1> QED BY <1>4, <1>5

-----------------------------------------------------------------------------
(* From the bar to the order *)

\* A signal of a bar the feed has announced, and not against its trend.
Taken(signal, event, bar) ==
  /\ signal \in Given
  /\ bar \in 1..headBar /\ event \in 1..bar
  /\ <<ClassifyRegime(Features(bar)), signal.side>> \notin
       {<<"trending_up", Short>>, <<"trending_down", Long>>}

MarketKnown ==
  /\ headBar \in 0..MaxEvents
  /\ headBar = 0 => market = Nothing
  /\ headBar # 0 => market \in Bundles

\* The features of the store are those of the newest bar, or gone.
StoreIsNewest ==
  /\ latest \in {0, headBar}
  /\ events \in Seq(Nat)
  /\ \A i \in 1..Len(events) : events[i] \in 1..headBar

CycleTaken ==
  inCycle # NoCycle => Taken(inCycle.signal, inCycle.event, inCycle.bar)

SentTaken ==
  /\ sent.priced \in 0..headBar
  /\ sent.signal # NoSignal =>
       Taken(sent.signal, sent.event, sent.bar) /\ sent.priced >= sent.bar

SignalsInv == MarketKnown /\ StoreIsNewest /\ CycleTaken /\ SentTaken

LEMMA FeaturesAreFeats ==
  ASSUME MarketKnown, NEW bar \in 1..headBar
  PROVE  Features(bar) \in Feats
<1>1. market \in Feats
  BY BundlesAreFeats DEF MarketKnown
<1> QED BY <1>1, MirrorIs DEF Features

LEMMA SignalsAreNotNone == NoSignal \notin Given
BY DEF NoSignal, Given, Long, Short

\* What was taken stays taken: the features of a bar do not change.
LEMMA TakenStays ==
  ASSUME NEW signal, NEW event, NEW bar, Taken(signal, event, bar),
         MarketKnown, headBar' \in Nat, headBar' >= headBar,
         headBar # 0 => market' = market
  PROVE  Taken(signal, event, bar)'
<1>1. headBar \in Nat /\ bar \in 1..headBar
  BY SignalConstants DEF Taken, MarketKnown
<1>2. market' = market /\ bar \in 1..headBar'
  BY <1>1
<1>3. Features(bar)' = Features(bar)
  BY <1>2 DEF Features
<1> QED BY <1>2, <1>3 DEF Taken

LEMMA InitSignals == SignalsInit => SignalsInv
BY SignalConstants
   DEF SignalsInit, SignalsInv, MarketKnown, StoreIsNewest, CycleTaken,
       SentTaken

LEMMA NextSignals ==
  ASSUME SignalsInv, [SignalsNext]_signalVars
  PROVE  SignalsInv'
<1> USE DEF SignalsInv
<1>0. headBar \in Nat /\ MaxEvents \in Nat
  BY SignalConstants DEF MarketKnown
<1>1. CASE UNCHANGED signalVars
  <2>1. Features(inCycle.bar)' = Features(inCycle.bar)
        /\ Features(sent.bar)' = Features(sent.bar)
    BY <1>1 DEF signalVars, Features
  <2> QED
    BY <1>1, <2>1 DEF signalVars, MarketKnown, StoreIsNewest, CycleTaken,
         SentTaken, Taken
<1>2. ASSUME NEW b \in IF headBar = 0 THEN Bundles ELSE {market},
             SaveFeatures(b)
      PROVE  SignalsInv'
  <2>1. headBar' = headBar + 1 /\ headBar' \in 1..MaxEvents
        /\ headBar' >= headBar
    BY <1>0, <1>2 DEF SaveFeatures
  <2>2. market' \in Bundles /\ (headBar # 0 => market' = market)
    BY <1>2 DEF SaveFeatures, MarketKnown
  <2>3. MarketKnown'
    BY <1>0, <2>1, <2>2 DEF MarketKnown
  <2>4. StoreIsNewest'
    <3>1. 1..headBar \subseteq 1..headBar' /\ headBar' \in 1..headBar'
      BY <1>0, <2>1
    <3>2. events' = Append(events, headBar') /\ latest' = headBar'
      BY <1>2, <2>1 DEF SaveFeatures
    <3>3. events \in Seq(Nat) /\ headBar' \in Nat
      BY <2>1 DEF StoreIsNewest
    <3>4. events' \in Seq(Nat) /\ Len(events') = Len(events) + 1
      BY <3>2, <3>3
    <3>5. ASSUME NEW i \in 1..Len(events') PROVE events'[i] \in 1..headBar'
      <4>1. CASE i = Len(events) + 1
        <5>1. events'[i] = headBar'
          BY <3>2, <3>3, <4>1
        <5> QED BY <3>1, <5>1
      <4>2. CASE i # Len(events) + 1
        <5>1. i \in 1..Len(events)
          BY <3>3, <3>4, <4>2
        <5>2. events'[i] = events[i]
          BY <3>2, <3>3, <5>1
        <5> QED BY <3>1, <5>1, <5>2 DEF StoreIsNewest
      <4> QED BY <4>1, <4>2
    <3> QED BY <3>2, <3>4, <3>5 DEF StoreIsNewest
  <2>5. inCycle' = inCycle /\ sent' = sent
    BY <1>2 DEF SaveFeatures
  <2>6. CycleTaken'
    <3>1. ASSUME inCycle # NoCycle
          PROVE  Taken(inCycle.signal, inCycle.event, inCycle.bar)'
      BY <1>0, <2>1, <2>2, <2>5, <3>1, TakenStays DEF CycleTaken
    <3> QED BY <2>5, <3>1 DEF CycleTaken
  <2>7. SentTaken'
    <3>1. ASSUME sent.signal # NoSignal
          PROVE  Taken(sent.signal, sent.event, sent.bar)'
      BY <1>0, <2>1, <2>2, <2>5, <3>1, TakenStays DEF SentTaken
    <3>2. sent'.priced \in 0..headBar'
      BY <1>0, <2>1, <2>5 DEF SentTaken
    <3> QED BY <2>5, <3>1, <3>2 DEF SentTaken
  <2> QED BY <2>3, <2>4, <2>6, <2>7
<1>3. CASE Expire
  <2>1. Features(inCycle.bar)' = Features(inCycle.bar)
        /\ Features(sent.bar)' = Features(sent.bar)
    BY <1>3 DEF Expire, Features
  <2> QED
    BY <1>3, <2>1 DEF Expire, MarketKnown, StoreIsNewest, CycleTaken,
         SentTaken, Taken
<1>4. ASSUME NEW muted, Process(muted) PROVE SignalsInv'
  <2> DEFINE b == Features(latest)
             r == ClassifyRegime(b)
             heard == {o \in Opinions(b, r) : o.strategy \notin muted}
             signal == Aggregate(heard)
  <2>1. events # <<>> /\ events' = Tail(events)
        /\ UNCHANGED <<market, headBar, latest, sent>>
    BY <1>4 DEF Process
  <2>2. inCycle' = IF latest = 0 \/ signal = NoSignal THEN NoCycle
                   ELSE [event |-> events[1], bar |-> latest,
                         signal |-> signal]
    BY <1>4 DEF Process
  <2>3. /\ events[1] \in 1..headBar /\ events' \in Seq(Nat)
        /\ \A i \in 1..Len(events') : events'[i] \in 1..headBar
    <3>1. events \in Seq(Nat) /\ Len(events) \in Nat /\ Len(events) > 0
      BY <2>1 DEF StoreIsNewest
    <3>2. events' \in Seq(Nat) /\ Len(events') = Len(events) - 1
      BY <2>1, <3>1
    <3>3. \A i \in 1..Len(events') : events'[i] = events[i + 1]
      BY <2>1, <3>1, <3>2
    <3>4. ASSUME NEW i \in 1..Len(events') PROVE events'[i] \in 1..headBar
      <4>1. i + 1 \in 1..Len(events)
        BY <3>1, <3>2
      <4> QED BY <3>3, <4>1 DEF StoreIsNewest
    <3>5. events[1] \in 1..headBar
      BY <3>1 DEF StoreIsNewest
    <3> QED BY <3>2, <3>4, <3>5
  <2>4. Features(sent.bar)' = Features(sent.bar)
        /\ \A n : Features(n)' = Features(n)
    BY <2>1 DEF Features
  <2>5. ASSUME latest # 0, signal # NoSignal
        PROVE  Taken(signal, events[1], latest)
    <3>1. latest = headBar /\ latest \in 1..headBar /\ events[1] \in 1..latest
      BY <1>0, <2>3, <2>5 DEF StoreIsNewest
    <3>2. b \in Feats
      BY <3>1, FeaturesAreFeats
    <3>3. signal \in Opinions(b, r)
      <4> HIDE DEF b, r
      <4>1. heard \subseteq Opinions(b, r)
        OBVIOUS
      <4> HIDE DEF heard
      <4>2. signal \in heard
        BY <2>5, <3>2, <4>1, AggregateIsHeard
      <4> QED BY <4>1, <4>2
    <3> HIDE DEF signal, heard
    <3>4. signal \in Given /\ (r = "trending_up" => signal.side = Long)
          /\ (r = "trending_down" => signal.side = Short)
      <4> HIDE DEF b, r
      <4> QED BY <3>2, <3>3, OpinionsType
    <3>5. Long # Short
      BY DEF Long, Short
    <3> QED BY <3>1, <3>4, <3>5 DEF Taken
  <2> HIDE DEF signal
  <2>6. CycleTaken'
    <3>1. CASE latest = 0 \/ signal = NoSignal
      BY <2>2, <3>1 DEF CycleTaken
    <3>2. CASE latest # 0 /\ signal # NoSignal
      <4>1. Taken(signal, events[1], latest)
        BY <2>5, <3>2
      <4>2. /\ inCycle'.signal = signal /\ inCycle'.event = events[1]
            /\ inCycle'.bar = latest
        BY <2>2, <3>2
      <4> QED BY <2>1, <2>4, <4>1, <4>2 DEF CycleTaken, Taken
    <3> QED BY <3>1, <3>2
  <2>7. SentTaken'
    BY <2>1, <2>4 DEF SentTaken, Taken
  <2>8. MarketKnown' /\ StoreIsNewest'
    BY <2>1, <2>3 DEF MarketKnown, StoreIsNewest
  <2> QED BY <2>6, <2>7, <2>8
<1>5. CASE PriceSignal
  <2>1. /\ inCycle # NoCycle /\ inCycle' = NoCycle
        /\ UNCHANGED <<market, headBar, latest, events>>
        /\ sent' = IF latest = 0 THEN sent
                   ELSE [signal |-> inCycle.signal, event |-> inCycle.event,
                         bar |-> inCycle.bar, priced |-> latest]
    BY <1>5 DEF PriceSignal
  <2>2. \A n : Features(n)' = Features(n)
    BY <2>1 DEF Features
  <2>3. MarketKnown' /\ StoreIsNewest' /\ CycleTaken'
    BY <2>1 DEF MarketKnown, StoreIsNewest, CycleTaken
  <2>4. CASE latest = 0
    <3>1. sent' = sent
      BY <2>1, <2>4
    <3>2. SentTaken'
      BY <2>1, <2>2, <3>1 DEF SentTaken, Taken
    <3> QED BY <2>3, <3>2
  <2>5. CASE latest # 0
    <3>1. latest = headBar
      BY <2>5 DEF StoreIsNewest
    <3>2. Taken(inCycle.signal, inCycle.event, inCycle.bar)
      BY <2>1 DEF CycleTaken
    <3>3. /\ sent'.signal = inCycle.signal /\ sent'.event = inCycle.event
          /\ sent'.bar = inCycle.bar /\ sent'.priced = headBar
      BY <2>1, <2>5, <3>1
    <3>4. inCycle.bar \in 1..headBar /\ headBar \in 0..headBar
      BY <1>0, <3>2 DEF Taken
    <3>5. sent'.priced \in 0..headBar /\ sent'.priced >= sent'.bar
      BY <1>0, <3>3, <3>4
    <3>6. Taken(sent.signal, sent.event, sent.bar)'
      <4>1. Taken(inCycle.signal, inCycle.event, inCycle.bar)
              => Taken(sent'.signal, sent'.event, sent'.bar)
        BY <3>3
      <4>2. Taken(sent'.signal, sent'.event, sent'.bar)
        BY <3>2, <4>1
      <4>3. UNCHANGED <<headBar, market>>
        BY <2>1
      <4> QED BY <2>2, <4>2, <4>3 DEF Taken
    <3>7. SentTaken'
      BY <2>1, <3>5, <3>6 DEF SentTaken
    <3> QED BY <2>3, <3>7
  <2> QED BY <2>3, <2>4, <2>5
<1> QED
  BY <1>1, <1>2, <1>3, <1>4, <1>5 DEF SignalsNext

(* The strategies judge both sides of a market alike, never contradict each
   other, never trade a bar the other way than their backtest does; and a
   late announcement is decided and priced on newer features, never on older
   ones, and never against the trend they were taken from. *)
THEOREM SignalsAreSound == DecisionsSpec => []SignalsContract
<1>1. DecisionsInit => SignalsInv
  BY InitSignals DEF DecisionsInit
<1>2. SignalsInv /\ [DecisionsNext]_decisionsVars => SignalsInv'
  BY NextSignals, PartsStep
<1>3. SignalsInv => SignalsContract
  <2> SUFFICES ASSUME SignalsInv PROVE SignalsContract
    OBVIOUS
  <2> USE DEF SignalsInv
  <2>0. headBar \in Nat /\ MaxEvents \in Nat
    BY SignalConstants DEF MarketKnown
  <2>1. market # Nothing => market \in Feats
    BY BundlesAreFeats DEF MarketKnown
  <2>2. SignalsTypeOK
    <3>1. headBar = 0 <=> market = Nothing
      <4>1. Nothing \notin Feats
        BY DEF Nothing, Feats
      <4> QED BY <4>1, BundlesAreFeats DEF MarketKnown
    <3>2. latest \in 0..headBar
      BY <2>0 DEF StoreIsNewest
    <3>3. \A i \in 1..Len(events) : events[i] \in 1..MaxEvents
      BY <2>0 DEF StoreIsNewest, MarketKnown
    <3>4. inCycle.bar \in 0..MaxEvents
      <4>1. CASE inCycle = NoCycle
        BY <2>0, <4>1 DEF NoCycle
      <4>2. CASE inCycle # NoCycle
        BY <2>0, <4>2 DEF CycleTaken, Taken, MarketKnown
      <4> QED BY <4>1, <4>2
    <3>5. sent.priced \in 0..MaxEvents
      BY <2>0 DEF SentTaken, MarketKnown
    <3> QED BY <3>1, <3>2, <3>3, <3>4, <3>5 DEF SignalsTypeOK, MarketKnown
  <2>3. SidesAreTwins
    BY <2>1, TwinSides DEF SidesAreTwins
  <2>4. StrategiesAgree
    BY <2>1, AtMostOneSide DEF StrategiesAgree
  <2>5. BacktestSameSide
    <3>1. ASSUME market # Nothing
          PROVE  /\ {ClassifyRegime(market), DetectRegimeSimple(market)} #
                      {"trending_up", "trending_down"}
                 /\ \A o \in Opinions(market, ClassifyRegime(market)),
                       p \in Opinions(market, DetectRegimeSimple(market)) :
                      o.strategy = p.strategy => o.side = p.side
      <4>1. PICK b \in Feats : b = market
        BY <2>1, <3>1
      <4>2. PICK live, tested : /\ live = ClassifyRegime(b)
                                /\ tested = DetectRegimeSimple(b)
        OBVIOUS
      <4>3. {live, tested} # {"trending_up", "trending_down"}
        BY <4>2, TrendsAgree
      <4>4. \A o \in Opinions(b, live), p \in Opinions(b, tested) :
              o.strategy = p.strategy => o.side = p.side
        BY <4>3, SameStrategySameSide
      <4> QED BY <4>1, <4>2, <4>3, <4>4
    <3> QED BY <3>1 DEF BacktestSameSide
  <2>6. PricedNoOlder
    BY <2>0 DEF PricedNoOlder, CycleTaken, SentTaken, Taken
  <2>7. WithTheTrend
    BY DEF WithTheTrend, SentTaken, Taken
  <2> QED BY <2>2, <2>3, <2>4, <2>5, <2>6, <2>7 DEF SignalsContract
<1> QED BY <1>1, <1>2, <1>3, PTL DEF DecisionsSpec

-----------------------------------------------------------------------------
(* What a backtest accounts for *)

\* What the proofs use of the constants.
LEMMA BacktestNumbers ==
  /\ LastBar \in Nat /\ SplitBar \in Nat /\ SplitBar <= LastBar
  /\ PageSize \in Nat /\ PageSize > 0 /\ Warmup \in Nat /\ Warmup > 0
  /\ MaxHolding \in Nat /\ MaxHolding > 0 /\ Capital \in Int
  /\ Slip \in Int /\ TakerFee \in Int /\ CapShare \in Int
  /\ Quotes \subseteq Nat /\ Lots \subseteq Nat /\ 0 \notin Lots
  /\ GoTrades \in Nat /\ WalkTrades \in Nat /\ WalkTrades <= GoTrades
  /\ NoSet \notin ParameterSets
BY BacktestConstants DEF BacktestConstants

LEMMA LotsAre == \A q \in Lots : q \in Int
BY BacktestNumbers

\* Bars have a first and a last one.
LEMMA FirstIs ==
  ASSUME NEW S \in SUBSET Bars, S # {}
  PROVE  First(S) \in S /\ \A c \in S : First(S) <= c
<1>1. S \subseteq Nat
  BY DEF Bars
<1>2. \E b \in S : \A c \in S : b <= c
  BY <1>1, LeastNatural
<1> QED BY <1>2 DEF First

LEMMA FinalIs ==
  ASSUME NEW S \in SUBSET Bars, S # {}
  PROVE  Final(S) \in S /\ \A c \in S : c <= Final(S)
<1> DEFINE A == {n \in Nat : \E b \in S : n = LastBar - b}
<1>1. S \subseteq 0..LastBar /\ LastBar \in Nat
  BY BacktestNumbers DEF Bars
<1>2. A # {}
  <2>1. PICK b \in S : TRUE
    OBVIOUS
  <2>2. LastBar - b \in A
    BY <1>1, <2>1
  <2> QED BY <2>2
<1>3. PICK m \in A : \A n \in A : m <= n
  BY <1>2, LeastNatural
<1>4. PICK b \in S : m = LastBar - b
  BY <1>3
<1>5. \A c \in S : c <= b
  <2> SUFFICES ASSUME NEW c \in S PROVE c <= b
    OBVIOUS
  <2>1. LastBar - c \in A
    BY <1>1
  <2>2. m <= LastBar - c
    BY <1>3, <2>1
  <2> QED BY <1>1, <1>4, <2>2
<1>6. \E x \in S : \A c \in S : c <= x
  BY <1>4, <1>5
<1> QED BY <1>6 DEF Final

LEMMA Intervals ==
  /\ OptimizationWindow \subseteq Bars /\ ValidationWindow \subseteq Bars
  /\ First(OptimizationWindow) = 0 /\ Final(OptimizationWindow) = SplitBar
  /\ First(ValidationWindow) = SplitBar /\ Final(ValidationWindow) = LastBar
<1>1. /\ OptimizationWindow \subseteq Bars /\ ValidationWindow \subseteq Bars
      /\ 0 \in OptimizationWindow /\ SplitBar \in OptimizationWindow
      /\ SplitBar \in ValidationWindow /\ LastBar \in ValidationWindow
  BY BacktestNumbers DEF OptimizationWindow, ValidationWindow, Bars
<1>2. /\ First(OptimizationWindow) \in OptimizationWindow
      /\ First(OptimizationWindow) <= 0
      /\ Final(OptimizationWindow) \in OptimizationWindow
      /\ SplitBar <= Final(OptimizationWindow)
  BY <1>1, FirstIs, FinalIs
<1>3. /\ First(ValidationWindow) \in ValidationWindow
      /\ First(ValidationWindow) <= SplitBar
      /\ Final(ValidationWindow) \in ValidationWindow
      /\ LastBar <= Final(ValidationWindow)
  BY <1>1, FirstIs, FinalIs
<1> QED
  BY <1>1, <1>2, <1>3, BacktestNumbers
     DEF OptimizationWindow, ValidationWindow

LEMMA BarsAreFinite ==
  ASSUME NEW S \in SUBSET Bars
  PROVE  IsFiniteSet(S) /\ Cardinality(S) \in Nat
<1>1. IsFiniteSet(Bars)
  BY BacktestNumbers, FS_Interval DEF Bars
<1>2. IsFiniteSet(S)
  BY <1>1, FS_Subset
<1> QED BY <1>2, FS_CardinalityType

LEMMA FeeType ==
  /\ Fee(0) = 0
  /\ \A n \in Int : Fee(n) \in Int
BY BacktestNumbers DEF Fee

-----------------------------------------------------------------------------
(* Money *)

Positioned ==
  [side : {"long", "short"}, lots : Lots, entry : Int, since : Bars,
   target : Quotes \cup {0}, ranging : BOOLEAN]

Accounts ==
  [cash : Int, position : Positioned \cup {Flat}, trades : Nat, net : Int,
   longest : Nat]

\* The part of an account that its position binds.
Bound(p) == p.lots * p.entry

CashIs(k) ==
  k.cash = Capital + k.net - Sign(k.position.side) * Bound(k.position)
             - Fee(Bound(k.position))

LEMMA FlatIs ==
  /\ Sign(Flat.side) = 0 /\ Bound(Flat) = 0 /\ Fee(Bound(Flat)) = 0
  /\ Flat.side # "long" /\ Flat \notin Positioned
BY FeeType DEF Flat, Sign, Bound, Positioned

LEMMA BoundIs ==
  ASSUME NEW p \in Positioned \cup {Flat}
  PROVE  Bound(p) \in Int /\ Sign(p.side) \in {-1, 0, 1}
<1>1. p \in Positioned => p.lots \in Lots /\ p.entry \in Int
  BY DEF Positioned
<1>2. p = Flat => p.lots = 0 /\ p.entry = 0
  BY DEF Flat
<1>3. p.lots \in Int /\ p.entry \in Int
  BY <1>1, <1>2, LotsAre
<1> QED BY <1>3 DEF Bound, Sign

\* The age of a position counts bars.
LEMMA AgeType ==
  ASSUME NEW p, NEW b, bars \subseteq Bars
  PROVE  Age(p, b) \in Nat
<1>1. {c \in bars : p.since < c /\ c <= b} \subseteq Bars
  OBVIOUS
<1> QED BY <1>1, BarsAreFinite DEF Age

LEMMA CloseIs ==
  ASSUME NEW k \in Accounts, k.position # Flat, CashIs(k), NEW b \in Bars,
         NEW close \in Quotes, bars \subseteq Bars, k.longest <= MaxHolding,
         Age(k.position, b) <= MaxHolding
  PROVE  /\ CloseAt(k, b, close) \in Accounts
         /\ CloseAt(k, b, close).position = Flat
         /\ CashIs(CloseAt(k, b, close))
         /\ CloseAt(k, b, close).longest <= MaxHolding
<1>1. PICK p \in Positioned : p = k.position
  BY DEF Accounts
<1>2. PICK sign : sign = Sign(p.side)
  OBVIOUS
<1>3. PICK worth \in Int : worth = Bound(p) /\ worth = p.entry * p.lots
  <2>1. p.lots \in Lots /\ p.entry \in Int
    BY DEF Positioned
  <2>2. p.lots \in Int
    BY <2>1, LotsAre
  <2> QED BY <2>1, <2>2 DEF Bound
<1>4. PICK exit \in Int : exit = ExitPrice(p.side, close) * p.lots
  <2>1. p.lots \in Int /\ close \in Int /\ Sign(p.side) \in {-1, 0, 1}
    <3>1. p.lots \in Lots
      BY DEF Positioned
    <3>2. p.lots \in Int
      BY <3>1, LotsAre
    <3>3. close \in Int
      BY BacktestNumbers
    <3>4. Sign(p.side) \in {-1, 0, 1}
      BY BoundIs
    <3> QED BY <3>2, <3>3, <3>4
  <2>2. ExitPrice(p.side, close) \in Int
    <3>1. PICK m \in Int : m = close * (100 - Sign(p.side) * Slip)
      BY <2>1, BacktestNumbers
    <3> QED BY <3>1 DEF ExitPrice
  <2> QED BY <2>1, <2>2
<1>5. PICK paid \in Int, due \in Int : paid = Fee(exit) /\ due = Fee(worth)
  BY <1>3, <1>4, FeeType
<1>6. PICK gross \in Int, gain \in Int, back \in Int :
        gross = sign * (exit - worth) /\ gain = sign * exit
        /\ back = sign * worth /\ gross = gain - back
  BY <1>2, <1>3, <1>4, BoundIs
<1>7. PICK lasted \in Nat : lasted = Age(p, b)
  BY AgeType
<1>8. CloseAt(k, b, close) =
        [cash |-> k.cash + gain - paid, position |-> Flat,
         trades |-> k.trades + 1, net |-> k.net + gross - paid - due,
         longest |-> IF lasted > k.longest THEN lasted ELSE k.longest]
  BY <1>1, <1>2, <1>3, <1>4, <1>5, <1>6, <1>7 DEF CloseAt
<1>9. k.cash \in Int /\ k.net \in Int /\ k.trades \in Nat /\ k.longest \in Nat
  BY DEF Accounts
<1>10. k.cash = Capital + k.net - back - due
  BY <1>1, <1>2, <1>3, <1>5, <1>6 DEF CashIs
<1>11. k.cash + gain - paid = Capital + (k.net + gross - paid - due)
  BY <1>5, <1>6, <1>9, <1>10, BacktestNumbers
<1>12. CashIs(CloseAt(k, b, close))
  <2>1. PICK n \in Int : n = k.net + gross - paid - due
    BY <1>5, <1>6, <1>9
  <2>2. PICK m \in Int : m = k.cash + gain - paid /\ m = Capital + n
    BY <1>5, <1>6, <1>9, <1>11, <2>1
  <2>3. CashIs(CloseAt(k, b, close)) <=> m = Capital + n - 0 * 0 - 0
    BY <1>8, <2>1, <2>2, FlatIs DEF CashIs
  <2> QED BY <2>1, <2>2, <2>3, BacktestNumbers
<1>13. (IF lasted > k.longest THEN lasted ELSE k.longest) \in 0..MaxHolding
  BY <1>1, <1>7, <1>9, BacktestNumbers
<1>14. CloseAt(k, b, close) \in Accounts
  BY <1>5, <1>6, <1>8, <1>9, <1>13, BacktestNumbers DEF Accounts
<1> QED BY <1>8, <1>12, <1>13, <1>14, BacktestNumbers

\* An entry costs what it binds and its fee; a long one is paid for.
LEMMA OpenIs ==
  ASSUME NEW k \in Accounts, k.position = Flat, CashIs(k), NEW b \in Bars,
         NEW side \in {"long", "short"}, NEW open \in Quotes,
         NEW lots \in Lots, NEW target \in Quotes \cup {0},
         NEW ranging \in BOOLEAN, Affordable(k, side, open, lots)
  PROVE  LET o == OpenAt(k, b, side, open, lots, target, ranging) IN
         /\ o \in Accounts /\ CashIs(o)
         /\ o.position \in Positioned /\ o.position.since = b
         /\ o.longest = k.longest
         /\ o.position.side = "long" => o.cash >= 0
<1> DEFINE o == OpenAt(k, b, side, open, lots, target, ranging)
<1>1. PICK sign \in {-1, 1} :
        sign = Sign(side) /\ (side = "long" => sign = 1)
  BY DEF Sign
<1>2. PICK price \in Int : price = EntryPrice(side, open)
  <2>1. open \in Int
    BY BacktestNumbers
  <2>2. PICK m \in Int : m = open * (100 + Sign(side) * Slip)
    BY <1>1, <2>1, BacktestNumbers
  <2> QED BY <2>2 DEF EntryPrice
<1>3. lots \in Int
  BY BacktestNumbers
<1>4. PICK n \in Int : n = price * lots /\ n = lots * price
  BY <1>2, <1>3
<1>5. PICK due \in Int : due = Fee(n)
  BY <1>4, FeeType
<1>6. PICK out \in Int : out = sign * price * lots /\ out = sign * n
                         /\ (side = "long" => out = n)
  BY <1>1, <1>2, <1>3, <1>4
<1>7. PICK p \in Positioned :
        /\ p = [side |-> side, lots |-> lots, entry |-> price, since |-> b,
                target |-> target, ranging |-> ranging]
        /\ p.side = side /\ p.lots = lots /\ p.entry = price /\ p.since = b
  <2>1. [side |-> side, lots |-> lots, entry |-> price, since |-> b,
         target |-> target, ranging |-> ranging] \in Positioned
    BY <1>2 DEF Positioned
  <2> QED BY <2>1
<1>8. k.cash \in Int /\ k.net \in Int /\ k.trades \in Nat /\ k.longest \in Nat
  BY DEF Accounts
<1>9. o = [k EXCEPT !.cash = k.cash - out - due, !.position = p]
  BY <1>1, <1>2, <1>4, <1>5, <1>6, <1>7 DEF OpenAt, Accounts
<1> HIDE DEF o
<1>10. /\ o.cash = k.cash - out - due /\ o.position = p /\ o.net = k.net
       /\ o.longest = k.longest
  BY <1>9 DEF Accounts
<1>11. o \in Accounts
  <2>1. PICK m \in Int : m = k.cash - out - due
    BY <1>5, <1>6, <1>8
  <2>2. [k EXCEPT !.cash = m] \in Accounts
    BY <2>1 DEF Accounts
  <2>3. [[k EXCEPT !.cash = m] EXCEPT !.position = p] \in Accounts
    BY <1>7, <2>2 DEF Accounts
  <2>4. o = [[k EXCEPT !.cash = m] EXCEPT !.position = p]
    BY <1>9, <2>1 DEF Accounts
  <2> QED BY <2>3, <2>4
<1>12. CashIs(o)
  <2>1. k.cash = Capital + k.net
    <3>1. k.cash = Capital + k.net - 0 * 0 - 0
      BY FlatIs DEF CashIs
    <3> QED BY <1>8, <3>1, BacktestNumbers
  <2>2. Bound(p) = n /\ Sign(p.side) = sign
    BY <1>1, <1>4, <1>7 DEF Bound
  <2>3. /\ Sign(o.position.side) * Bound(o.position) = out
        /\ Fee(Bound(o.position)) = due
    BY <1>5, <1>6, <1>10, <2>2
  <2>4. CashIs(o) <=> k.cash - out - due = Capital + k.net - out - due
    <3>1. CashIs(o) <=>
            o.cash = Capital + o.net
                       - Sign(o.position.side) * Bound(o.position)
                       - Fee(Bound(o.position))
      BY DEF CashIs
    <3> QED BY <1>10, <2>3, <3>1
  <2>5. k.cash - out - due = Capital + k.net - out - due
    BY <1>5, <1>6, <1>8, <2>1, BacktestNumbers
  <2> QED BY <2>4, <2>5
<1>13. side = "long" => o.cash >= 0
  <2>1. n + due <= k.cash
    BY <1>2, <1>4, <1>5 DEF Affordable
  <2> QED BY <1>4, <1>5, <1>6, <1>8, <1>10, <2>1
<1> QED BY <1>7, <1>10, <1>11, <1>12, <1>13 DEF o

-----------------------------------------------------------------------------
(* The simulation *)

\* An open position is warm, counts the bars since its signal, and is not as
\* old as it may get.
Sound(k, b) ==
  /\ k.longest <= MaxHolding
  /\ k.position.side = "long" => k.cash >= 0
  /\ k.position # Flat =>
       /\ Warm(k.position.since)
       /\ k.position.since \in bars /\ k.position.since <= b
       /\ Age(k.position, b) < MaxHolding

\* When no bar is left there is no position.
SimulationInv ==
  /\ bars \subseteq Bars /\ at \in Int /\ at >= -1
  /\ account \in Accounts /\ CashIs(account) /\ Sound(account, at)
  /\ Remaining = {} => account.position = Flat

LEMMA NewBookIs ==
  ASSUME NEW b
  PROVE  NewBook \in Accounts /\ CashIs(NewBook) /\ NewBook.position = Flat
         /\ Sound(NewBook, b)
<1>1. /\ NewBook.cash = Capital /\ NewBook.position = Flat
      /\ NewBook.net = 0 /\ NewBook.longest = 0
  BY DEF NewBook
<1>2. NewBook \in Accounts
  BY BacktestNumbers DEF NewBook, Accounts
<1>3. CashIs(NewBook)
  <2>1. Capital = Capital + 0 - 0 * 0 - 0
    BY BacktestNumbers
  <2> QED BY <1>1, <2>1, FlatIs DEF CashIs
<1>4. Sound(NewBook, b)
  BY <1>1, FlatIs, BacktestNumbers DEF Sound
<1> QED BY <1>1, <1>2, <1>3, <1>4

\* A simulator that begins.
LEMMA StartIsSound ==
  ASSUME NEW loaded, loaded \subseteq Bars, StartSimulation(loaded)
  PROVE  SimulationInv'
<1>1. /\ bars' = loaded /\ at' = -1 /\ account' = NewBook
      /\ study' = [study EXCEPT !.stage = "simulate"]
  BY DEF StartSimulation
<1>2. PICK k \in Accounts : k = NewBook /\ k.position = Flat /\ CashIs(k)
                            /\ k.longest <= MaxHolding
                            /\ ~(k.position.side = "long")
  BY NewBookIs, FlatIs DEF Sound
<1>3. Sound(account, at)'
  BY <1>1, <1>2 DEF Sound
<1>4. CashIs(account)'
  BY <1>1, <1>2 DEF CashIs
<1> QED BY <1>1, <1>2, <1>3, <1>4 DEF SimulationInv

\* One more bar makes a position one bar older.
LEMMA OneBarOlder ==
  ASSUME SimulationInv, Remaining # {}, account.position # Flat
  PROVE  /\ First(Remaining) \in Bars
         /\ Warm(First(Remaining))
         /\ account.position.since <= First(Remaining)
         /\ Age(account.position, First(Remaining)) =
              Age(account.position, at) + 1
<1> DEFINE b == First(Remaining)
           p == account.position
           S == {c \in bars : p.since < c /\ c <= at}
           T == {c \in bars : p.since < c /\ c <= b}
<1>1. Remaining \in SUBSET Bars /\ Remaining \subseteq bars
  BY DEF Remaining, SimulationInv
<1>2. b \in Remaining /\ \A c \in Remaining : b <= c
  BY <1>1, FirstIs
<1>3. bars \subseteq 0..LastBar /\ LastBar \in Nat /\ at \in Int
  BY BacktestNumbers DEF SimulationInv, Bars
<1>4. p.since \in bars /\ p.since <= at
  BY DEF SimulationInv, Sound
<1>5. b \in bars /\ b > at /\ b \in Int /\ p.since \in Int
  <2>1. p.since \in Int
    <3> HIDE DEF p
    <3>1. p.since \in 0..LastBar
      BY <1>3, <1>4
    <3> QED BY <1>3, <3>1
  <2>2. b \in bars /\ b > at
    <3> HIDE DEF b
    <3> QED BY <1>2 DEF Remaining
  <2>3. b \in Int
    <3> HIDE DEF b
    <3> QED BY <1>3, <2>2
  <2> QED BY <2>1, <2>2, <2>3
<1>6. T = S \cup {b} /\ b \notin S
  <2>1. ASSUME NEW c \in bars, c <= b, c # b PROVE c <= at
    <3>1. c \in Int /\ (c > at => c \in Remaining)
      BY <1>3 DEF Remaining
    <3> QED BY <1>2, <1>3, <1>5, <2>1, <3>1
  <2>2. \A c \in bars : c <= at => c <= b /\ c # b
    BY <1>3, <1>5
  <2>3. p.since < b
    BY <1>3, <1>4, <1>5
  <2> QED BY <1>5, <2>1, <2>2, <2>3
<1>7. IsFiniteSet(S)
  BY <1>3, BarsAreFinite DEF SimulationInv
<1>8. Cardinality(T) = Cardinality(S) + 1
  BY <1>6, <1>7, FS_AddElement
<1>9. Age(p, b) = Age(p, at) + 1
  BY <1>8 DEF Age
<1>10. Warm(b)
  <2>1. {c \in bars : c < p.since} \subseteq {c \in bars : c < b}
    <3> HIDE DEF b, p
    <3>1. ASSUME NEW c \in bars, c < p.since PROVE c < b
      <4>1. c \in Int
        BY <1>3
      <4> QED BY <1>3, <1>4, <1>5, <3>1, <4>1
    <3> QED BY <3>1
  <2>2. {c \in bars : c < b} \in SUBSET Bars
    BY DEF SimulationInv
  <2>3. /\ IsFiniteSet({c \in bars : c < b})
        /\ Cardinality({c \in bars : c < b}) \in Nat
    BY <2>2, BarsAreFinite
  <2>4. Cardinality({c \in bars : c < p.since}) <=
          Cardinality({c \in bars : c < b})
    BY <2>1, <2>3, FS_Subset
  <2>5. Cardinality({c \in bars : c < p.since}) >= Warmup
    BY DEF SimulationInv, Sound, Warm
  <2>6. Cardinality({c \in bars : c < p.since}) \in Nat
    BY <2>1, <2>2, BarsAreFinite
  <2> QED BY <2>3, <2>4, <2>5, <2>6, BacktestNumbers DEF Warm
<1> QED BY <1>1, <1>2, <1>3, <1>4, <1>5, <1>9, <1>10

LEMMA BarIsSound ==
  ASSUME SimulationInv, NEW close \in Quotes, NEW next \in Quotes,
         NEW ranging \in BOOLEAN, NEW atr \in BOOLEAN,
         NEW sides \in SUBSET {"long", "short"},
         SimulateBar(close, ranging, atr, sides, next)
  PROVE  SimulationInv'
<1>1. PICK b : b = First(Remaining)
  OBVIOUS
<1>2. PICK k : k = IF /\ account.position # Flat
                      /\ MustExit(account.position, b, close, ranging, atr)
                   THEN CloseAt(account, b, close) ELSE account
  OBVIOUS
<1>3. /\ Remaining # {} /\ at' = b /\ bars' = bars
      /\ \/ ~Warm(b) /\ account' = account
         \/ /\ Warm(b) /\ Remaining = {b}
            /\ account' = IF k.position = Flat THEN k
                                               ELSE CloseAt(k, b, close)
         \/ /\ Warm(b) /\ Remaining # {b}
            /\ account' \in IF k.position # Flat THEN {k}
                             ELSE AfterSignals(k, b, sides, next, ranging)
  BY <1>1, <1>2 DEF SimulateBar
<1>4. /\ b \in Remaining /\ b \in bars /\ b \in Bars /\ b \in Int /\ b >= -1
      /\ b > at /\ \A c \in Remaining : b <= c
  <2>1. Remaining \in SUBSET Bars
    BY DEF Remaining, SimulationInv
  <2>2. b \in Remaining /\ \A c \in Remaining : b <= c
    BY <1>1, <1>3, <2>1, FirstIs
  <2>3. b \in Bars /\ b \in bars /\ b > at
    BY <2>1, <2>2 DEF Remaining
  <2> QED BY <2>2, <2>3, BacktestNumbers DEF Bars
<1>5. Remaining' = Remaining \ {b}
  <2>1. bars \subseteq 0..LastBar /\ LastBar \in Nat /\ at \in Int
    BY BacktestNumbers DEF SimulationInv, Bars
  <2>2. \A c \in bars : c > b <=> c > at /\ c # b
    BY <1>4, <2>1 DEF Remaining
  <2> QED BY <1>3, <2>2 DEF Remaining
<1>6. account.position # Flat =>
        /\ Warm(b) /\ account.position.since <= b
        /\ Age(account.position, b) = Age(account.position, at) + 1
        /\ Age(account.position, b) <= MaxHolding
  <2> SUFFICES ASSUME account.position # Flat
               PROVE  /\ Warm(b) /\ account.position.since <= b
                      /\ Age(account.position, b) =
                           Age(account.position, at) + 1
                      /\ Age(account.position, b) <= MaxHolding
    OBVIOUS
  <2>1. /\ Warm(b) /\ account.position.since <= b
        /\ Age(account.position, b) = Age(account.position, at) + 1
    BY <1>1, <1>3, OneBarOlder
  <2>2. Age(account.position, at) < MaxHolding
        /\ Age(account.position, at) \in Nat
    BY AgeType DEF SimulationInv, Sound
  <2> QED BY <2>1, <2>2, BacktestNumbers
<1>7. /\ k \in Accounts /\ CashIs(k) /\ k.longest <= MaxHolding
      /\ k.position.side = "long" => k.cash >= 0
      /\ k.position # Flat =>
           k = account /\ Age(k.position, b) < MaxHolding
  <2>1. CASE /\ account.position # Flat
             /\ MustExit(account.position, b, close, ranging, atr)
    <3>1. k = CloseAt(account, b, close)
      BY <1>2, <2>1
    <3>2. /\ k \in Accounts /\ k.position = Flat /\ CashIs(k)
          /\ k.longest <= MaxHolding
      BY <1>4, <1>6, <2>1, <3>1, CloseIs DEF SimulationInv, Sound
    <3> QED BY <3>2, FlatIs
  <2>2. CASE ~ /\ account.position # Flat
               /\ MustExit(account.position, b, close, ranging, atr)
    <3>1. k = account
      BY <1>2, <2>2
    <3>2. account.position # Flat => Age(account.position, b) < MaxHolding
      <4>1. account.position # Flat =>
              ~(Age(account.position, b) >= MaxHolding)
        BY <2>2 DEF MustExit
      <4>2. Age(account.position, b) \in Nat
        BY AgeType DEF SimulationInv
      <4> QED BY <4>1, <4>2, BacktestNumbers
    <3> QED BY <3>1, <3>2 DEF SimulationInv, Sound
  <2> QED BY <2>1, <2>2
<1>8. \E o \in Accounts :
        /\ o = account' /\ CashIs(o) /\ Sound(o, b)
        /\ Remaining = {b} => o.position = Flat
  <2>1. ASSUME ~Warm(b)
        PROVE  \E o \in Accounts :
                 /\ o = account' /\ CashIs(o) /\ Sound(o, b)
                 /\ Remaining = {b} => o.position = Flat
    <3>1. account' = account /\ account.position = Flat
      BY <1>3, <1>6, <2>1
    <3>2. Sound(account, b)
      BY <3>1 DEF SimulationInv, Sound
    <3> QED BY <3>1, <3>2 DEF SimulationInv
  <2>2. ASSUME Warm(b), Remaining = {b}
        PROVE  \E o \in Accounts :
                 /\ o = account' /\ CashIs(o) /\ Sound(o, b)
                 /\ Remaining = {b} => o.position = Flat
    <3>1. account' = IF k.position = Flat THEN k ELSE CloseAt(k, b, close)
      BY <1>3, <2>2
    <3>2. PICK o \in Accounts :
            /\ o = account' /\ CashIs(o) /\ o.position = Flat
            /\ o.longest <= MaxHolding
      <4>1. CASE k.position = Flat
        BY <1>7, <3>1, <4>1
      <4>2. CASE k.position # Flat
        <5>1. Age(k.position, b) <= MaxHolding
          BY <1>6, <1>7, <4>2
        <5>2. /\ CloseAt(k, b, close) \in Accounts
              /\ CloseAt(k, b, close).position = Flat
              /\ CashIs(CloseAt(k, b, close))
              /\ CloseAt(k, b, close).longest <= MaxHolding
          BY <1>4, <1>7, <4>2, <5>1, CloseIs DEF SimulationInv
        <5> QED BY <3>1, <4>2, <5>2
      <4> QED BY <4>1, <4>2
    <3> QED BY <3>2, FlatIs DEF Sound
  <2>3. ASSUME Warm(b), Remaining # {b}, k.position # Flat
        PROVE  \E o \in Accounts :
                 /\ o = account' /\ CashIs(o) /\ Sound(o, b)
                 /\ Remaining = {b} => o.position = Flat
    <3>1. account' = k /\ k = account
      BY <1>3, <1>7, <2>3
    <3>2. Sound(k, b)
      BY <1>6, <1>7, <2>3, <3>1 DEF SimulationInv, Sound
    <3> QED BY <1>7, <2>3, <3>1, <3>2
  <2>4. ASSUME Warm(b), Remaining # {b}, k.position = Flat
        PROVE  \E o \in Accounts :
                 /\ o = account' /\ CashIs(o) /\ Sound(o, b)
                 /\ Remaining = {b} => o.position = Flat
    <3>1. account' \in AfterSignals(k, b, sides, next, ranging)
      BY <1>3, <2>4
    <3>2. CASE account' = k
      BY <1>7, <2>4, <3>2 DEF Sound
    <3>3. CASE account' # k
      <4>1. PICK x \in sides \X Lots \X (Quotes \cup {0}) :
              /\ Affordable(k, x[1], next, x[2])
              /\ account' = OpenAt(k, b, x[1], next, x[2], x[3], ranging)
        BY <3>1, <3>3 DEF AfterSignals
      <4>2. PICK side \in {"long", "short"}, lots \in Lots,
                 target \in Quotes \cup {0} :
              /\ Affordable(k, side, next, lots)
              /\ account' = OpenAt(k, b, side, next, lots, target, ranging)
        BY <4>1
      <4>3. PICK o \in Accounts :
              /\ o = account' /\ CashIs(o) /\ o.position \in Positioned
              /\ o.position.since = b /\ o.longest = k.longest
              /\ o.position.side = "long" => o.cash >= 0
        BY <1>4, <1>7, <2>4, <4>2, OpenIs
      <4>4. Age(o.position, b) = 0
        <5>1. {c \in bars : b < c /\ c <= b} = {}
          <6>1. \A c \in bars : c \in Int
            BY BacktestNumbers DEF SimulationInv, Bars
          <6>2. b \in Int
            BY <1>4, <6>1
          <6>3. \A c \in bars : ~(b < c /\ c <= b)
            BY <6>1, <6>2
          <6> QED BY <6>3
        <5> QED BY <4>3, <5>1, FS_EmptySet DEF Age
      <4>5. Sound(o, b)
        BY <1>4, <1>7, <2>4, <4>3, <4>4, BacktestNumbers DEF Sound
      <4> QED BY <2>4, <4>3, <4>5
    <3> QED BY <3>2, <3>3
  <2> QED BY <2>1, <2>2, <2>3, <2>4
<1>9. PICK o \in Accounts :
        /\ o = account' /\ CashIs(o) /\ Sound(o, b)
        /\ Remaining = {b} => o.position = Flat
  BY <1>8
<1>10. Sound(account, at)'
  BY <1>3, <1>9 DEF Sound, Warm, Age
<1>11. CashIs(account)'
  BY <1>9 DEF CashIs
<1>12. (Remaining = {})' => account'.position = Flat
  BY <1>4, <1>5, <1>9
<1> QED
  BY <1>3, <1>4, <1>9, <1>10, <1>11, <1>12 DEF SimulationInv

-----------------------------------------------------------------------------
(* The bars *)

\* Rows without a hole from the beginning of a window on.
Prefix(S, w) == \A b, c \in w : c \in S /\ b <= c => b \in S

\* Rows that miss at most the ends of a window.
Whole(S, w) == \A b \in w : First(w) < b /\ b < Final(w) => b \in S

\* What the downloads leave in the table: of the first window nothing or all
\* but its last bar, which is the first one of the second window; and of that
\* a prefix.
StoredWhole(S) ==
  /\ Prefix(S, ValidationWindow)
  /\ \A b, c \in 0..(SplitBar - 1) : c \in S => b \in S

LEMMA WindowIs ==
  /\ WindowNow \in BacktestWindows
  /\ \A w \in BacktestWindows : w \subseteq Bars
BY Intervals DEF WindowNow, BacktestWindows

LEMMA LooksWhole ==
  ASSUME StoredWhole(stored), NEW w \in BacktestWindows,
         LooksComplete(stored \cap w, w)
  PROVE  Whole(stored \cap w, w)
<1> DEFINE here == stored \cap w
<1>1. here \in SUBSET Bars /\ here # {}
  BY WindowIs DEF LooksComplete
<1>2. /\ First(here) \in here /\ First(here) <= First(w) + 1
      /\ Final(here) \in here /\ Final(here) >= Final(w) - 1
  BY <1>1, FirstIs, FinalIs DEF LooksComplete
<1> SUFFICES ASSUME NEW b \in w, First(w) < b, b < Final(w)
             PROVE  b \in stored
  BY DEF Whole
<1>3. CASE w = OptimizationWindow
  <2>1. 0 < b /\ b < SplitBar /\ b \in Int
    BY <1>3, Intervals DEF OptimizationWindow
  <2>2. First(here) \in 0..SplitBar /\ First(here) <= 1
    BY <1>2, <1>3, Intervals DEF OptimizationWindow
  <2>3. b \in 0..(SplitBar - 1) /\ First(here) \in 0..(SplitBar - 1)
    BY <2>1, <2>2, BacktestNumbers
  <2> QED BY <1>2, <2>3 DEF StoredWhole
<1>4. CASE w = ValidationWindow
  <2>1. b < LastBar /\ b \in Int
    BY <1>4, Intervals, BacktestNumbers DEF ValidationWindow
  <2>2. Final(here) \in w /\ Final(here) >= LastBar - 1
        /\ Final(here) \in Int
    BY <1>2, <1>4, Intervals, BacktestNumbers DEF ValidationWindow
  <2>3. b <= Final(here)
    BY <2>1, <2>2, BacktestNumbers
  <2> QED BY <1>2, <1>4, <2>2, <2>3 DEF StoredWhole, Prefix
<1> QED BY <1>3, <1>4 DEF BacktestWindows

\* A download that is kept is whole.
LEMMA StoredGrows ==
  ASSUME StoredWhole(stored), NEW w \in BacktestWindows, NEW D \in SUBSET w,
         Prefix(D, w), \A b \in w : b < Final(w) => b \in D
  PROVE  StoredWhole(stored \cup D)
<1>1. CASE w = OptimizationWindow
  <2>1. \A b \in 0..(SplitBar - 1) : b \in D
    BY <1>1, Intervals, BacktestNumbers DEF OptimizationWindow
  <2>2. ASSUME NEW b \in ValidationWindow, NEW c \in ValidationWindow,
               c \in stored \cup D, b <= c
        PROVE  b \in stored \cup D
    <3>1. CASE c \in stored
      BY <2>2, <3>1 DEF StoredWhole, Prefix
    <3>2. CASE c \in D
      <4>1. c \in 0..SplitBar /\ c >= SplitBar /\ b >= SplitBar /\ b \in Int
        BY <1>1, <3>2, BacktestNumbers
           DEF OptimizationWindow, ValidationWindow
      <4>2. b = c
        BY <2>2, <4>1, BacktestNumbers
      <4> QED BY <3>2, <4>2
    <3> QED BY <2>2, <3>1, <3>2
  <2> QED BY <2>1, <2>2 DEF StoredWhole, Prefix
<1>2. CASE w = ValidationWindow
  <2>1. ASSUME NEW b \in 0..(SplitBar - 1), NEW c \in 0..(SplitBar - 1),
               c \in stored \cup D
        PROVE  b \in stored \cup D
    <3>1. c \notin D
      BY <1>2, BacktestNumbers DEF ValidationWindow
    <3> QED BY <2>1, <3>1 DEF StoredWhole
  <2>2. Prefix(stored \cup D, ValidationWindow)
    BY <1>2 DEF StoredWhole, Prefix
  <2> QED BY <2>1, <2>2 DEF StoredWhole
<1> QED BY <1>1, <1>2 DEF BacktestWindows

\* The pages of a download follow each other; the last one reaches the end.
LEMMA PageIs ==
  ASSUME download \subseteq WindowNow, Prefix(download, WindowNow)
  PROVE  /\ download \cup Page \subseteq WindowNow
         /\ Prefix(download \cup Page, WindowNow)
         /\ LastPage => \A b \in WindowNow :
                          b < Final(WindowNow) => b \in download \cup Page
<1> DEFINE ahead == {b \in WindowNow : \A c \in download : b > c}
           before(b) == {c \in ahead : c < b}
<1>1. WindowNow \subseteq Bars /\ Bars \subseteq Nat
  BY WindowIs DEF Bars
<1>2. Page = {b \in ahead : Cardinality(before(b)) < PageSize}
  BY DEF Page
<1>3. \A b \in WindowNow : b \in download \/ b \in ahead
  <2> SUFFICES ASSUME NEW b \in WindowNow, b \notin ahead PROVE b \in download
    OBVIOUS
  <2>1. PICK c \in download : ~(b > c)
    OBVIOUS
  <2>2. b <= c
    BY <1>1, <2>1
  <2> QED BY <2>1, <2>2 DEF Prefix
<1>4. \A S \in SUBSET ahead : IsFiniteSet(S) /\ Cardinality(S) \in Nat
  BY <1>1, BarsAreFinite
<1>5. \A b \in ahead : before(b) \in SUBSET ahead /\ b \in Nat
  BY <1>1
<1>6. ahead \in SUBSET Nat /\ ahead \subseteq WindowNow
  BY <1>1
<1>7. download \cup Page \subseteq WindowNow
  BY <1>2, <1>6
<1>8. Prefix(download \cup Page, WindowNow)
  <2> SUFFICES ASSUME NEW b \in WindowNow, NEW c \in WindowNow,
                      c \in download \cup Page, b <= c
               PROVE  b \in download \cup Page
    BY DEF Prefix
  <2>1. CASE c \in download
    BY <2>1 DEF Prefix
  <2>2. CASE c \in Page /\ b \in ahead
    <3>1. c \in ahead /\ Cardinality(before(c)) < PageSize
      BY <1>2, <2>2
    <3>2. before(b) \subseteq before(c)
      <4>1. \A x \in ahead : x < b => x < c
        BY <1>5, <2>2, <3>1
      <4> QED BY <4>1
    <3>3. /\ IsFiniteSet(before(c)) /\ Cardinality(before(c)) \in Nat
          /\ Cardinality(before(b)) \in Nat
      BY <1>4, <1>5, <2>2, <3>1
    <3>4. Cardinality(before(b)) <= Cardinality(before(c))
      BY <3>2, <3>3, FS_Subset
    <3>5. Cardinality(before(b)) < PageSize
      BY <3>1, <3>3, <3>4, BacktestNumbers
    <3> QED BY <1>2, <2>2, <3>5
  <2> QED BY <1>3, <2>1, <2>2
<1>9. ASSUME Cardinality(Page) < PageSize PROVE ahead \subseteq Page
  <2> SUFFICES ASSUME ahead \ Page # {} PROVE FALSE
    OBVIOUS
  <2>1. ahead \ Page \in SUBSET Nat
    BY <1>6
  <2>2. PICK b \in ahead \ Page : \A c \in ahead \ Page : b <= c
    BY <2>1, LeastNatural
  <2>3. before(b) \subseteq Page
    <3>1. \A c \in ahead : c < b => ~(b <= c)
      BY <1>5, <2>2
    <3> QED BY <2>2, <3>1
  <2>4. Page \in SUBSET ahead
    BY <1>2
  <2>5. IsFiniteSet(Page) /\ Cardinality(Page) \in Nat
    BY <1>4, <2>4
  <2>6. Cardinality(before(b)) <= Cardinality(Page)
    BY <2>3, <2>5, FS_Subset
  <2>7. ~(Cardinality(before(b)) < PageSize)
    BY <1>2, <2>2
  <2>8. Cardinality(before(b)) \in Nat
    BY <1>4, <1>5, <2>2
  <2> QED BY <1>9, <2>5, <2>6, <2>7, <2>8, BacktestNumbers
<1>10. ASSUME LastPage, NEW b \in WindowNow, b < Final(WindowNow)
       PROVE  b \in download \cup Page
  <2>1. CASE Cardinality(Page) < PageSize
    BY <1>3, <1>9, <2>1
  <2>2. CASE ~(Cardinality(Page) < PageSize)
    <3>1. Final(Page) + 1 >= Final(WindowNow)
      BY <1>10, <2>2 DEF LastPage
    <3>2. Page # {} /\ Page \in SUBSET Bars
      <4>1. Cardinality({}) < PageSize
        BY BacktestNumbers, FS_EmptySet
      <4> QED BY <1>1, <1>7, <2>2, <4>1
    <3>3. Final(Page) \in Page
      BY <3>2, FinalIs
    <3>4. b \in Nat /\ Final(Page) \in Nat /\ Final(WindowNow) \in Nat
      <4>1. Final(WindowNow) \in {SplitBar, LastBar}
        BY Intervals DEF WindowNow
      <4> QED BY <1>1, <1>7, <3>3, <4>1, BacktestNumbers
    <3>5. b <= Final(Page)
      BY <1>10, <3>1, <3>4
    <3>6. Final(Page) \in WindowNow /\ Final(Page) \in download \cup Page
      BY <1>7, <3>3
    <3> HIDE DEF ahead
    <3> QED BY <1>8, <3>5, <3>6 DEF Prefix
  <2> QED BY <2>1, <2>2
<1> QED BY <1>7, <1>8, <1>10

-----------------------------------------------------------------------------
(* Optimization and verdict *)

StudyRecords ==
  [stage : {"idle", "load", "download", "simulate"},
   left : SUBSET ParameterSets, using : ParameterSets \cup {NoSet},
   scores : [ParameterSets -> Nat],
   verdict : {"none", "GO", "CONDITIONAL", "NO-GO"},
   walked : {"no", "consistent", "inconsistent"}]

\* What is validated was chosen among all candidates.
Chosen ==
  study.stage # "idle" /\ ~Trying /\ study.using # NoSet =>
    study.using \in Winners(study.scores)

VerdictIs ==
  /\ study.stage # "idle" => study.verdict = "none"
  /\ study.verdict = "GO" =>
       /\ study.walked = "consistent" /\ account.trades >= GoTrades
       /\ study.using # NoSet => study.using \in Winners(study.scores)

StudyInv ==
  /\ study \in StudyRecords /\ Chosen /\ VerdictIs
  /\ study.stage # "simulate" => account.position = Flat

LoadInv ==
  /\ stored \subseteq Bars /\ download \subseteq Bars /\ fed \in BOOLEAN
  /\ memo = [w \in BacktestWindows |-> memo[w]]
  /\ \A w \in BacktestWindows : memo[w] = NotLoaded \/ memo[w] \subseteq w
  /\ study.stage = "download" =>
       download \subseteq WindowNow /\ Prefix(download, WindowNow)
  /\ study.stage = "simulate" => bars \subseteq WindowNow

WholeInv == ~fed =>
  /\ StoredWhole(stored)
  /\ \A w \in BacktestWindows : memo[w] # NotLoaded => Whole(memo[w], w)
  /\ study.stage = "simulate" => Whole(bars, WindowNow)

BacktestInv == SimulationInv /\ LoadInv /\ WholeInv /\ StudyInv

LEMMA InitBacktest == BacktestInit => BacktestInv
<1> SUFFICES ASSUME BacktestInit PROVE BacktestInv
  OBVIOUS
<1>1. /\ study = NewStudy /\ stored = {} /\ download = {} /\ bars = {}
      /\ memo = [w \in BacktestWindows |-> NotLoaded]
      /\ at = -1 /\ account = NewBook /\ fed = FALSE
  BY DEF BacktestInit
<1>2. SimulationInv
  BY <1>1, NewBookIs DEF SimulationInv
<1>3. study \in StudyRecords /\ study.stage = "idle" /\ study.verdict = "none"
  BY <1>1 DEF NewStudy, StudyRecords
<1>4. StudyInv
  BY <1>1, <1>3, NewBookIs DEF StudyInv, Chosen, VerdictIs
<1>5. LoadInv
  BY <1>1, <1>3 DEF LoadInv
<1>6. WholeInv
  BY <1>1, <1>3 DEF WholeInv, StoredWhole, Prefix
<1> QED BY <1>2, <1>4, <1>5, <1>6 DEF BacktestInv

\* A stage follows another, and nothing else of the study changes.
LEMMA StageIs ==
  ASSUME study \in StudyRecords,
         NEW s \in {"idle", "load", "download", "simulate"},
         study' = [study EXCEPT !.stage = s]
  PROVE  /\ study' \in StudyRecords /\ study'.stage = s
         /\ study'.left = study.left /\ study'.using = study.using
         /\ study'.scores = study.scores /\ study'.verdict = study.verdict
         /\ study'.walked = study.walked
         /\ Trying' = Trying /\ WindowNow' = WindowNow
<1>1. /\ study' \in StudyRecords /\ study'.stage = s
      /\ study'.left = study.left /\ study'.using = study.using
      /\ study'.scores = study.scores /\ study'.verdict = study.verdict
      /\ study'.walked = study.walked
  BY DEF StudyRecords
<1> QED BY <1>1 DEF Trying, WindowNow

\* A simulator begins on bars of its window.
LEMMA StartStep ==
  ASSUME BacktestInv, NEW loaded \in SUBSET WindowNow,
         ~fed => Whole(loaded, WindowNow),
         study.stage \in {"load", "download"}, StartSimulation(loaded),
         stored' \subseteq Bars, download' \subseteq Bars, fed' = fed,
         memo' = [memo EXCEPT ![WindowNow] = loaded],
         ~fed => StoredWhole(stored)'
  PROVE  BacktestInv'
<1> USE DEF BacktestInv
<1>1. loaded \subseteq Bars
  BY WindowIs
<1>2. SimulationInv'
  BY <1>1, StartIsSound
<1>3. /\ bars' = loaded /\ account' = NewBook
      /\ study' = [study EXCEPT !.stage = "simulate"]
  BY DEF StartSimulation
<1>4. /\ study' \in StudyRecords /\ study'.stage = "simulate"
      /\ study'.left = study.left /\ study'.using = study.using
      /\ study'.scores = study.scores /\ study'.verdict = study.verdict
      /\ Trying' = Trying /\ WindowNow' = WindowNow
  BY <1>3, StageIs DEF StudyInv
<1>5. StudyInv'
  <2>1. study.verdict = "none"
    BY DEF StudyInv, VerdictIs
  <2>2. Chosen'
    BY <1>4 DEF StudyInv, Chosen, Winners, Qualified
  <2> QED BY <1>4, <2>1, <2>2 DEF StudyInv, VerdictIs
<1>6. \A w \in BacktestWindows :
        memo'[w] = IF w = WindowNow THEN loaded ELSE memo[w]
  BY WindowIs DEF LoadInv
<1>7. memo' = [w \in BacktestWindows |-> memo'[w]]
  BY DEF LoadInv
<1>8. LoadInv'
  BY <1>3, <1>4, <1>6, <1>7 DEF LoadInv
<1>9. WholeInv'
  <2>1. Whole(loaded, WindowNow)' <=> Whole(loaded, WindowNow)
    BY <1>4 DEF Whole
  <2>2. ~fed => Whole(bars, WindowNow)'
    BY <1>3, <1>4 DEF Whole
  <2>3. ~fed => \A w \in BacktestWindows :
                  memo'[w] # NotLoaded => Whole(memo'[w], w)
    BY <1>6 DEF WholeInv
  <2> QED BY <2>2, <2>3 DEF WholeInv, Whole
<1> QED BY <1>2, <1>5, <1>8, <1>9

LEMMA LoadStep == ASSUME BacktestInv, LoadBars PROVE BacktestInv'
<1> USE DEF BacktestInv
<1>1. study.stage = "load" /\ UNCHANGED <<stored, fed>>
  BY DEF LoadBars
<1>2. WindowNow \in BacktestWindows /\ WindowNow \subseteq Bars
  BY WindowIs
<1>3. StoredWhole(stored)' <=> StoredWhole(stored)
  BY <1>1 DEF StoredWhole, Prefix
<1>4. CASE /\ memo[WindowNow] # NotLoaded
           /\ StartSimulation(memo[WindowNow])
           /\ UNCHANGED <<memo, download, backtestFaults>>
  <2>1. memo[WindowNow] \in SUBSET WindowNow
    BY <1>2, <1>4 DEF LoadInv
  <2>2. ~fed => Whole(memo[WindowNow], WindowNow)
    BY <1>2, <1>4 DEF WholeInv
  <2>3. memo' = [memo EXCEPT ![WindowNow] = memo[WindowNow]]
    BY <1>4 DEF LoadInv
  <2>4. /\ stored' \subseteq Bars /\ download' \subseteq Bars /\ fed' = fed
        /\ ~fed => StoredWhole(stored)'
    BY <1>1, <1>3, <1>4 DEF LoadInv, WholeInv
  <2> QED BY <1>1, <1>4, <2>1, <2>2, <2>3, <2>4, StartStep
<1>5. CASE /\ memo[WindowNow] = NotLoaded
           /\ LooksComplete(stored \cap WindowNow, WindowNow)
           /\ StartSimulation(stored \cap WindowNow)
           /\ memo' = [memo EXCEPT ![WindowNow] = stored \cap WindowNow]
           /\ UNCHANGED <<download, backtestFaults>>
  <2>1. stored \cap WindowNow \in SUBSET WindowNow
    OBVIOUS
  <2>2. ~fed => Whole(stored \cap WindowNow, WindowNow)
    BY <1>2, <1>5, LooksWhole DEF WholeInv
  <2>3. /\ stored' \subseteq Bars /\ download' \subseteq Bars /\ fed' = fed
        /\ ~fed => StoredWhole(stored)'
    BY <1>1, <1>3, <1>5 DEF LoadInv, WholeInv
  <2> QED BY <1>1, <1>5, <2>1, <2>2, <2>3, StartStep
<1>6. CASE /\ study' = [study EXCEPT !.stage = "download"]
           /\ download' = {}
           /\ UNCHANGED <<memo, simulation>>
  <2>1. /\ study' \in StudyRecords /\ study'.stage = "download"
        /\ study'.left = study.left /\ study'.using = study.using
        /\ study'.scores = study.scores /\ study'.verdict = study.verdict
        /\ Trying' = Trying /\ WindowNow' = WindowNow
    BY <1>6, StageIs DEF StudyInv
  <2>2. bars' = bars /\ at' = at /\ account' = account
    BY <1>6 DEF simulation
  <2>3. SimulationInv'
    BY <2>2 DEF SimulationInv, CashIs, Sound, Warm, Age, Remaining
  <2>4. study.verdict = "none" /\ account.position = Flat
    BY <1>1 DEF StudyInv, VerdictIs
  <2>5. Chosen'
    BY <1>1, <2>1 DEF StudyInv, Chosen, Winners, Qualified
  <2>6. StudyInv'
    BY <2>1, <2>2, <2>4, <2>5 DEF StudyInv, VerdictIs
  <2>7. LoadInv'
    BY <1>1, <1>6, <2>1 DEF LoadInv, Prefix
  <2>8. WholeInv'
    BY <1>1, <1>3, <1>6, <2>1 DEF WholeInv, Whole
  <2> QED BY <2>3, <2>6, <2>7, <2>8
<1> QED BY <1>4, <1>5, <1>6 DEF LoadBars

LEMMA FetchStep == ASSUME BacktestInv, FetchPage PROVE BacktestInv'
<1> USE DEF BacktestInv
<1>1. /\ study.stage = "download" /\ download' = download \cup Page
      /\ fed' = fed
  BY DEF FetchPage
<1>2. WindowNow \in BacktestWindows /\ WindowNow \subseteq Bars
  BY WindowIs
<1>3. /\ download' \subseteq WindowNow /\ Prefix(download', WindowNow)
      /\ LastPage => \A b \in WindowNow :
                       b < Final(WindowNow) => b \in download'
  <2>1. download \subseteq WindowNow /\ Prefix(download, WindowNow)
    BY <1>1 DEF LoadInv
  <2> QED BY <1>1, <2>1, PageIs
<1>4. CASE LastPage
  <2>1. /\ memo' = [memo EXCEPT ![WindowNow] = download']
        /\ StartSimulation(download') /\ Persist(download')
    BY <1>4 DEF FetchPage
  <2>2. PICK D \in SUBSET WindowNow :
          D = download' /\ Prefix(D, WindowNow)
          /\ \A b \in WindowNow : b < Final(WindowNow) => b \in D
    BY <1>3, <1>4
  <2>3. Whole(D, WindowNow)
    BY <2>2 DEF Whole
  <2>4. stored' = stored \/ stored' = stored \cup D
    BY <2>1, <2>2 DEF Persist
  <2>5. PICK S : S = stored'
    OBVIOUS
  <2>6. ~fed => StoredWhole(S)
    BY <1>2, <2>2, <2>4, <2>5, StoredGrows DEF WholeInv
  <2>7. ~fed => StoredWhole(stored)'
    BY <2>5, <2>6 DEF StoredWhole, Prefix
  <2>8. stored' \subseteq Bars /\ download' \subseteq Bars
    BY <1>2, <2>2, <2>4 DEF LoadInv
  <2> QED BY <1>1, <2>1, <2>2, <2>3, <2>7, <2>8, StartStep
<1>5. CASE ~LastPage
  <2>1. UNCHANGED <<study, memo, stored, simulation>>
    BY <1>5 DEF FetchPage
  <2>2. bars' = bars /\ at' = at /\ account' = account
    BY <2>1 DEF simulation
  <2>3. SimulationInv'
    BY <2>2 DEF SimulationInv, CashIs, Sound, Warm, Age, Remaining
  <2>4. Trying' = Trying /\ WindowNow' = WindowNow
    BY <2>1 DEF Trying, WindowNow
  <2>5. StudyInv'
    BY <2>1, <2>2, <2>4
       DEF StudyInv, Chosen, VerdictIs, Winners, Qualified
  <2>6. LoadInv'
    BY <1>1, <1>2, <1>3, <2>1, <2>2, <2>4 DEF LoadInv, Prefix
  <2>7. WholeInv'
    BY <1>1, <2>1, <2>2, <2>4 DEF WholeInv, Whole, StoredWhole, Prefix
  <2> QED BY <2>3, <2>5, <2>6, <2>7
<1> QED BY <1>4, <1>5

\* What is loaded and simulated stands when only the study goes on.
LEMMA StudyGoesOn ==
  ASSUME BacktestInv, account.position = Flat,
         UNCHANGED <<stored, memo, download, simulation, fed>>,
         study' \in StudyRecords, study'.stage \in {"idle", "load"},
         Chosen', VerdictIs'
  PROVE  BacktestInv'
<1> USE DEF BacktestInv
<1>1. /\ bars' = bars /\ at' = at /\ account' = account
      /\ stored' = stored /\ memo' = memo /\ download' = download
      /\ fed' = fed
  BY DEF simulation
<1>2. study'.stage # "simulate" /\ study'.stage # "download"
  OBVIOUS
<1>3. SimulationInv'
  BY <1>1 DEF SimulationInv, CashIs, Sound, Warm, Age, Remaining
<1>4. LoadInv'
  BY <1>1, <1>2 DEF LoadInv
<1>5. WholeInv'
  BY <1>1, <1>2 DEF WholeInv, StoredWhole, Prefix, Whole
<1>6. StudyInv'
  BY <1>1, <1>2 DEF StudyInv
<1> QED BY <1>3, <1>4, <1>5, <1>6

\* The winner is chosen when no candidate is left.
LEMMA TrialEnds ==
  ASSUME BacktestInv, study.stage # "idle", Trying, account.position = Flat,
         NEW score \in Nat, EndTrialWith(score),
         UNCHANGED <<stored, memo, download, simulation, fed>>
  PROVE  BacktestInv'
<1>1. PICK scores : scores = [study.scores EXCEPT ![study.using] = score]
  OBVIOUS
<1>2. PICK left : left = study.left \ {study.using}
  OBVIOUS
<1>3. scores \in [ParameterSets -> Nat] /\ left \subseteq ParameterSets
  BY <1>1, <1>2 DEF BacktestInv, StudyInv, StudyRecords
<1>4. PICK p \in IF left # {} THEN left
                 ELSE IF Winners(scores) # {} THEN Winners(scores)
                 ELSE {NoSet} :
        study' = [study EXCEPT !.stage = "load", !.left = left, !.using = p,
                               !.scores = scores]
  BY <1>1, <1>2 DEF EndTrialWith
<1>5. /\ p \in ParameterSets \cup {NoSet}
      /\ p \in left \/ p \in Winners(scores) \/ p = NoSet
  BY <1>3, <1>4 DEF Winners, Qualified
<1>6. study \in StudyRecords /\ study.verdict = "none"
  BY DEF BacktestInv, StudyInv, VerdictIs
<1>7. /\ study' \in StudyRecords /\ study'.stage = "load"
      /\ study'.left = left /\ study'.using = p /\ study'.scores = scores
      /\ study'.verdict = "none"
  BY <1>3, <1>4, <1>5, <1>6 DEF StudyRecords
<1>8. Chosen'
  BY <1>5, <1>7 DEF Chosen, Trying, Winners, Qualified
<1>9. VerdictIs'
  BY <1>7 DEF VerdictIs
<1> QED BY <1>7, <1>8, <1>9, StudyGoesOn

LEMMA FeedStep ==
  ASSUME BacktestInv, NEW b \in Bars, FeedWrites(b)
  PROVE  BacktestInv'
<1> USE DEF BacktestInv
<1>1. /\ fed' /\ fed' \in BOOLEAN
  BY DEF FeedWrites
<1>2. /\ stored' = stored \cup {b} /\ study' = study /\ memo' = memo
      /\ download' = download /\ bars' = bars /\ at' = at
      /\ account' = account
  BY DEF FeedWrites, simulation
<1>3. Trying' = Trying /\ WindowNow' = WindowNow
  BY <1>2 DEF Trying, WindowNow
<1>4. SimulationInv'
  BY <1>2 DEF SimulationInv, CashIs, Sound, Warm, Age, Remaining
<1>5. StudyInv'
  BY <1>2, <1>3 DEF StudyInv, Chosen, VerdictIs, Winners, Qualified
<1>6. LoadInv'
  BY <1>1, <1>2, <1>3 DEF LoadInv, Prefix
<1>7. WholeInv'
  BY <1>1 DEF WholeInv
<1> QED BY <1>4, <1>5, <1>6, <1>7

LEMMA BarStep ==
  ASSUME BacktestInv, NEW close \in Quotes, NEW next \in Quotes,
         NEW ranging \in BOOLEAN, NEW atr \in BOOLEAN,
         NEW sides \in {Sides(says) : says \in SUBSET Directions},
         SimulateBar(close, ranging, atr, sides, next)
  PROVE  BacktestInv'
<1> USE DEF BacktestInv
<1>1. sides \in SUBSET {"long", "short"}
  BY DEF Sides
<1>2. SimulationInv'
  BY <1>1, BarIsSound
<1>3. /\ study.stage = "simulate" /\ study' = study /\ memo' = memo
      /\ download' = download /\ bars' = bars /\ stored' = stored
      /\ fed' = fed
  BY DEF SimulateBar
<1>4. Trying' = Trying /\ WindowNow' = WindowNow
  BY <1>3 DEF Trying, WindowNow
<1>5. StudyInv'
  <2>1. study.verdict = "none"
    BY <1>3 DEF StudyInv, VerdictIs
  <2> QED
    BY <1>3, <1>4, <2>1 DEF StudyInv, Chosen, VerdictIs, Winners, Qualified
<1>6. LoadInv'
  BY <1>3, <1>4 DEF LoadInv, Prefix
<1>7. WholeInv'
  BY <1>3, <1>4 DEF WholeInv, StoredWhole, Prefix, Whole
<1> QED BY <1>2, <1>5, <1>6, <1>7

LEMMA BeginStep == ASSUME BacktestInv, BeginStudy PROVE BacktestInv'
<1>1. PICK left \in {{}, ParameterSets} :
        \E p \in (IF left = {} THEN {NoSet} ELSE left) :
          study' = [NewStudy EXCEPT !.stage = "load", !.left = left,
                                    !.using = p]
  BY DEF BeginStudy
<1>2. PICK p \in (IF left = {} THEN {NoSet} ELSE left) :
        study' = [NewStudy EXCEPT !.stage = "load", !.left = left,
                                  !.using = p]
  BY <1>1
<1>3. p \in ParameterSets \cup {NoSet} /\ left \in SUBSET ParameterSets
  BY <1>2
<1>4. /\ study' \in StudyRecords /\ study'.stage = "load"
      /\ study'.left = left /\ study'.using = p /\ study'.verdict = "none"
  <2>1. NewStudy \in StudyRecords /\ NewStudy.verdict = "none"
    BY DEF NewStudy, StudyRecords
  <2>2. PICK s \in StudyRecords : s = NewStudy /\ s.verdict = "none"
    BY <2>1
  <2> QED BY <1>2, <1>3, <2>2 DEF StudyRecords
<1>5. Chosen'
  BY <1>2, <1>4 DEF Chosen, Trying
<1>6. VerdictIs'
  BY <1>4 DEF VerdictIs
<1>7. account.position = Flat
  BY DEF BeginStudy, BacktestInv, StudyInv
<1> QED BY <1>4, <1>5, <1>6, <1>7, StudyGoesOn DEF BeginStudy

LEMMA JudgeStep ==
  ASSUME BacktestInv, NEW a \in Analyses, Judge(a)
  PROVE  BacktestInv'
<1>1. PICK walked \in {"no", "consistent", "inconsistent"} :
        walked = IF ~Walks(account.trades) THEN "no"
                 ELSE IF a.consistent THEN "consistent" ELSE "inconsistent"
  OBVIOUS
<1>2. PICK verdict \in {"none", "GO", "CONDITIONAL", "NO-GO"} :
        verdict = IF bars = {} THEN "NO-GO" ELSE Decision(account.trades, a)
  BY DEF Decision
<1>3. study' = [study EXCEPT !.stage = "idle", !.walked = walked,
                             !.verdict = verdict]
  BY <1>1, <1>2 DEF Judge
<1>4. study \in StudyRecords
  BY DEF BacktestInv, StudyInv
<1>5. /\ study' \in StudyRecords /\ study'.stage = "idle"
      /\ study'.using = study.using /\ study'.scores = study.scores
      /\ study'.verdict = verdict /\ study'.walked = walked
  BY <1>3, <1>4 DEF StudyRecords
<1>6. account.position = Flat
  BY DEF Judge, Simulated, BacktestInv, SimulationInv
<1>7. account' = account
  BY DEF Judge, simulation
<1>8. ASSUME verdict = "GO"
      PROVE  account.trades >= GoTrades /\ walked = "consistent"
  <2>1. Objections(account.trades, a) = {}
    BY <1>2, <1>8 DEF Decision
  <2>2. ~(account.trades < GoTrades)
    BY <2>1 DEF Objections, FailedGates
  <2>3. account.trades \in Nat
    BY DEF BacktestInv, SimulationInv, Accounts
  <2>4. account.trades >= GoTrades /\ Walks(account.trades)
    BY <2>2, <2>3, BacktestNumbers DEF Walks
  <2>5. ~(Walks(account.trades) /\ ~a.consistent)
    BY <2>1 DEF Objections
  <2> QED BY <1>1, <2>4, <2>5
<1>9. study.using # NoSet => study.using \in Winners(study.scores)
  BY DEF Judge, Simulated, BacktestInv, StudyInv, Chosen
<1>10. VerdictIs'
  BY <1>5, <1>7, <1>8, <1>9 DEF VerdictIs, Winners, Qualified
<1>11. Chosen'
  BY <1>5 DEF Chosen
<1> QED BY <1>5, <1>6, <1>10, <1>11, StudyGoesOn DEF Judge

LEMMA RestartStep == ASSUME BacktestInv, RestartBacktest PROVE BacktestInv'
<1> USE DEF BacktestInv
<1>1. /\ study' = NewStudy /\ stored' = stored /\ fed' = fed
      /\ memo' = [w \in BacktestWindows |-> NotLoaded]
      /\ download' = {} /\ bars' = {} /\ at' = -1 /\ account' = NewBook
  BY DEF RestartBacktest
<1>2. PICK k \in Accounts : k = NewBook /\ k.position = Flat /\ CashIs(k)
                            /\ k.longest <= MaxHolding
                            /\ ~(k.position.side = "long")
  BY NewBookIs, FlatIs DEF Sound
<1>3. SimulationInv'
  <2>1. Sound(account, at)'
    BY <1>1, <1>2 DEF Sound
  <2>2. CashIs(account)'
    BY <1>1, <1>2 DEF CashIs
  <2> QED BY <1>1, <1>2, <2>1, <2>2 DEF SimulationInv
<1>4. /\ study' \in StudyRecords /\ study'.stage = "idle"
      /\ study'.verdict = "none"
  BY <1>1 DEF NewStudy, StudyRecords
<1>5. StudyInv'
  BY <1>1, <1>2, <1>4 DEF StudyInv, Chosen, VerdictIs
<1>6. LoadInv'
  BY <1>1, <1>4 DEF LoadInv
<1>7. WholeInv'
  BY <1>1, <1>4 DEF WholeInv, StoredWhole, Prefix
<1> QED BY <1>3, <1>5, <1>6, <1>7

LEMMA NextBacktest ==
  BacktestInv /\ [BacktestNext]_backtestVars => BacktestInv'
<1> SUFFICES ASSUME BacktestInv, [BacktestNext]_backtestVars
             PROVE  BacktestInv'
  OBVIOUS
<1>1. CASE LoadBars
  BY <1>1, LoadStep
<1>2. CASE FetchPage
  BY <1>2, FetchStep
<1>3. CASE \E b \in Bars : FeedWrites(b)
  BY <1>3, FeedStep
<1>4. CASE \E close, next \in Quotes, ranging, atr \in BOOLEAN,
              sides \in {Sides(says) : says \in SUBSET Directions} :
                SimulateBar(close, ranging, atr, sides, next)
  BY <1>4, BarStep
<1>5. CASE BeginStudy
  BY <1>5, BeginStep
<1>6. CASE \E sharpe \in 1..2 : EndOfTrial(sharpe)
  <2>1. PICK sharpe \in 1..2 : EndOfTrial(sharpe)
    BY <1>6
  <2>2. PICK score \in Nat :
          score = IF account.trades >= EnoughTrades THEN sharpe ELSE 0
    OBVIOUS
  <2>3. EndTrialWith(score) /\ Trying /\ study.stage # "idle"
        /\ UNCHANGED <<stored, memo, download, simulation, fed>>
    BY <2>1, <2>2 DEF EndOfTrial, Simulated
  <2>4. account.position = Flat
    BY <2>1 DEF EndOfTrial, Simulated, BacktestInv, SimulationInv
  <2> QED BY <2>3, <2>4, TrialEnds
<1>7. CASE BacktestRaises
  <2>1. /\ study.stage # "idle" /\ account.position = Flat
        /\ UNCHANGED <<stored, memo, download, simulation, fed>>
    BY <1>7 DEF BacktestRaises, BacktestInv, StudyInv
  <2>2. CASE Trying
    <3>1. EndTrialWith(0) /\ 0 \in Nat
      BY <1>7, <2>2 DEF BacktestRaises
    <3> QED BY <2>1, <2>2, <3>1, TrialEnds
  <2>3. CASE ~Trying
    <3>1. study' = NewStudy
      BY <1>7, <2>3 DEF BacktestRaises
    <3>2. /\ study' \in StudyRecords /\ study'.stage = "idle"
          /\ study'.verdict = "none"
      BY <3>1 DEF NewStudy, StudyRecords
    <3>3. Chosen' /\ VerdictIs'
      BY <3>2 DEF Chosen, VerdictIs
    <3> QED BY <2>1, <3>2, <3>3, StudyGoesOn
  <2> QED BY <2>2, <2>3
<1>8. CASE \E a \in Analyses : Judge(a)
  BY <1>8, JudgeStep
<1>9. CASE RestartBacktest
  BY <1>9, RestartStep
<1>10. CASE UNCHANGED backtestVars
  <2>1. /\ study' = study /\ stored' = stored /\ memo' = memo
        /\ download' = download /\ bars' = bars /\ at' = at
        /\ account' = account /\ fed' = fed
    BY <1>10 DEF backtestVars, simulation
  <2>2. Trying' = Trying /\ WindowNow' = WindowNow
    BY <2>1 DEF Trying, WindowNow
  <2>3. SimulationInv'
    BY <2>1 DEF BacktestInv, SimulationInv, CashIs, Sound, Warm, Age, Remaining
  <2>4. LoadInv'
    BY <2>1, <2>2 DEF BacktestInv, LoadInv, Prefix
  <2>5. WholeInv'
    BY <2>1, <2>2 DEF BacktestInv, WholeInv, StoredWhole, Prefix, Whole
  <2>6. StudyInv'
    BY <2>1, <2>2
       DEF BacktestInv, StudyInv, Chosen, VerdictIs, Winners, Qualified
  <2> QED BY <2>3, <2>4, <2>5, <2>6 DEF BacktestInv
<1> QED
  BY <1>1, <1>2, <1>3, <1>4, <1>5, <1>6, <1>7, <1>8, <1>9, <1>10
     DEF BacktestNext

LEMMA BacktestMeansContract == BacktestInv => BacktestContract
<1> SUFFICES ASSUME BacktestInv PROVE BacktestContract
  OBVIOUS
<1> USE DEF BacktestInv
<1>1. BacktestTypeOK
  BY DEF BacktestTypeOK, SimulationInv, LoadInv, StudyInv, StudyRecords,
         Accounts
<1>2. CashMatchesTrades
  BY DEF CashMatchesTrades, SimulationInv, CashIs, Bound
<1>3. TradesAreBounded
  BY DEF TradesAreBounded, SimulationInv, Sound
<1>4. WindowIsWhole
  BY DEF WindowIsWhole, WholeInv, Whole
<1>5. NoHindsight
  <2> SUFFICES ASSUME ~Trying, account.position # Flat
               PROVE  account.position.since > SplitBar
    BY DEF NoHindsight
  <2>1. bars \subseteq ValidationWindow
    BY DEF StudyInv, LoadInv, WindowNow
  <2>2. Warm(account.position.since) /\ account.position.since \in bars
    BY DEF SimulationInv, Sound
  <2>3. {c \in bars : c < account.position.since} # {}
    BY <2>2, FS_EmptySet, BacktestNumbers DEF Warm
  <2>4. PICK c \in bars : c < account.position.since
    BY <2>3
  <2> QED BY <2>1, <2>2, <2>4, BacktestNumbers DEF ValidationWindow
<1>6. GoIsProven
  BY DEF GoIsProven, StudyInv, VerdictIs
<1> QED
  BY <1>1, <1>2, <1>3, <1>4, <1>5, <1>6 DEF BacktestContract

(* Over every length of a history and every size of a page and a warm-up: a
   backtest's cash is where its trades put it, no trade outlasts its limit or
   spends what is not there, a backtest whose table no live feed wrote to runs
   over its whole window, a validation trades on no bar of the optimization,
   and a GO has trades enough, a consistent walk-forward and the best
   candidate behind it (data_loader.py, simulator.py, parameter_optimizer.py,
   engine.py). *)
THEOREM BacktestIsHonest == DecisionsSpec => []BacktestContract
<1>1. DecisionsInit => BacktestInv
  BY InitBacktest DEF DecisionsInit
<1>2. BacktestInv /\ [DecisionsNext]_decisionsVars => BacktestInv'
  BY NextBacktest, PartsStep
<1> QED
  BY <1>1, <1>2, BacktestMeansContract, PTL DEF DecisionsSpec

-----------------------------------------------------------------------------
(* Placing at Pionex *)

LEMMA PionexNumbers ==
  /\ PerMarket \in Nat /\ Size \in Nat /\ Size > 0 /\ Placements \in Nat
  /\ OpenLimit \in Nat /\ PionexFaults \in Nat
BY PionexConstants DEF PionexConstants

Told ==
  [status : {"none", "SUBMITTED", "PARTIALLY_FILLED", "FILLED", "CANCELLED"},
   filled : 0..Size]

\* An open order has something left to fill.
VenueTyped ==
  /\ venue \in [OrderIds -> [state : {"none", "OPEN", "CLOSED"},
                             filled : 0..Size]]
  /\ \A x \in OrderIds : IsOpen(x) => venue[x].filled < Size

CallsTyped ==
  /\ linked \in BOOLEAN
  /\ placing \in [ClientIds ->
                    {"idle", "lookup", "create", "readback", "raised"}]
  /\ placements \in [ClientIds -> 0..Placements]
  /\ unseen \in [ClientIds -> Nat] /\ pionexFaults \in 0..PionexFaults
  /\ \A c \in ClientIds : unseen[c] <= pionexFaults
  /\ report \in [ClientIds -> Told]
  /\ sweep \in [seen : SUBSET OrderIds, todo : SUBSET Markets,
                failed : SUBSET Markets]

\* Orders are numbered by the calls that placed them; the number of a call
\* that has not created its order yet is free.
Numbered ==
  /\ \A x \in OrderIds : venue[x].state # "none" =>
       /\ x[2] <= placements[x[1]]
       /\ placing[x[1]] \in {"lookup", "create"} => x[2] < placements[x[1]]
  /\ \A c \in ClientIds :
       /\ placing[c] \in {"lookup", "create", "readback"} =>
            placements[c] >= 1
       /\ placing[c] = "readback" => venue[Newest(c)].state # "none"
       /\ Acknowledged(c) => OrdersOf(c) # {}

\* An order is created over an earlier one only if a lookup missed that.
Once ==
  \A c \in ClientIds :
    /\ IsFiniteSet(OrdersOf(c))
    /\ Cardinality(OrdersOf(c)) <= 1 + unseen[c]
    /\ placing[c] = "create" => Cardinality(OrdersOf(c)) <= unseen[c]

\* What a sweep saw is closed, still to do, or failed.
SweepInv ==
  \A x \in sweep.seen :
    /\ venue[x].state # "none"
    /\ IsOpen(x) => MarketOf(x) \in sweep.failed \cup sweep.todo

PionexInv ==
  VenueTyped /\ CallsTyped /\ Numbered /\ FinalIsTrue /\ Once /\ SweepInv

LEMMA OrderIdIs ==
  /\ \A x \in OrderIds :
       /\ x[1] \in ClientIds /\ x[2] \in 1..Placements
       /\ x = <<x[1], x[2]>> /\ MarketOf(x) \in Markets
  /\ \A c \in ClientIds, n \in 1..Placements : <<c, n>> \in OrderIds
BY DEF OrderIds, ClientIds, MarketOf

LEMMA InitPionex == PionexInit => PionexInv
<1> SUFFICES ASSUME PionexInit PROVE PionexInv
  OBVIOUS
<1>0. 0 \in 0..Size /\ 0 \in 0..Placements /\ 0 \in 0..PionexFaults
  BY PionexNumbers
<1>1. /\ \A x \in OrderIds : venue[x] = NoOrder
      /\ NoOrder \in [state : {"none", "OPEN", "CLOSED"}, filled : 0..Size]
      /\ NoOrder.state = "none"
  BY <1>0 DEF PionexInit, NoOrder
<1>2. \A c \in ClientIds : OrdersOf(c) = {}
  BY <1>1 DEF OrdersOf
<1>3. VenueTyped
  <2>1. venue \in [OrderIds -> [state : {"none", "OPEN", "CLOSED"},
                                filled : 0..Size]]
    BY <1>1 DEF PionexInit
  <2> QED BY <1>1, <2>1 DEF VenueTyped, IsOpen
<1>4. \A c \in ClientIds :
        /\ report[c] = NoReport /\ NoReport.status = "none"
        /\ placing[c] = "idle" /\ unseen[c] = 0
  BY DEF PionexInit, NoReport
<1>5. CallsTyped
  <2>1. NoReport \in Told
    BY <1>0 DEF NoReport, Told
  <2>2. sweep \in [seen : SUBSET OrderIds, todo : SUBSET Markets,
                   failed : SUBSET Markets]
    BY DEF PionexInit, NoSweep
  <2>3. report \in [ClientIds -> Told]
    BY <2>1 DEF PionexInit
  <2>4. /\ placing \in [ClientIds ->
                           {"idle", "lookup", "create", "readback", "raised"}]
        /\ placements \in [ClientIds -> 0..Placements]
        /\ unseen \in [ClientIds -> Nat]
        /\ pionexFaults = 0 /\ linked \in BOOLEAN
    BY <1>0 DEF PionexInit
  <2>5. \A c \in ClientIds : unseen[c] <= pionexFaults
    BY <1>4, <2>4
  <2> QED BY <1>0, <2>2, <2>3, <2>4, <2>5 DEF CallsTyped
<1>6. Numbered
  BY <1>1, <1>4 DEF Numbered, Acknowledged
<1>7. FinalIsTrue
  BY <1>4 DEF FinalIsTrue, Finished
<1>8. Once
  BY <1>2, <1>4, FS_EmptySet DEF Once
<1>9. SweepInv
  BY DEF PionexInit, NoSweep, SweepInv
<1> QED BY <1>3, <1>5, <1>6, <1>7, <1>8, <1>9 DEF PionexInv

\* The order a caller knows is one of its own.
LEMMA KnownIs ==
  ASSUME NEW c \in ClientIds, OrdersOf(c) # {}
  PROVE  Known(c) \in OrdersOf(c)
<1> DEFINE A == {n \in Nat : \E x \in OrdersOf(c) : n = Placements - x[2]}
<1>1. \A x \in OrdersOf(c) : x[2] \in 1..Placements
  BY OrderIdIs DEF OrdersOf
<1>2. A # {}
  <2>1. PICK x \in OrdersOf(c) : TRUE
    OBVIOUS
  <2>2. Placements - x[2] \in A
    BY <1>1, <2>1, PionexNumbers
  <2> QED BY <2>2
<1>3. PICK m \in A : \A n \in A : m <= n
  BY <1>2, LeastNatural
<1>4. PICK x \in OrdersOf(c) : m = Placements - x[2]
  BY <1>3
<1>5. \A y \in OrdersOf(c) : y[2] <= x[2]
  <2> SUFFICES ASSUME NEW y \in OrdersOf(c) PROVE y[2] <= x[2]
    OBVIOUS
  <2>1. PICK i \in 1..Placements, j \in 1..Placements : i = x[2] /\ j = y[2]
    BY <1>1
  <2>2. Placements - j \in A
    BY <2>1, PionexNumbers
  <2>3. m <= Placements - j
    BY <1>3, <2>2
  <2> QED BY <1>4, <2>1, <2>3, PionexNumbers
<1>6. \E z \in OrdersOf(c) : \A y \in OrdersOf(c) : y[2] <= z[2]
  BY <1>4, <1>5
<1> QED BY <1>6 DEF Known

\* A report that says an order has ended is read from a closed order.
LEMMA ReportIs ==
  ASSUME VenueTyped, NEW c \in ClientIds, NEW x \in OrdersOf(c)
  PROVE  /\ Parsed(x) \in Told /\ Parsed(x).status # "none"
         /\ Parsed(x).status \in {"FILLED", "CANCELLED"} =>
              /\ (Parsed(x).status = "FILLED") = (Parsed(x).filled > 0)
              /\ ~IsOpen(x) /\ venue[x].filled = Parsed(x).filled
<1>1. PICK o \in [state : {"none", "OPEN", "CLOSED"}, filled : 0..Size] :
        o = venue[x] /\ o.state # "none"
  BY DEF VenueTyped, OrdersOf
<1>2. Parsed(x) = [status |-> ParsedStatus(o), filled |-> o.filled]
  BY <1>1 DEF Parsed
<1>3. ParsedStatus(o) \in {"SUBMITTED", "PARTIALLY_FILLED", "FILLED",
                           "CANCELLED"}
  BY DEF ParsedStatus
<1>4. ParsedStatus(o) \in {"FILLED", "CANCELLED"} =>
        o.state = "CLOSED" /\ (ParsedStatus(o) = "FILLED" <=> o.filled > 0)
  BY DEF ParsedStatus
<1> QED BY <1>1, <1>2, <1>3, <1>4 DEF Told, IsOpen

\* What a caller is told is true when it is told.
LEMMA ReportStep ==
  ASSUME PionexInv, NEW c \in ClientIds, NEW x \in OrdersOf(c),
         Report(c, x), venue' = venue
  PROVE  /\ report' \in [ClientIds -> Told]
         /\ FinalIsTrue'
         /\ \A d \in ClientIds : Acknowledged(d)' => OrdersOf(d)' # {}
<1>1. report' = [report EXCEPT ![c] = Parsed(x)]
  BY DEF Report
<1>2. Parsed(x) \in Told
  BY ReportIs DEF PionexInv
<1>3. report \in [ClientIds -> Told]
  BY DEF PionexInv, CallsTyped
<1>4. \A d \in ClientIds :
        report'[d] = IF d = c THEN Parsed(x) ELSE report[d]
  BY <1>1, <1>3
<1>5. \A d \in ClientIds : OrdersOf(d)' = OrdersOf(d)
  BY DEF OrdersOf
<1>6. FinalIsTrue'
  <2> SUFFICES ASSUME NEW d \in ClientIds, Finished(d)'
               PROVE  /\ (report'[d].status = "FILLED")
                           = (report'[d].filled > 0)
                      /\ \E y \in OrdersOf(d) :
                           /\ ~IsOpen(y)
                           /\ venue[y].filled = report'[d].filled
    BY <1>5 DEF FinalIsTrue, IsOpen
  <2>1. CASE d = c
    <3>1. report'[d] = Parsed(x) /\ x \in OrdersOf(d)
      BY <1>4, <2>1
    <3>2. Parsed(x).status \in {"FILLED", "CANCELLED"}
      BY <3>1 DEF Finished
    <3>3. /\ (Parsed(x).status = "FILLED") = (Parsed(x).filled > 0)
          /\ ~IsOpen(x) /\ venue[x].filled = Parsed(x).filled
      BY <3>2, ReportIs DEF PionexInv
    <3> QED BY <3>1, <3>3
  <2>2. CASE d # c
    <3>1. report'[d] = report[d]
      BY <1>4, <2>2
    <3> QED BY <3>1 DEF PionexInv, FinalIsTrue, Finished
  <2> QED BY <2>1, <2>2
<1>7. \A d \in ClientIds : Acknowledged(d)' => OrdersOf(d)' # {}
  BY <1>4, <1>5 DEF PionexInv, Numbered, Acknowledged
<1> QED BY <1>1, <1>2, <1>3, <1>6, <1>7

\* What depends on the exchange only.
LEMMA SameVenue ==
  ASSUME PionexInv, venue' = venue
  PROVE  /\ VenueTyped'
         /\ \A c \in ClientIds : OrdersOf(c)' = OrdersOf(c)
         /\ sweep' = sweep => SweepInv'
         /\ report' = report =>
              /\ FinalIsTrue'
              /\ \A c \in ClientIds : Acknowledged(c)' => OrdersOf(c)' # {}
<1>1. VenueTyped' /\ (sweep' = sweep => SweepInv')
  BY DEF PionexInv, VenueTyped, SweepInv, IsOpen
<1>2. \A c \in ClientIds : OrdersOf(c)' = OrdersOf(c)
  BY DEF OrdersOf
<1>3. ASSUME report' = report PROVE FinalIsTrue'
  BY <1>2, <1>3 DEF PionexInv, FinalIsTrue, Finished, IsOpen
<1>4. ASSUME report' = report, NEW c \in ClientIds, Acknowledged(c)'
      PROVE  OrdersOf(c)' # {}
  BY <1>2, <1>4 DEF PionexInv, Numbered, Acknowledged
<1> QED BY <1>1, <1>2, <1>3, <1>4

\* Orders go on and end; none is created.
LEMMA OrdersEnd ==
  ASSUME PionexInv, linked' \in BOOLEAN,
         UNCHANGED <<placing, placements, unseen, report>>,
         pionexFaults' \in pionexFaults..PionexFaults,
         sweep' \in [seen : SUBSET OrderIds, todo : SUBSET Markets,
                     failed : SUBSET Markets],
         venue' \in [OrderIds -> [state : {"none", "OPEN", "CLOSED"},
                                  filled : 0..Size]],
         \A x \in OrderIds :
           /\ venue'[x].state = "none" <=> venue[x].state = "none"
           /\ ~IsOpen(x) => venue'[x] = venue[x]
           /\ venue'[x].state = "OPEN" => venue'[x].filled < Size,
         SweepInv'
  PROVE  PionexInv'
<1> USE DEF PionexInv
<1>1. VenueTyped'
  BY DEF VenueTyped, IsOpen
<1>2. CallsTyped'
  <2>1. pionexFaults \in 0..PionexFaults
    BY DEF CallsTyped
  <2>2. pionexFaults' \in 0..PionexFaults /\ pionexFaults <= pionexFaults'
    BY <2>1, PionexNumbers
  <2>3. \A c \in ClientIds : unseen[c] <= pionexFaults'
    <3>1. \A c \in ClientIds : unseen[c] \in Nat /\ unseen[c] <= pionexFaults
      BY DEF CallsTyped
    <3> QED BY <2>1, <2>2, <3>1, PionexNumbers
  <2> QED BY <2>2, <2>3 DEF CallsTyped
<1>3. \A c \in ClientIds : OrdersOf(c)' = OrdersOf(c)
  BY DEF OrdersOf
<1>4. Numbered'
  <2>1. \A c \in ClientIds : placing[c] = "readback" =>
          Newest(c)' = Newest(c) /\ Newest(c) \in OrderIds
    <3>1. \A c \in ClientIds : placing[c] = "readback" =>
            placements[c] \in 1..Placements
      BY PionexNumbers DEF CallsTyped, Numbered
    <3> QED BY <3>1, OrderIdIs DEF Newest
  <2> QED BY <1>3, <2>1 DEF Numbered, Acknowledged
<1>5. FinalIsTrue'
  <2> SUFFICES ASSUME NEW c \in ClientIds, Finished(c)'
               PROVE  /\ (report[c].status = "FILLED") = (report[c].filled > 0)
                      /\ \E x \in OrdersOf(c) :
                           /\ ~IsOpen(x)'
                           /\ venue'[x].filled = report[c].filled
    BY <1>3 DEF FinalIsTrue
  <2>1. Finished(c)
    BY DEF Finished
  <2>2. PICK x \in OrdersOf(c) :
          ~IsOpen(x) /\ venue[x].filled = report[c].filled
    BY <2>1 DEF FinalIsTrue
  <2>3. x \in OrderIds /\ venue'[x] = venue[x]
    BY <2>2 DEF OrdersOf
  <2> QED BY <2>1, <2>2, <2>3 DEF FinalIsTrue, IsOpen
<1>6. Once'
  BY <1>3 DEF Once
<1> QED BY <1>1, <1>2, <1>4, <1>5, <1>6

LEMMA PlaceStep ==
  ASSUME PionexInv, NEW c \in ClientIds, PlaceOrder(c)
  PROVE  PionexInv'
<1>1. /\ venue' = venue /\ sweep' = sweep /\ report' = report
      /\ linked' = linked /\ unseen' = unseen
      /\ pionexFaults' = pionexFaults /\ placements[c] < Placements
      /\ placements' = [placements EXCEPT ![c] = placements[c] + 1]
      /\ placing' = [placing EXCEPT ![c] = "lookup"]
  BY DEF PlaceOrder, Placing
<1>2. CallsTyped
  BY DEF PionexInv
<1>3. \A d \in ClientIds :
        /\ placing'[d] = IF d = c THEN "lookup" ELSE placing[d]
        /\ placements'[d] = IF d = c THEN placements[c] + 1 ELSE placements[d]
        /\ placements[d] \in 0..Placements
  BY <1>1, <1>2 DEF CallsTyped
<1>4. CallsTyped'
  <2>1. placements[c] + 1 \in 0..Placements
    BY <1>1, <1>3, PionexNumbers
  <2> QED BY <1>1, <1>2, <2>1 DEF CallsTyped
<1>5. /\ VenueTyped' /\ SweepInv' /\ FinalIsTrue'
      /\ \A d \in ClientIds : OrdersOf(d)' = OrdersOf(d)
      /\ \A d \in ClientIds : Acknowledged(d)' => OrdersOf(d)' # {}
  BY <1>1, SameVenue
<1>6. Numbered'
  <2>1. ASSUME NEW x \in OrderIds, venue'[x].state # "none"
        PROVE  /\ x[2] <= placements'[x[1]]
               /\ placing'[x[1]] \in {"lookup", "create"} =>
                    x[2] < placements'[x[1]]
    <3>1. PICK d \in ClientIds, n \in 1..Placements : d = x[1] /\ n = x[2]
      BY OrderIdIs
    <3>2. n <= placements[d]
          /\ (placing[d] \in {"lookup", "create"} => n < placements[d])
      BY <1>1, <2>1, <3>1 DEF PionexInv, Numbered
    <3>3. CASE d = c
      BY <1>3, <3>1, <3>2, <3>3, PionexNumbers
    <3>4. CASE d # c
      BY <1>3, <3>1, <3>2, <3>4
    <3> QED BY <3>3, <3>4
  <2>2. ASSUME NEW d \in ClientIds
        PROVE  /\ placing'[d] \in {"lookup", "create", "readback"} =>
                    placements'[d] >= 1
               /\ placing'[d] = "readback" =>
                    (venue[Newest(d)].state # "none")'
    <3>1. CASE d = c
      BY <1>3, <3>1, PionexNumbers
    <3>2. CASE d # c
      <4>1. placing'[d] = placing[d] /\ placements'[d] = placements[d]
        BY <1>3, <3>2
      <4>2. Newest(d)' = Newest(d)
        BY <4>1 DEF Newest
      <4> QED BY <1>1, <4>1, <4>2 DEF PionexInv, Numbered
    <3> QED BY <3>1, <3>2
  <2> QED BY <1>5, <2>1, <2>2 DEF Numbered
<1>7. Once'
  BY <1>1, <1>3, <1>5 DEF PionexInv, Once
<1> QED BY <1>4, <1>5, <1>6, <1>7 DEF PionexInv

\* A call goes on and creates no order.
LEMMA CallGoesOn ==
  ASSUME PionexInv, NEW c \in ClientIds,
         NEW to \in {"idle", "create", "raised"},
         placing' = [placing EXCEPT ![c] = to],
         to = "create" => placing[c] = "lookup",
         to = "create" => Cardinality(OrdersOf(c)) <= unseen'[c],
         venue' = venue, sweep' = sweep, linked' = linked,
         placements' = placements, unseen' \in [ClientIds -> Nat],
         \A d \in ClientIds : unseen[d] <= unseen'[d],
         \A d \in ClientIds : unseen'[d] <= pionexFaults',
         pionexFaults' \in 0..PionexFaults,
         report' \in [ClientIds -> Told], FinalIsTrue',
         \A d \in ClientIds : Acknowledged(d)' => OrdersOf(d)' # {}
  PROVE  PionexInv'
<1>1. \A d \in ClientIds : placing'[d] = IF d = c THEN to ELSE placing[d]
  BY DEF PionexInv, CallsTyped
<1>2. CallsTyped'
  BY DEF PionexInv, CallsTyped
<1>3. /\ VenueTyped' /\ SweepInv'
      /\ \A d \in ClientIds : OrdersOf(d)' = OrdersOf(d)
  BY SameVenue
<1>4. Numbered'
  <2>1. ASSUME NEW x \in OrderIds, venue'[x].state # "none"
        PROVE  /\ x[2] <= placements'[x[1]]
               /\ placing'[x[1]] \in {"lookup", "create"} =>
                    x[2] < placements'[x[1]]
    <3>1. x[1] \in ClientIds
      BY OrderIdIs
    <3> QED BY <1>1, <2>1, <3>1 DEF PionexInv, Numbered
  <2>2. ASSUME NEW d \in ClientIds
        PROVE  /\ placing'[d] \in {"lookup", "create", "readback"} =>
                    placements'[d] >= 1
               /\ placing'[d] = "readback" =>
                    (venue[Newest(d)].state # "none")'
    <3>1. Newest(d)' = Newest(d)
      BY DEF Newest
    <3> QED BY <1>1, <3>1 DEF PionexInv, Numbered
  <2> QED BY <2>1, <2>2 DEF Numbered
<1>5. Once'
  <2> SUFFICES ASSUME NEW d \in ClientIds
               PROVE  /\ IsFiniteSet(OrdersOf(d))
                      /\ Cardinality(OrdersOf(d)) <= 1 + unseen'[d]
                      /\ placing'[d] = "create" =>
                           Cardinality(OrdersOf(d)) <= unseen'[d]
    BY <1>3 DEF Once
  <2>1. PICK n \in Nat : n = Cardinality(OrdersOf(d))
    BY FS_CardinalityType DEF PionexInv, Once
  <2>2. unseen[d] \in Nat /\ unseen'[d] \in Nat /\ unseen[d] <= unseen'[d]
    BY DEF PionexInv, CallsTyped
  <2>3. /\ IsFiniteSet(OrdersOf(d)) /\ n <= 1 + unseen[d]
        /\ placing[d] = "create" => n <= unseen[d]
    BY <2>1 DEF PionexInv, Once
  <2>4. CASE d = c
    BY <1>1, <2>1, <2>2, <2>3, <2>4
  <2>5. CASE d # c
    BY <1>1, <2>1, <2>2, <2>3, <2>5
  <2> QED BY <2>4, <2>5
<1> QED BY <1>2, <1>3, <1>4, <1>5 DEF PionexInv

LEMMA LookUpStep ==
  ASSUME PionexInv, NEW c \in ClientIds, LookUp(c)
  PROVE  PionexInv'
<1>1. /\ placing[c] = "lookup" /\ venue' = venue /\ sweep' = sweep
      /\ linked' = linked /\ placements' = placements
  BY DEF LookUp
<1>2. /\ unseen \in [ClientIds -> Nat] /\ report \in [ClientIds -> Told]
      /\ pionexFaults \in 0..PionexFaults
      /\ \A d \in ClientIds : unseen[d] <= pionexFaults
  BY DEF PionexInv, CallsTyped
<1>3. report' = report =>
        /\ FinalIsTrue'
        /\ \A d \in ClientIds : Acknowledged(d)' => OrdersOf(d)' # {}
  BY <1>1, SameVenue
<1>4. CASE /\ linked /\ Existing(c) # {}
           /\ \E x \in Existing(c) : Report(c, x)
           /\ Placing(c, "idle")
           /\ UNCHANGED <<unseen, pionexFaults>>
  <2>1. PICK x \in OrdersOf(c) : Report(c, x)
    BY <1>4 DEF Existing
  <2>2. /\ report' \in [ClientIds -> Told] /\ FinalIsTrue'
        /\ \A d \in ClientIds : Acknowledged(d)' => OrdersOf(d)' # {}
    BY <1>1, <2>1, ReportStep
  <2>3. placing' = [placing EXCEPT ![c] = "idle"]
    BY <1>4 DEF Placing
  <2>4. /\ \A d \in ClientIds : unseen[d] <= unseen'[d]
        /\ \A d \in ClientIds : unseen'[d] <= pionexFaults'
        /\ pionexFaults' \in 0..PionexFaults
        /\ unseen' \in [ClientIds -> Nat]
    BY <1>2, <1>4
  <2> QED BY <1>1, <2>2, <2>3, <2>4, CallGoesOn
<1>5. CASE /\ linked /\ Existing(c) = {}
           /\ Placing(c, "create")
           /\ UNCHANGED <<unseen, report, pionexFaults>>
  <2>1. placing' = [placing EXCEPT ![c] = "create"]
    BY <1>5 DEF Placing
  <2>2. Cardinality(OrdersOf(c)) <= unseen'[c]
    BY <1>2, <1>5, FS_EmptySet DEF Existing
  <2>3. /\ \A d \in ClientIds : unseen[d] <= unseen'[d]
        /\ \A d \in ClientIds : unseen'[d] <= pionexFaults'
        /\ pionexFaults' \in 0..PionexFaults
        /\ unseen' \in [ClientIds -> Nat]
        /\ report' \in [ClientIds -> Told]
    BY <1>2, <1>5
  <2> QED BY <1>1, <1>3, <1>5, <2>1, <2>2, <2>3, CallGoesOn
<1>6. CASE /\ PionexFault
           /\ unseen' = [unseen EXCEPT ![c] = @ + 1]
           /\ Placing(c, "create")
           /\ UNCHANGED report
  <2>1. placing' = [placing EXCEPT ![c] = "create"]
    BY <1>6 DEF Placing
  <2>2. /\ pionexFaults' = pionexFaults + 1 /\ pionexFaults < PionexFaults
    BY <1>6 DEF PionexFault
  <2>3. /\ unseen' \in [ClientIds -> Nat]
        /\ \A d \in ClientIds :
             unseen'[d] = IF d = c THEN unseen[c] + 1 ELSE unseen[d]
    BY <1>2, <1>6
  <2>4. Cardinality(OrdersOf(c)) <= unseen'[c]
    BY <2>3, <1>2 DEF PionexInv, Once
  <2>5. pionexFaults' \in 0..PionexFaults
    BY <1>2, <2>2, PionexNumbers
  <2>6. /\ \A d \in ClientIds : unseen[d] <= unseen'[d]
        /\ \A d \in ClientIds : unseen'[d] <= pionexFaults'
    BY <1>2, <2>2, <2>3, PionexNumbers
  <2>7. report' \in [ClientIds -> Told]
    BY <1>2, <1>6
  <2> QED BY <1>1, <1>3, <1>6, <2>1, <2>3, <2>4, <2>5, <2>6, <2>7, CallGoesOn
<1> QED BY <1>4, <1>5, <1>6 DEF LookUp

LEMMA CreateStep ==
  ASSUME PionexInv, NEW c \in ClientIds, CreateOrder(c)
  PROVE  PionexInv'
<1>1. /\ placing[c] = "create" /\ sweep' = sweep /\ report' = report
      /\ linked' = linked /\ placements' = placements /\ unseen' = unseen
  BY DEF CreateOrder
<1>2. CallsTyped /\ VenueTyped
  BY DEF PionexInv
<1>3. /\ pionexFaults \in 0..PionexFaults
      /\ pionexFaults' \in {pionexFaults, pionexFaults + 1}
      /\ pionexFaults' \in 0..PionexFaults
      /\ \A d \in ClientIds :
           /\ unseen[d] \in Nat /\ unseen[d] <= pionexFaults
           /\ unseen[d] <= pionexFaults'
  <2>1. pionexFaults \in 0..PionexFaults
    BY <1>2 DEF CallsTyped
  <2>2. \/ pionexFaults' = pionexFaults
        \/ pionexFaults' = pionexFaults + 1 /\ pionexFaults < PionexFaults
    BY DEF CreateOrder, PionexFault
  <2>3. \A d \in ClientIds : unseen[d] \in Nat /\ unseen[d] <= pionexFaults
    BY <1>2 DEF CallsTyped
  <2> QED BY <2>1, <2>2, <2>3, PionexNumbers
<1>4. CASE venue' = venue /\ Placing(c, "raised")
  <2>1. placing' = [placing EXCEPT ![c] = "raised"]
    BY <1>4 DEF Placing
  <2>2. /\ FinalIsTrue'
        /\ \A d \in ClientIds : Acknowledged(d)' => OrdersOf(d)' # {}
    BY <1>1, <1>4, SameVenue
  <2>3. /\ \A d \in ClientIds : unseen[d] <= unseen'[d]
        /\ \A d \in ClientIds : unseen'[d] <= pionexFaults'
        /\ unseen' \in [ClientIds -> Nat] /\ report' \in [ClientIds -> Told]
    BY <1>1, <1>2, <1>3 DEF CallsTyped
  <2> QED BY <1>1, <1>3, <1>4, <2>1, <2>2, <2>3, CallGoesOn
<1>5. ASSUME venue' = [venue EXCEPT ![Newest(c)] =
                         [state |-> "OPEN", filled |-> 0]],
             NEW to \in {"readback", "raised"}, Placing(c, to)
      PROVE  PionexInv'
  <2>1. \A d \in ClientIds : placing'[d] = IF d = c THEN to ELSE placing[d]
    BY <1>2, <1>5 DEF CallsTyped, Placing
  <2>2. placements[c] \in 1..Placements
    BY <1>1, PionexNumbers DEF PionexInv, CallsTyped, Numbered
  <2>3. PICK z \in OrderIds :
          /\ z = Newest(c) /\ z[1] = c /\ z[2] = placements[c]
    <3>1. <<c, placements[c]>> \in OrderIds
      BY <2>2, OrderIdIs
    <3> QED BY <3>1 DEF Newest
  <2>4. venue[z].state = "none"
    BY <1>1, <2>2, <2>3 DEF PionexInv, Numbered
  <2>5. PICK fresh \in [state : {"none", "OPEN", "CLOSED"}, filled : 0..Size] :
          /\ fresh = [state |-> "OPEN", filled |-> 0]
          /\ fresh.state = "OPEN" /\ fresh.filled = 0
    <3>1. PICK n \in 0..Size : n = 0
      BY PionexNumbers
    <3>2. [state |-> "OPEN", filled |-> n]
            \in [state : {"none", "OPEN", "CLOSED"}, filled : 0..Size]
      OBVIOUS
    <3> QED BY <3>1, <3>2
  <2>6. venue' = [venue EXCEPT ![z] = fresh]
    BY <1>5, <2>3, <2>5
  <2>7. /\ venue' \in [OrderIds -> [state : {"none", "OPEN", "CLOSED"},
                                    filled : 0..Size]]
        /\ \A x \in OrderIds : venue'[x] = IF x = z THEN fresh ELSE venue[x]
    BY <1>2, <2>5, <2>6 DEF VenueTyped
  <2>8. VenueTyped'
    <3> SUFFICES ASSUME NEW x \in OrderIds, venue'[x].state = "OPEN"
                 PROVE  venue'[x].filled < Size
      BY <2>7 DEF VenueTyped, IsOpen
    <3>1. CASE x = z
      BY <2>5, <2>7, <3>1, PionexNumbers
    <3>2. CASE x # z
      BY <1>2, <2>7, <3>2 DEF VenueTyped, IsOpen
    <3> QED BY <3>1, <3>2
  <2>9. OrdersOf(c)' = OrdersOf(c) \cup {z} /\ z \notin OrdersOf(c)
    BY <2>3, <2>4, <2>5, <2>7 DEF OrdersOf
  <2>10. \A d \in ClientIds : d # c => OrdersOf(d)' = OrdersOf(d)
    BY <2>3, <2>7 DEF OrdersOf
  <2>11. CallsTyped'
    BY <1>1, <1>2, <1>3, <1>5 DEF CallsTyped, Placing
  <2>12. Numbered'
    <3>1. ASSUME NEW x \in OrderIds, venue'[x].state # "none"
          PROVE  /\ x[2] <= placements'[x[1]]
                 /\ placing'[x[1]] \in {"lookup", "create"} =>
                      x[2] < placements'[x[1]]
      <4>1. x[1] \in ClientIds
        BY OrderIdIs
      <4>2. CASE x = z
        BY <1>1, <2>1, <2>2, <2>3, <4>2
      <4>3. CASE x # z
        BY <1>1, <2>1, <2>7, <3>1, <4>1, <4>3 DEF PionexInv, Numbered
      <4> QED BY <4>2, <4>3
    <3>2. ASSUME NEW d \in ClientIds
          PROVE  /\ placing'[d] \in {"lookup", "create", "readback"} =>
                      placements'[d] >= 1
                 /\ placing'[d] = "readback" =>
                      (venue[Newest(d)].state # "none")'
                 /\ Acknowledged(d)' => OrdersOf(d)' # {}
      <4>1. Newest(d)' = Newest(d)
        BY <1>1 DEF Newest
      <4>2. CASE d = c
        BY <1>1, <2>2, <2>3, <2>5, <2>7, <2>9, <4>1, <4>2, PionexNumbers
      <4>3. CASE d # c
        <5>1. Acknowledged(d)' => OrdersOf(d)' # {}
          BY <1>1, <2>10, <4>3 DEF PionexInv, Numbered, Acknowledged
        <5>2. placing'[d] = placing[d] /\ placements'[d] = placements[d]
          BY <1>1, <2>1, <4>3
        <5>3. placing[d] = "readback" => (venue[Newest(d)].state # "none")'
          <6> SUFFICES ASSUME placing[d] = "readback"
                       PROVE  venue'[Newest(d)].state # "none"
            BY <4>1
          <6>1. placements[d] \in 1..Placements
            BY PionexNumbers DEF PionexInv, CallsTyped, Numbered
          <6>2. Newest(d) \in OrderIds /\ Newest(d)[1] = d
            BY <6>1, OrderIdIs DEF Newest
          <6>3. venue'[Newest(d)] = venue[Newest(d)]
            BY <2>3, <2>7, <4>3, <6>2
          <6> QED BY <6>3 DEF PionexInv, Numbered
        <5>4. placing[d] \in {"lookup", "create", "readback"} =>
                placements[d] >= 1
          BY DEF PionexInv, Numbered
        <5> QED BY <5>1, <5>2, <5>3, <5>4
      <4> QED BY <4>2, <4>3
    <3> QED BY <3>1, <3>2 DEF Numbered
  <2>13. FinalIsTrue'
    <3> SUFFICES ASSUME NEW d \in ClientIds, Finished(d)'
                 PROVE  /\ (report[d].status = "FILLED")
                             = (report[d].filled > 0)
                        /\ \E x \in OrdersOf(d)' :
                             /\ ~IsOpen(x)'
                             /\ venue'[x].filled = report[d].filled
      BY <1>1 DEF FinalIsTrue
    <3>1. Finished(d)
      BY <1>1 DEF Finished
    <3>2. PICK x \in OrdersOf(d) :
            ~IsOpen(x) /\ venue[x].filled = report[d].filled
      BY <3>1 DEF PionexInv, FinalIsTrue
    <3>3. x \in OrderIds /\ x # z
      BY <2>4, <3>2 DEF OrdersOf
    <3>4. venue'[x] = venue[x] /\ x \in OrdersOf(d)'
      BY <2>7, <2>9, <2>10, <3>3
    <3>5. (report[d].status = "FILLED") = (report[d].filled > 0)
      BY <3>1 DEF PionexInv, FinalIsTrue
    <3> QED BY <3>2, <3>4, <3>5 DEF IsOpen
  <2>14. Once'
    <3> SUFFICES ASSUME NEW d \in ClientIds
                 PROVE  /\ IsFiniteSet(OrdersOf(d)')
                        /\ Cardinality(OrdersOf(d)') <= 1 + unseen[d]
                        /\ placing'[d] = "create" =>
                             Cardinality(OrdersOf(d)') <= unseen[d]
      BY <1>1 DEF Once
    <3>1. CASE d = c
      <4>1. IsFiniteSet(OrdersOf(c)) /\ Cardinality(OrdersOf(c)) <= unseen[c]
        BY <1>1 DEF PionexInv, Once
      <4>2. /\ IsFiniteSet(OrdersOf(c) \cup {z})
            /\ Cardinality(OrdersOf(c) \cup {z}) = Cardinality(OrdersOf(c)) + 1
        BY <2>9, <4>1, FS_AddElement
      <4>3. Cardinality(OrdersOf(c)) \in Nat
        BY <4>1, FS_CardinalityType
      <4>4. Cardinality(OrdersOf(c)') <= 1 + unseen[c]
        BY <1>3, <2>9, <4>1, <4>2, <4>3
      <4> QED BY <2>1, <2>9, <3>1, <4>2, <4>4
    <3>2. CASE d # c
      BY <2>1, <2>10, <3>2 DEF PionexInv, Once
    <3> QED BY <3>1, <3>2
  <2>15. SweepInv'
    <3> SUFFICES ASSUME NEW x \in sweep.seen
                 PROVE  /\ venue'[x].state # "none"
                        /\ venue'[x].state = "OPEN" =>
                             MarketOf(x) \in sweep.failed \cup sweep.todo
      BY <1>1 DEF SweepInv, IsOpen
    <3>1. x \in OrderIds /\ venue[x].state # "none"
      BY <1>2 DEF PionexInv, CallsTyped, SweepInv
    <3>2. venue'[x] = venue[x]
      BY <2>4, <2>7, <3>1
    <3> QED BY <3>1, <3>2 DEF PionexInv, SweepInv, IsOpen
  <2> QED BY <2>8, <2>11, <2>12, <2>13, <2>14, <2>15 DEF PionexInv
<1>6. \/ venue' = venue /\ Placing(c, "raised")
      \/ \E to \in {"readback", "raised"} :
           /\ venue' = [venue EXCEPT ![Newest(c)] =
                          [state |-> "OPEN", filled |-> 0]]
           /\ Placing(c, to)
  BY DEF CreateOrder
<1> QED BY <1>4, <1>5, <1>6

LEMMA ReadStep ==
  ASSUME PionexInv, NEW c \in ClientIds, ReadBack(c) \/ PollOrder(c)
  PROVE  PionexInv'
<1>1. /\ venue' = venue /\ sweep' = sweep /\ linked' = linked
      /\ placements' = placements /\ unseen' = unseen
  BY DEF ReadBack, PollOrder
<1>2. /\ unseen \in [ClientIds -> Nat] /\ report \in [ClientIds -> Told]
      /\ pionexFaults \in 0..PionexFaults
      /\ \A d \in ClientIds : unseen[d] <= pionexFaults
      /\ placing \in [ClientIds ->
                        {"idle", "lookup", "create", "readback", "raised"}]
  BY DEF PionexInv, CallsTyped
<1>3. \E to \in {"idle", "raised"} : placing' = [placing EXCEPT ![c] = to]
  <2>1. CASE ReadBack(c)
    BY <2>1 DEF ReadBack, Placing
  <2>2. CASE PollOrder(c)
    <3>1. placing' = placing /\ placing[c] = "idle"
      BY <2>2 DEF PollOrder
    <3>2. placing' = [placing EXCEPT ![c] = "idle"]
      BY <1>2, <3>1
    <3> QED BY <3>2
  <2> QED BY <2>1, <2>2
<1>4. \/ report' = report
      \/ \E x \in OrdersOf(c) : Report(c, x)
  <2>1. CASE ReadBack(c) /\ Report(c, Newest(c))
    <3>1. placements[c] \in 1..Placements /\ venue[Newest(c)].state # "none"
      BY <2>1, PionexNumbers DEF PionexInv, CallsTyped, Numbered, ReadBack
    <3>2. Newest(c) \in OrderIds /\ Newest(c)[1] = c
      BY <3>1, OrderIdIs DEF Newest
    <3> QED BY <2>1, <3>1, <3>2 DEF OrdersOf
  <2>2. CASE ReadBack(c) /\ report' = report
    BY <2>2
  <2>3. CASE PollOrder(c)
    <3>1. OrdersOf(c) # {} /\ Report(c, Known(c))
      BY <2>3 DEF PollOrder, PionexInv, Numbered
    <3> QED BY <3>1, KnownIs
  <2> QED BY <2>1, <2>2, <2>3 DEF ReadBack
<1>5. /\ report' \in [ClientIds -> Told] /\ FinalIsTrue'
      /\ \A d \in ClientIds : Acknowledged(d)' => OrdersOf(d)' # {}
  <2>1. CASE report' = report
    BY <1>1, <1>2, <2>1, SameVenue
  <2>2. CASE \E x \in OrdersOf(c) : Report(c, x)
    BY <1>1, <2>2, ReportStep
  <2> QED BY <1>4, <2>1, <2>2
<1>6. /\ pionexFaults' \in 0..PionexFaults
      /\ \A d \in ClientIds : unseen'[d] <= pionexFaults'
      /\ \A d \in ClientIds : unseen[d] <= unseen'[d]
      /\ unseen' \in [ClientIds -> Nat]
  <2>1. \/ pionexFaults' = pionexFaults
        \/ pionexFaults' = pionexFaults + 1 /\ pionexFaults < PionexFaults
    BY DEF ReadBack, PollOrder, PionexFault
  <2>2. \A d \in ClientIds : unseen[d] \in Nat
    BY <1>2
  <2> QED BY <1>1, <1>2, <2>1, <2>2, PionexNumbers
<1> QED BY <1>1, <1>3, <1>5, <1>6, CallGoesOn

\* Orders that are closed keep what was filled.
LEMMA ClosedByIs ==
  ASSUME VenueTyped, NEW S \in SUBSET OrderIds,
         \A x \in S : IsOpen(x), venue' = ClosedBy(S)
  PROVE  /\ venue' \in [OrderIds -> [state : {"none", "OPEN", "CLOSED"},
                                     filled : 0..Size]]
         /\ \A x \in OrderIds :
              /\ venue'[x].state = "none" <=> venue[x].state = "none"
              /\ ~IsOpen(x) => venue'[x] = venue[x]
              /\ venue'[x].state = "OPEN" => venue'[x].filled < Size
         /\ \A x \in S : venue'[x].state = "CLOSED"
         /\ \A x \in OrderIds \ S : venue'[x] = venue[x]
<1>1. \A x \in OrderIds :
        venue'[x] = IF x \in S THEN [venue[x] EXCEPT !.state = "CLOSED"]
                    ELSE venue[x]
  BY DEF ClosedBy
<1>2. \A x \in OrderIds : venue[x] \in [state : {"none", "OPEN", "CLOSED"},
                                        filled : 0..Size]
  BY DEF VenueTyped
<1>3. \A x \in S :
        /\ venue'[x] \in [state : {"none", "OPEN", "CLOSED"}, filled : 0..Size]
        /\ venue'[x].state = "CLOSED"
  BY <1>1, <1>2
<1>4. \A x \in OrderIds \ S : venue'[x] = venue[x]
  BY <1>1
<1>5. venue' \in [OrderIds -> [state : {"none", "OPEN", "CLOSED"},
                               filled : 0..Size]]
  <2>1. venue' = [x \in OrderIds |-> venue'[x]]
    BY DEF ClosedBy
  <2>2. \A x \in OrderIds :
          venue'[x] \in [state : {"none", "OPEN", "CLOSED"}, filled : 0..Size]
    BY <1>2, <1>3, <1>4
  <2> QED BY <2>1, <2>2
<1>6. ASSUME NEW x \in OrderIds
      PROVE  /\ venue'[x].state = "none" <=> venue[x].state = "none"
             /\ ~IsOpen(x) => venue'[x] = venue[x]
             /\ venue'[x].state = "OPEN" => venue'[x].filled < Size
  <2>1. CASE x \in S
    BY <1>3, <2>1 DEF IsOpen
  <2>2. CASE x \notin S
    BY <1>4, <2>2 DEF VenueTyped, IsOpen
  <2> QED BY <2>1, <2>2
<1> QED BY <1>3, <1>4, <1>5, <1>6

LEMMA FaultCounts ==
  ASSUME PionexInv, PionexFault \/ UNCHANGED pionexFaults
  PROVE  pionexFaults' \in pionexFaults..PionexFaults
BY PionexNumbers DEF PionexInv, CallsTyped, PionexFault

\* What the orders a sweep saw have become.
LEMMA SeenStay ==
  ASSUME PionexInv,
         \A x \in OrderIds :
           /\ venue'[x].state = "none" <=> venue[x].state = "none"
           /\ ~IsOpen(x) => venue'[x] = venue[x]
  PROVE  \A x \in sweep.seen :
           /\ x \in OrderIds /\ venue'[x].state # "none"
           /\ venue'[x].state = "OPEN" =>
                MarketOf(x) \in sweep.failed \cup sweep.todo
BY DEF PionexInv, CallsTyped, SweepInv, IsOpen

LEMMA LinkStep ==
  ASSUME PionexInv, ConnectPionex \/ ClosePionex
  PROVE  PionexInv'
<1>1. /\ linked' \in BOOLEAN
      /\ UNCHANGED <<venue, placing, placements, unseen, report, sweep>>
      /\ PionexFault \/ UNCHANGED pionexFaults
  BY DEF ConnectPionex, ClosePionex, PionexInv, CallsTyped
<1>2. SweepInv'
  BY <1>1, SameVenue
<1>3. /\ sweep' \in [seen : SUBSET OrderIds, todo : SUBSET Markets,
                     failed : SUBSET Markets]
      /\ venue' \in [OrderIds -> [state : {"none", "OPEN", "CLOSED"},
                                  filled : 0..Size]]
      /\ \A x \in OrderIds :
           /\ venue'[x].state = "none" <=> venue[x].state = "none"
           /\ ~IsOpen(x) => venue'[x] = venue[x]
           /\ venue'[x].state = "OPEN" => venue'[x].filled < Size
  BY <1>1 DEF PionexInv, CallsTyped, VenueTyped, IsOpen
<1> QED BY <1>1, <1>2, <1>3, FaultCounts, OrdersEnd

LEMMA CancelStep ==
  ASSUME PionexInv, NEW c \in ClientIds, CancelOrder(c)
  PROVE  PionexInv'
<1>1. /\ Acknowledged(c) /\ IsOpen(Known(c)) /\ linked' = linked
      /\ venue' = ClosedBy({Known(c)})
      /\ UNCHANGED <<placing, placements, unseen, report, sweep>>
      /\ UNCHANGED pionexFaults
  BY DEF CancelOrder
<1>2. Known(c) \in OrderIds
  <2>1. OrdersOf(c) # {}
    BY <1>1 DEF PionexInv, Numbered
  <2> QED BY <2>1, KnownIs DEF OrdersOf
<1>3. /\ venue' \in [OrderIds -> [state : {"none", "OPEN", "CLOSED"},
                                  filled : 0..Size]]
      /\ \A x \in OrderIds :
           /\ venue'[x].state = "none" <=> venue[x].state = "none"
           /\ ~IsOpen(x) => venue'[x] = venue[x]
           /\ venue'[x].state = "OPEN" => venue'[x].filled < Size
  <2>1. PICK S \in SUBSET OrderIds :
          S = {Known(c)} /\ \A x \in S : IsOpen(x)
    BY <1>1, <1>2
  <2>2. venue' = ClosedBy(S)
    BY <1>1, <2>1
  <2> QED BY <2>1, <2>2, ClosedByIs DEF PionexInv
<1>4. SweepInv'
  BY <1>1, <1>3, SeenStay DEF SweepInv, IsOpen
<1>5. /\ sweep' \in [seen : SUBSET OrderIds, todo : SUBSET Markets,
                     failed : SUBSET Markets]
      /\ linked' \in BOOLEAN
  BY <1>1 DEF PionexInv, CallsTyped
<1> QED BY <1>1, <1>3, <1>4, <1>5, FaultCounts, OrdersEnd

LEMMA SweepBegins ==
  ASSUME PionexInv, NEW page \in SUBSET Open, BeginSweep(page)
  PROVE  PionexInv'
<1>1. /\ linked' = linked /\ venue' = venue
      /\ sweep' = [seen |-> page, todo |-> MarketsOf(page), failed |-> {}]
      /\ UNCHANGED <<placing, placements, unseen, report>>
      /\ UNCHANGED pionexFaults
  BY DEF BeginSweep
<1>2. \A x \in page : x \in OrderIds /\ IsOpen(x)
  BY DEF Open
<1>3. MarketsOf(page) \in SUBSET Markets
  BY <1>2, OrderIdIs DEF MarketsOf
<1>4. /\ sweep' \in [seen : SUBSET OrderIds, todo : SUBSET Markets,
                     failed : SUBSET Markets]
      /\ linked' \in BOOLEAN
  BY <1>1, <1>2, <1>3 DEF PionexInv, CallsTyped
<1>5. /\ venue' \in [OrderIds -> [state : {"none", "OPEN", "CLOSED"},
                                  filled : 0..Size]]
      /\ \A x \in OrderIds :
           /\ venue'[x].state = "none" <=> venue[x].state = "none"
           /\ ~IsOpen(x) => venue'[x] = venue[x]
           /\ venue'[x].state = "OPEN" => venue'[x].filled < Size
  BY <1>1 DEF PionexInv, VenueTyped, IsOpen
<1>6. SweepInv'
  BY <1>1, <1>2 DEF SweepInv, IsOpen, MarketsOf
<1> QED BY <1>1, <1>4, <1>5, <1>6, FaultCounts, OrdersEnd

LEMMA SweepGoesOn ==
  ASSUME PionexInv, NEW m \in Markets, SweepMarket(m)
  PROVE  PionexInv'
<1>1. /\ linked' = linked
      /\ UNCHANGED <<placing, placements, unseen, report>>
      /\ PionexFault \/ UNCHANGED pionexFaults
  BY DEF SweepMarket
<1>2. PICK s \in [seen : SUBSET OrderIds, todo : SUBSET Markets,
                  failed : SUBSET Markets] : s = sweep
  BY DEF PionexInv, CallsTyped
<1>3. CASE venue' = ClosedBy(Swept(m))
           /\ sweep' = [sweep EXCEPT !.todo = @ \ {m}]
  <2>1. Swept(m) \in SUBSET OrderIds /\ \A x \in Swept(m) : IsOpen(x)
    BY DEF Swept, Open
  <2>2. /\ venue' \in [OrderIds -> [state : {"none", "OPEN", "CLOSED"},
                                    filled : 0..Size]]
        /\ \A x \in OrderIds :
             /\ venue'[x].state = "none" <=> venue[x].state = "none"
             /\ ~IsOpen(x) => venue'[x] = venue[x]
             /\ venue'[x].state = "OPEN" => venue'[x].filled < Size
        /\ \A x \in Swept(m) : venue'[x].state = "CLOSED"
    BY <1>3, <2>1, ClosedByIs DEF PionexInv
  <2>3. PICK t \in [seen : SUBSET OrderIds, todo : SUBSET Markets,
                    failed : SUBSET Markets] :
          /\ t = sweep' /\ t.seen = s.seen /\ t.failed = s.failed
          /\ t.todo = s.todo \ {m}
    BY <1>2, <1>3
  <2>4. \A x \in s.seen :
          /\ x \in OrderIds /\ venue'[x].state # "none"
          /\ venue'[x].state = "OPEN" =>
               MarketOf(x) \in s.failed \cup s.todo
    BY <1>2, <2>2, SeenStay
  <2>5. \A x \in s.seen : venue'[x].state = "OPEN" => MarketOf(x) # m
    <3> SUFFICES ASSUME NEW x \in s.seen, venue'[x].state = "OPEN",
                        MarketOf(x) = m
                 PROVE  FALSE
      OBVIOUS
    <3>1. x \in OrderIds
      BY <2>4
    <3>2. IsOpen(x)
      BY <2>2, <3>1 DEF IsOpen
    <3>3. x \in Swept(m)
      BY <3>1, <3>2 DEF Swept, Open
    <3> QED BY <2>2, <3>3
  <2>6. SweepInv'
    <3>1. \A x \in t.seen :
            /\ venue'[x].state # "none"
            /\ venue'[x].state = "OPEN" =>
                 MarketOf(x) \in t.failed \cup t.todo
      BY <2>3, <2>4, <2>5
    <3> QED BY <2>3, <3>1 DEF SweepInv, IsOpen
  <2>7. linked' \in BOOLEAN
    BY <1>1 DEF PionexInv, CallsTyped
  <2> QED BY <1>1, <2>2, <2>3, <2>6, <2>7, FaultCounts, OrdersEnd
<1>4. CASE venue' = venue
           /\ sweep' = [sweep EXCEPT !.todo = @ \ {m},
                                     !.failed = @ \cup {m}]
  <2>1. PICK t \in [seen : SUBSET OrderIds, todo : SUBSET Markets,
                    failed : SUBSET Markets] :
          /\ t = sweep' /\ t.seen = s.seen /\ t.failed = s.failed \cup {m}
          /\ t.todo = s.todo \ {m}
    <3>1. sweep' = [[s EXCEPT !.todo = s.todo \ {m}]
                      EXCEPT !.failed = s.failed \cup {m}]
      BY <1>2, <1>4
    <3>2. PICK left \in SUBSET Markets, lost \in SUBSET Markets :
            left = s.todo \ {m} /\ lost = s.failed \cup {m}
      OBVIOUS
    <3>3. sweep' = [[s EXCEPT !.todo = left] EXCEPT !.failed = lost]
      BY <3>1, <3>2
    <3>4. PICK u \in [seen : SUBSET OrderIds, todo : SUBSET Markets,
                      failed : SUBSET Markets] :
            /\ u = [s EXCEPT !.todo = left]
            /\ u.seen = s.seen /\ u.todo = left
      <4>1. [s EXCEPT !.todo = left]
              \in [seen : SUBSET OrderIds, todo : SUBSET Markets,
                   failed : SUBSET Markets]
        OBVIOUS
      <4>2. /\ [s EXCEPT !.todo = left].seen = s.seen
            /\ [s EXCEPT !.todo = left].todo = left
        OBVIOUS
      <4> QED BY <4>1, <4>2
    <3>5. sweep' = [u EXCEPT !.failed = lost]
      BY <3>3, <3>4
    <3>6. [u EXCEPT !.failed = lost]
            \in [seen : SUBSET OrderIds, todo : SUBSET Markets,
                 failed : SUBSET Markets]
      OBVIOUS
    <3>7. /\ [u EXCEPT !.failed = lost].seen = u.seen
          /\ [u EXCEPT !.failed = lost].failed = lost
          /\ [u EXCEPT !.failed = lost].todo = u.todo
      OBVIOUS
    <3> QED BY <3>2, <3>4, <3>5, <3>6, <3>7
  <2>2. /\ venue' \in [OrderIds -> [state : {"none", "OPEN", "CLOSED"},
                                    filled : 0..Size]]
        /\ \A x \in OrderIds :
             /\ venue'[x].state = "none" <=> venue[x].state = "none"
             /\ ~IsOpen(x) => venue'[x] = venue[x]
             /\ venue'[x].state = "OPEN" => venue'[x].filled < Size
    BY <1>4 DEF PionexInv, VenueTyped, IsOpen
  <2>3. \A x \in s.seen :
          /\ venue'[x].state # "none"
          /\ venue'[x].state = "OPEN" =>
               MarketOf(x) \in s.failed \cup s.todo
    BY <1>2, <2>2, SeenStay
  <2>4. SweepInv'
    BY <2>1, <2>3 DEF SweepInv, IsOpen
  <2>5. linked' \in BOOLEAN
    BY <1>1 DEF PionexInv, CallsTyped
  <2> QED BY <1>1, <2>1, <2>2, <2>4, <2>5, FaultCounts, OrdersEnd
<1> QED BY <1>3, <1>4 DEF SweepMarket

LEMMA TradeStep ==
  ASSUME PionexInv, NEW x \in OrderIds, TradeLot(x)
  PROVE  PionexInv'
<1>1. /\ IsOpen(x) /\ linked' = linked
      /\ UNCHANGED <<placing, placements, unseen, report, sweep>>
      /\ UNCHANGED pionexFaults
  BY DEF TradeLot
<1>2. PICK n \in 0..Size : n = venue[x].filled /\ n < Size
  BY <1>1 DEF PionexInv, VenueTyped
<1>3. PICK o \in [state : {"none", "OPEN", "CLOSED"}, filled : 0..Size] :
        /\ o = [filled |-> n + 1,
                state |-> IF n + 1 = Size THEN "CLOSED" ELSE "OPEN"]
        /\ o.filled = n + 1 /\ o.state \in {"OPEN", "CLOSED"}
        /\ o.state = "OPEN" => n + 1 # Size
  <2>1. PICK k \in 0..Size : k = n + 1
    BY <1>2, PionexNumbers
  <2>2. PICK to \in {"OPEN", "CLOSED"} :
          /\ to = IF n + 1 = Size THEN "CLOSED" ELSE "OPEN"
          /\ to = "OPEN" => n + 1 # Size
    OBVIOUS
  <2>3. [filled |-> k, state |-> to]
          \in [state : {"none", "OPEN", "CLOSED"}, filled : 0..Size]
    OBVIOUS
  <2> QED BY <2>1, <2>2, <2>3
<1>4. venue' = [venue EXCEPT ![x] = o]
  BY <1>2, <1>3 DEF TradeLot, PionexInv, VenueTyped
<1>5. /\ venue' \in [OrderIds -> [state : {"none", "OPEN", "CLOSED"},
                                  filled : 0..Size]]
      /\ \A y \in OrderIds : venue'[y] = IF y = x THEN o ELSE venue[y]
  BY <1>3, <1>4 DEF PionexInv, VenueTyped
<1>6. ASSUME NEW y \in OrderIds
      PROVE  /\ venue'[y].state = "none" <=> venue[y].state = "none"
             /\ ~IsOpen(y) => venue'[y] = venue[y]
             /\ venue'[y].state = "OPEN" => venue'[y].filled < Size
  <2>1. CASE y = x
    <3>1. n + 1 < Size \/ n + 1 = Size
      BY <1>2, PionexNumbers
    <3> QED BY <1>1, <1>3, <1>5, <2>1, <3>1 DEF IsOpen
  <2>2. CASE y # x
    BY <1>5, <2>2 DEF PionexInv, VenueTyped, IsOpen
  <2> QED BY <2>1, <2>2
<1>7. SweepInv'
  BY <1>1, <1>6, SeenStay DEF SweepInv, IsOpen
<1>8. /\ sweep' \in [seen : SUBSET OrderIds, todo : SUBSET Markets,
                     failed : SUBSET Markets]
      /\ linked' \in BOOLEAN
  BY <1>1 DEF PionexInv, CallsTyped
<1> QED BY <1>1, <1>5, <1>6, <1>7, <1>8, FaultCounts, OrdersEnd

LEMMA NextPionex == PionexInv /\ [PionexNext]_pionexVars => PionexInv'
<1> SUFFICES ASSUME PionexInv, [PionexNext]_pionexVars PROVE PionexInv'
  OBVIOUS
<1>1. CASE ConnectPionex \/ ClosePionex
  BY <1>1, LinkStep
<1>2. ASSUME NEW c \in ClientIds,
             \/ PlaceOrder(c) \/ LookUp(c) \/ CreateOrder(c) \/ ReadBack(c)
             \/ PollOrder(c) \/ CancelOrder(c)
      PROVE  PionexInv'
  BY <1>2, PlaceStep, LookUpStep, CreateStep, ReadStep, CancelStep
<1>3. CASE \E page \in SUBSET Open : BeginSweep(page)
  BY <1>3, SweepBegins
<1>4. CASE \E m \in Markets : SweepMarket(m)
  BY <1>4, SweepGoesOn
<1>5. CASE \E x \in OrderIds : TradeLot(x)
  BY <1>5, TradeStep
<1>6. CASE UNCHANGED pionexVars
  <2>1. /\ linked' \in BOOLEAN
        /\ UNCHANGED <<venue, placing, placements, unseen, report, sweep>>
        /\ UNCHANGED pionexFaults
    BY <1>6 DEF pionexVars, PionexInv, CallsTyped
  <2>2. SweepInv'
    BY <2>1, SameVenue
  <2>3. /\ sweep' \in [seen : SUBSET OrderIds, todo : SUBSET Markets,
                       failed : SUBSET Markets]
        /\ venue' \in [OrderIds -> [state : {"none", "OPEN", "CLOSED"},
                                    filled : 0..Size]]
        /\ \A x \in OrderIds :
             /\ venue'[x].state = "none" <=> venue[x].state = "none"
             /\ ~IsOpen(x) => venue'[x] = venue[x]
             /\ venue'[x].state = "OPEN" => venue'[x].filled < Size
    BY <2>1 DEF PionexInv, CallsTyped, VenueTyped, IsOpen
  <2> QED BY <2>1, <2>2, <2>3, FaultCounts, OrdersEnd
<1> QED BY <1>1, <1>2, <1>3, <1>4, <1>5, <1>6 DEF PionexNext

(* For any symbols, numbers of orders, calls and failures: what the Pionex
   adapter reports as the end of an order is what became of it, an order is
   created once for each lookup that failed and once more, and what
   cancel_all_orders saw open is closed when it returns, unless a request
   failed (pionex.py: place_order, get_order, cancel_all_orders). *)
THEOREM PionexIsTruthful ==
  DecisionsSpec =>
    [](PionexTypeOK /\ FinalIsTrue /\ OncePerClientId /\ SweptIsClosed)
<1>1. DecisionsInit => PionexInv
  BY InitPionex DEF DecisionsInit
<1>2. PionexInv /\ [DecisionsNext]_decisionsVars => PionexInv'
  BY NextPionex, PartsStep
<1>3. PionexInv =>
        PionexTypeOK /\ FinalIsTrue /\ OncePerClientId /\ SweptIsClosed
  <2> SUFFICES ASSUME PionexInv
               PROVE  PionexTypeOK /\ FinalIsTrue /\ OncePerClientId
                        /\ SweptIsClosed
    OBVIOUS
  <2>1. unseen \in [ClientIds -> 0..PionexFaults]
    <3>1. \A c \in ClientIds :
            /\ unseen[c] \in Nat /\ unseen[c] <= pionexFaults
            /\ pionexFaults \in 0..PionexFaults
      BY DEF PionexInv, CallsTyped
    <3>2. \A c \in ClientIds : unseen[c] \in 0..PionexFaults
      BY <3>1, PionexNumbers
    <3> QED BY <3>2 DEF PionexInv, CallsTyped
  <2>2. PionexTypeOK
    BY <2>1 DEF PionexTypeOK, PionexInv, VenueTyped, CallsTyped
  <2>3. OncePerClientId
    BY DEF PionexInv, Once, OncePerClientId
  <2>4. SweptIsClosed
    BY DEF PionexInv, SweepInv, SweptIsClosed
  <2> QED BY <2>2, <2>3, <2>4 DEF PionexInv
<1> QED BY <1>1, <1>2, <1>3, PTL DEF DecisionsSpec

-----------------------------------------------------------------------------
(* The design of grids *)

LEMMA DesignNumbers ==
  /\ \A x \in Ranges \cup GridCloses : x \in Nat /\ x > 0
  /\ \A x \in GridWicks : x \in Nat
  /\ Multiplier \in Nat /\ Leverage \in Nat /\ Leverage > 0
  /\ HoldingBars \in Nat /\ HoldingBars > 0
  /\ FundingBars \in Nat /\ FundingBars > 0
  /\ WindowBars \in Nat /\ WindowBars > 0 /\ OutBars \in Nat /\ OutBars > 0
  /\ Count \in Nat /\ Count > 1
  /\ TakeTicks \in Nat /\ StopTicks \in Nat /\ BreakoutShare \in Nat
  /\ MakerRate \in Nat /\ TakerRate \in Nat /\ SlipRate \in Nat
  /\ FundingRate \in Nat
BY GridDesignAssumption DEF GridDesignAssumption

\* No good component makes up for one at nothing.
LEMMA WeakIsUnfit ==
  ASSUME NEW s \in Settings, IsSuitable(s)
  PROVE  Weakest(s) > 0 /\ s.adx < 30
<1>1. /\ s.atr \in Nat /\ s.adx \in {15, 20, 25, 30, 35}
      /\ s.width \in {0, 6, 15} /\ s.volume \in {50, 100}
      /\ s.funding \in {0, 25, 50} /\ s.gap \in {-20, 0, 20}
  <2>1. s.atr \in Ranges \cup {1, 9}
    BY DEF Settings
  <2>2. s.atr \in Nat
    BY <2>1, DesignNumbers
  <2> QED BY <2>2 DEF Settings
<1>2. \A x \in Int : Clamp(x) \in 0..100 /\ (x <= 0 => Clamp(x) = 0)
  BY DEF Clamp
<1>3. PICK r \in 0..100, v \in 0..100, u \in 0..100, w \in 0..100 :
        /\ r = RangeQuality(s) /\ v = VolatilityQuality(s)
        /\ u = Clamp(s.volume) /\ w = FundingScore(s)
  <2>1. VolatilityQuality(s) \in 0..100
    <3>1. PICK off \in Int : off = 1000 * s.atr - 4150
      BY <1>1
    <3>2. PICK d \in Int :
            d = ((IF off < 0 THEN -off ELSE off) * 100) \div 3850
      BY <3>1
    <3>3. VolatilityQuality(s) = IF s.atr > 8 THEN 0 ELSE Clamp(100 - d)
      BY <3>1, <3>2 DEF VolatilityQuality
    <3> QED BY <1>2, <3>2, <3>3
  <2>2. FundingScore(s) \in 0..100
    <3>1. CASE s.funding >= 50
      BY <3>1 DEF FundingScore
    <3>2. ASSUME ~(s.funding >= 50) PROVE FundingScore(s) \in 0..100
      <4>1. FundingScore(s) = 100 - 2 * s.funding
        BY <3>2 DEF FundingScore
      <4> QED BY <1>1, <3>2, <4>1
    <3> QED BY <3>1, <3>2
  <2>3. RangeQuality(s) \in 0..100
    <3>1. PICK p \in 0..100, q \in 0..100 :
            /\ p = Clamp(100 - 5 * (s.adx - 10))
            /\ q = Clamp(100 - (20 * s.width) \div 3)
      <4>1. 100 - 5 * (s.adx - 10) \in Int
        BY <1>1
      <4>2. 100 - (20 * s.width) \div 3 \in Int
        BY <1>1
      <4> QED BY <1>2, <4>1, <4>2
    <3>2. (p + q) \div 2 \in Int
      OBVIOUS
    <3>3. RangeQuality(s) = Clamp((p + q) \div 2)
      BY <3>1 DEF RangeQuality
    <3> QED BY <1>2, <3>2, <3>3
  <2>4. Clamp(s.volume) \in 0..100
    BY <1>1, <1>2
  <2> QED BY <2>1, <2>2, <2>3, <2>4
<1>4. PICK weak \in {r, v, u, w} :
        weak = Weakest(s) /\ weak <= r /\ weak <= v /\ weak <= u /\ weak <= w
  <2>1. Strengths(s) = <<r, v, u, w>>
    BY <1>3 DEF Strengths
  <2>2. {Strengths(s)[i] : i \in 1..4} = {r, v, u, w}
    <3>1. 1..4 = {1, 2, 3, 4}
      OBVIOUS
    <3> QED BY <2>1, <3>1
  <2>3. PICK m \in {r, v, u, w} : m <= r /\ m <= v /\ m <= u /\ m <= w
    BY <1>3
  <2>4. \A x : (\A i \in 1..4 : x <= Strengths(s)[i]) <=>
                 (x <= r /\ x <= v /\ x <= u /\ x <= w)
    <3>1. 1..4 = {1, 2, 3, 4}
      OBVIOUS
    <3> QED BY <2>1, <3>1
  <2>5. \E x \in {Strengths(s)[i] : i \in 1..4} :
          \A i \in 1..4 : x <= Strengths(s)[i]
    BY <2>2, <2>3, <2>4
  <2>6. /\ Weakest(s) \in {Strengths(s)[i] : i \in 1..4}
        /\ \A i \in 1..4 : Weakest(s) <= Strengths(s)[i]
    BY <2>5 DEF Weakest
  <2> QED BY <2>2, <2>4, <2>6
<1>5. PICK far \in 0..100, risk \in 0..100 :
        far = Clamp(100 - r) /\ risk = BreakoutRisk(s)
  <2>1. PICK d \in Int :
          d = ((IF s.gap < 0 THEN -s.gap ELSE s.gap) * 100) \div 40
    BY <1>1
  <2>2. BreakoutRisk(s) \in 0..100
    BY <1>2, <2>1 DEF BreakoutRisk
  <2> QED BY <1>2, <1>3, <2>2
<1>6. 125 * (r + v + u + w) + 300 * weak - 100 * (far + risk) >= 55000
  <2>1. Strengths(s)[1] = r /\ Strengths(s)[2] = v /\ Strengths(s)[3] = u
        /\ Strengths(s)[4] = w
    BY <1>3 DEF Strengths
  <2>2. Composite(s) = 125 * (r + v + u + w) + 300 * weak
                         - 100 * (Clamp(100 - RangeQuality(s))
                                    + BreakoutRisk(s))
    BY <1>4, <2>1 DEF Composite
  <2>3. RangeQuality(s) = r
    BY <1>3
  <2>4. Composite(s) = 125 * (r + v + u + w) + 300 * weak - 100 * (far + risk)
    BY <1>5, <2>2, <2>3
  <2> QED BY <2>4 DEF IsSuitable
<1>7. weak > 0
  <2>1. /\ r \in Nat /\ v \in Nat /\ u \in Nat /\ w \in Nat
        /\ r <= 100 /\ v <= 100 /\ u <= 100 /\ w <= 100
        /\ far \in Nat /\ risk \in Nat
    OBVIOUS
  <2>2. SUFFICES ASSUME weak = 0 PROVE FALSE
    BY <1>4, <2>1
  <2>3. 125 * (r + v + u + w) - 100 * (far + risk) >= 55000
    BY <1>6, <2>1, <2>2
  <2>4. r + v + u + w >= 440
    BY <2>1, <2>3
  <2>5. r > 0 /\ v > 0 /\ u > 0 /\ w > 0
    BY <2>1, <2>4
  <2> QED BY <1>4, <2>2, <2>5
<1>8. ASSUME s.adx >= 30 PROVE FALSE
  <2>1. 100 - 5 * (s.adx - 10) <= 0
    BY <1>1, <1>8
  <2>2. Clamp(100 - 5 * (s.adx - 10)) = 0
    BY <1>1, <1>2, <2>1
  <2>3. PICK q \in 0..100 : q = Clamp(100 - (20 * s.width) \div 3)
    BY <1>1, <1>2
  <2>4. r = Clamp((0 + q) \div 2)
    BY <1>3, <2>2, <2>3 DEF RangeQuality
  <2>5. r <= 50
    <3>1. PICK half \in 0..50 : half = (0 + q) \div 2
      BY <2>3
    <3> QED BY <2>4, <3>1 DEF Clamp
  <2>6. far >= 50
    BY <1>3, <1>5, <2>5 DEF Clamp
  <2>7. /\ r \in Nat /\ v \in Nat /\ u \in Nat /\ w \in Nat
        /\ v <= 100 /\ u <= 100 /\ w <= 100
        /\ far \in Nat /\ risk \in Nat
    OBVIOUS
  <2>8. weak \in Nat /\ weak <= 50
    BY <1>4, <2>5, <2>7
  <2>9. 125 * (r + v + u + w) <= 43750 /\ 300 * weak <= 15000
        /\ 100 * (far + risk) >= 5000
    BY <2>5, <2>6, <2>7, <2>8
  <2> QED BY <1>6, <2>7, <2>8, <2>9
<1>9. s.adx < 30
  BY <1>1, <1>8
<1> QED BY <1>4, <1>7, <1>9

\* What the numbers of a grid rest on.
IsDesign(g) ==
  /\ g.side \in {-1, 1}
  /\ g.lower \in Int /\ g.upper \in Int /\ g.target \in Int /\ g.stop \in Int

LEMMA BuiltIsDesign ==
  ASSUME NEW d \in {-1, 1}, NEW atr \in Nat
  PROVE  IsDesign(BuildParameters(d, atr))
<1>1. PICK span \in Nat : span = atr * Multiplier
  BY DesignNumbers
<1>2. Higher(Price - atr * Multiplier, Price \div 2) \in Int
  BY <1>1 DEF Higher, Price
<1>3. /\ Price + atr * Multiplier \in Int
      /\ Price + d * TakeTicks \in Int /\ Price - d * StopTicks \in Int
  BY <1>1, DesignNumbers DEF Price
<1> QED BY <1>2, <1>3 DEF IsDesign, BuildParameters

LEMMA LevelsAreInt ==
  ASSUME NEW g, IsDesign(g), NEW i \in Cells
  PROVE  EntryOf(g, i) \in Int /\ ExitOf(g, i) \in Int
<1>1. i \in Nat /\ i + 1 \in Nat
  BY DesignNumbers DEF Cells
<1>2. ASSUME NEW j \in Nat PROVE LevelAt(g, j) \in Int
  <2>1. PICK m \in Int : m = (g.upper - g.lower) * j
    BY DEF IsDesign
  <2>2. PICK n \in Nat \ {0} : n = Count - 1
    BY DesignNumbers
  <2>3. m \div n \in Int
    OBVIOUS
  <2> QED BY <2>1, <2>2, <2>3 DEF LevelAt, IsDesign
<1> QED BY <1>1, <1>2 DEF EntryOf, ExitOf

\* What a grid pays and is paid is a whole number.
LEMMA PricesAreInt ==
  ASSUME NEW g, IsDesign(g), NEW i \in Cells, NEW price \in Int,
         NEW rate \in Nat
  PROVE  /\ Slipped(g, price, TRUE) \in Int /\ Slipped(g, price, FALSE) \in Int
         /\ CloseFees(g, i, price, rate) \in Int
         /\ GrossOf(g, i, price) \in Int
<1>1. PICK e \in Int : e = EntryOf(g, i)
  BY LevelsAreInt
<1>2. Slipped(g, price, TRUE) \in Int /\ Slipped(g, price, FALSE) \in Int
  BY DesignNumbers DEF Slipped, Money
<1>3. CloseFees(g, i, price, rate) \in Int
  <2>1. PICK m \in Int : m = price * rate
    OBVIOUS
  <2>2. m \div Money \in Int
    BY DEF Money
  <2> QED BY <1>1, <2>1, <2>2 DEF CloseFees
<1>4. GrossOf(g, i, price) \in Int
  BY <1>1 DEF GrossOf, IsDesign, Money
<1> QED BY <1>2, <1>3, <1>4

Entry(g) == [i \in Cells |-> EntryOf(g, i)]

LEMMA CellsAreFinite ==
  /\ IsFiniteSet(Cells)
  /\ \A S \in SUBSET Cells : IsFiniteSet(S) /\ Cardinality(S) \in Nat
<1>1. IsFiniteSet(Cells)
  BY FS_Interval, DesignNumbers DEF Cells
<1> QED BY <1>1, FS_Subset, FS_CardinalityType

\* A sum over some cells is a sum of a function of all of them.
LEMMA SumOfSome ==
  ASSUME NEW f, NEW h, NEW S \in SUBSET Cells, DOMAIN f = S,
         \A x \in S : f[x] \in Int /\ f[x] = h[x]
  PROVE  /\ SumFunction(f) = SumFunctionOnSet(h, S)
         /\ SumFunction(f) \in Int
<1>1. SumFunction(f) = SumFunctionOnSet(f, S)
  BY DEF SumFunction
<1> QED BY <1>1, SumSame, SumType, CellsAreFinite

LEMMA EntriesAreSum ==
  ASSUME NEW g, IsDesign(g), NEW S \in SUBSET Cells
  PROVE  /\ EntriesOf(g, S) = SumFunctionOnSet(Entry(g), S)
         /\ EntriesOf(g, S) \in Int
<1> DEFINE f == [i \in S |-> EntryOf(g, i)]
           h == Entry(g)
<1>1. DOMAIN f = S /\ \A x \in S : f[x] \in Int /\ f[x] = h[x]
  BY LevelsAreInt DEF Entry
<1>2. EntriesOf(g, S) = SumFunction(f)
  BY DEF EntriesOf
<1> HIDE DEF f, h
<1>3. SumFunction(f) = SumFunctionOnSet(h, S) /\ SumFunction(f) \in Int
  BY <1>1, SumOfSome
<1> QED BY <1>2, <1>3 DEF h

\* Cells that open and cells that close change what is open by their entries.
LEMMA EntriesMove ==
  ASSUME NEW g, IsDesign(g), NEW S \in SUBSET Cells, NEW T \in SUBSET Cells
  PROVE  /\ S \cap T = {} =>
              EntriesOf(g, S \cup T) = EntriesOf(g, S) + EntriesOf(g, T)
         /\ T \subseteq S =>
              EntriesOf(g, S \ T) = EntriesOf(g, S) - EntriesOf(g, T)
<1> DEFINE h == Entry(g)
<1>1. \A x \in Cells : h[x] \in Int
  BY LevelsAreInt DEF Entry
<1>2. \A U \in SUBSET Cells : EntriesOf(g, U) = SumFunctionOnSet(h, U)
                               /\ EntriesOf(g, U) \in Int
  BY EntriesAreSum
<1> HIDE DEF h
<1>3. \A U, V \in SUBSET Cells : U \cap V = {} =>
        SumFunctionOnSet(h, U \cup V) =
          SumFunctionOnSet(h, U) + SumFunctionOnSet(h, V)
  BY <1>1, SumUnion, CellsAreFinite
<1>4. \A U, V \in SUBSET Cells : U \cap V = {} =>
        EntriesOf(g, U \cup V) = EntriesOf(g, U) + EntriesOf(g, V)
  BY <1>2, <1>3
<1>5. ASSUME T \subseteq S
      PROVE  EntriesOf(g, S \ T) = EntriesOf(g, S) - EntriesOf(g, T)
  <2>1. (S \ T) \cup T = S /\ (S \ T) \cap T = {} /\ S \ T \in SUBSET Cells
    BY <1>5
  <2>2. EntriesOf(g, S) = EntriesOf(g, S \ T) + EntriesOf(g, T)
    BY <1>4, <2>1
  <2> QED BY <1>2, <2>1, <2>2
<1> QED BY <1>4, <1>5

\* What closed cells earn is what they were sold for, less their levels.
LEMMA GrossAddsUp ==
  ASSUME NEW g, IsDesign(g), NEW S \in SUBSET Cells,
         NEW exit, \A i \in S : exit[i] \in Int, DOMAIN exit = S
  PROVE  /\ SumFunction([i \in S |-> GrossOf(g, i, exit[i])]) =
              g.side * (SumFunction(exit) - Money * EntriesOf(g, S))
         /\ SumFunction(exit) \in Int
<1> DEFINE e == [i \in S |-> EntryOf(g, i)]
           n == [i \in S |-> GrossOf(g, i, exit[i])]
<1>1. IsFiniteSet(S)
  BY CellsAreFinite
<1>2. \A i \in S : EntryOf(g, i) \in Int
  BY LevelsAreInt
<1>3. EntriesOf(g, S) = SumFunctionOnSet(e, S)
  BY DEF EntriesOf, SumFunction
<1>4. SumFunction(exit) = SumFunctionOnSet(exit, S)
  BY DEF SumFunction
<1>5. SumFunction(n) = SumFunctionOnSet(n, S)
  BY DEF SumFunction
<1>6. PICK less \in Int, d \in Int : less = -Money /\ d = g.side
  BY DEF Money, IsDesign
<1> DEFINE k == [i \in S |-> less * EntryOf(g, i)]
           m == [i \in S |-> exit[i] + k[i]]
<1>7. \A i \in S : /\ exit[i] \in Int /\ e[i] \in Int
                   /\ k[i] \in Int /\ k[i] = less * e[i]
                   /\ m[i] \in Int /\ m[i] = exit[i] + k[i]
  BY <1>2
<1>8. \A i \in S : n[i] = d * m[i]
  <2> SUFFICES ASSUME NEW i \in S PROVE n[i] = d * m[i]
    OBVIOUS
  <2>1. n[i] = d * (exit[i] - EntryOf(g, i) * Money)
    BY <1>6 DEF GrossOf
  <2>2. exit[i] - EntryOf(g, i) * Money = m[i]
    BY <1>2, <1>6 DEF Money
  <2> QED BY <2>1, <2>2
<1> HIDE DEF e, m, n, k
<1>9. SumFunctionOnSet(k, S) = less * SumFunctionOnSet(e, S)
  BY <1>1, <1>7, SumScale
<1>10. SumFunctionOnSet(m, S) =
         SumFunctionOnSet(exit, S) + SumFunctionOnSet(k, S)
  BY <1>1, <1>7, SumAdds
<1>11. SumFunctionOnSet(n, S) = d * SumFunctionOnSet(m, S)
  BY <1>1, <1>7, <1>8, SumScale
<1>12. SumFunctionOnSet(e, S) \in Int /\ SumFunctionOnSet(exit, S) \in Int
  BY <1>1, <1>7, SumType
<1>13. SumFunctionOnSet(m, S) =
         SumFunctionOnSet(exit, S) - Money * SumFunctionOnSet(e, S)
  BY <1>6, <1>9, <1>10, <1>12 DEF Money
<1> QED BY <1>3, <1>4, <1>5, <1>6, <1>11, <1>12, <1>13 DEF n

\* Cells that are opened are paid at their level and the slip.
LEMMA EntriesPaid ==
  ASSUME NEW g, IsDesign(g), NEW S \in SUBSET Cells
  PROVE  SumFunction([i \in S |-> Slipped(g, EntryOf(g, i), TRUE)]) =
           (Money + g.side * SlipRate) * EntriesOf(g, S)
<1> DEFINE e == [i \in S |-> EntryOf(g, i)]
           b == [i \in S |-> Slipped(g, EntryOf(g, i), TRUE)]
<1>1. IsFiniteSet(S)
  BY CellsAreFinite
<1>2. PICK rate \in Int : rate = Money + g.side * SlipRate
  BY DesignNumbers DEF IsDesign, Money
<1>3. \A i \in S : e[i] \in Int /\ b[i] = rate * e[i]
  <2> SUFFICES ASSUME NEW i \in S PROVE e[i] \in Int /\ b[i] = rate * e[i]
    OBVIOUS
  <2>1. PICK x \in Int : x = e[i] /\ x = EntryOf(g, i)
    BY LevelsAreInt
  <2>2. Money + (IF TRUE = (g.side = 1) THEN SlipRate ELSE -SlipRate) = rate
    BY <1>2, DesignNumbers DEF IsDesign
  <2>3. b[i] = Slipped(g, x, TRUE)
    BY <2>1
  <2>4. b[i] = x * rate
    BY <2>2, <2>3 DEF Slipped
  <2>5. x * rate = rate * x
    OBVIOUS
  <2> QED BY <2>1, <2>4, <2>5
<1>4. EntriesOf(g, S) = SumFunctionOnSet(e, S)
      /\ SumFunction(b) = SumFunctionOnSet(b, S)
  BY DEF EntriesOf, SumFunction
<1> HIDE DEF e, b
<1>5. SumFunctionOnSet(b, S) = rate * SumFunctionOnSet(e, S)
  BY <1>1, <1>3, SumScale
<1> QED BY <1>2, <1>4, <1>5 DEF b

BarsOf(f) == IF f = 1 THEN WindowBars ELSE OutBars

SumsTyped ==
  /\ sums.gross \in Int /\ sums.fees \in Int /\ sums.funding \in Int
  /\ flow.paid \in Int /\ flow.slipped \in Int
  /\ realized \in Int /\ mark \in Int

\* Until it is built there is no grid and nothing to report.
BuiltOnce ==
  IF stage \in {"idle", "judged"}
    THEN /\ grid = NoDesign /\ holding = {}
         /\ sums = NoSums /\ flow = NoFlow /\ realized = 0
    ELSE IsDesign(grid)

DesignInv ==
  /\ DesignTypeOK
  /\ SumsTyped
  /\ BuiltOnce
  /\ stage = "judged" => setting \in Settings
  /\ stage \in {"running", "ended"} => frame \in {1, 2}
  /\ stage = "running" => barNo < BarsOf(frame)
  /\ stage \in {"ended", "done"} => holding = {}
  /\ ReportsItsFills
  /\ EndsWhereLiveEnds

\* What a bar opens and closes is what changes.
LEMMA BarFills ==
  ASSUME IsDesign(grid), holding \subseteq Cells, NEW bar
  PROVE  /\ Filled(bar).new \subseteq Cells /\ Filled(bar).gone \subseteq Cells
         /\ Filled(bar).left \subseteq Cells
         /\ EntriesOf(grid, Filled(bar).left) =
              EntriesOf(grid, holding) - EntriesOf(grid, Filled(bar).gone)
                + EntriesOf(grid, Filled(bar).new)
<1>1. /\ \A S : Opened(bar, S) \subseteq Cells /\ Opened(bar, S) \cap S = {}
      /\ \A S : Cycled(bar, S) \subseteq S
  BY DEF Opened, Cycled
<1>2. /\ \A S, T \in SUBSET Cells : S \cap T = {} =>
           EntriesOf(grid, S \cup T) = EntriesOf(grid, S) + EntriesOf(grid, T)
      /\ \A S, T \in SUBSET Cells : T \subseteq S =>
           EntriesOf(grid, S \ T) = EntriesOf(grid, S) - EntriesOf(grid, T)
      /\ \A S \in SUBSET Cells : EntriesOf(grid, S) \in Int
  BY EntriesMove, EntriesAreSum
<1>3. CASE ClosesFirst(bar)
  <2>1. PICK gone \in SUBSET Cells, new \in SUBSET Cells :
          /\ gone = Cycled(bar, holding) /\ gone \subseteq holding
          /\ new = Opened(bar, holding \ gone)
          /\ new \cap (holding \ gone) = {}
    BY <1>1
  <2>2. /\ Filled(bar).new = new /\ Filled(bar).gone = gone
        /\ Filled(bar).left = (holding \ gone) \cup new
    BY <1>3, <2>1 DEF Filled
  <2>3. EntriesOf(grid, holding \ gone) =
          EntriesOf(grid, holding) - EntriesOf(grid, gone)
    BY <1>2, <2>1
  <2>4. EntriesOf(grid, (holding \ gone) \cup new) =
          EntriesOf(grid, holding \ gone) + EntriesOf(grid, new)
    BY <1>2, <2>1
  <2> QED BY <2>1, <2>2, <2>3, <2>4
<1>4. CASE ~ClosesFirst(bar)
  <2>1. PICK gone \in SUBSET Cells, new \in SUBSET Cells :
          /\ new = Opened(bar, holding) /\ new \cap holding = {}
          /\ gone = Cycled(bar, holding \cup new)
          /\ gone \subseteq holding \cup new
    <3>1. PICK new \in SUBSET Cells :
            new = Opened(bar, holding) /\ new \cap holding = {}
      BY <1>1
    <3>2. PICK gone \in SUBSET (holding \cup new) :
            gone = Cycled(bar, holding \cup new)
      BY <1>1
    <3>3. gone \in SUBSET Cells
      BY <3>1, <3>2
    <3> QED BY <3>1, <3>2, <3>3
  <2>2. /\ Filled(bar).new = new /\ Filled(bar).gone = gone
        /\ Filled(bar).left = (holding \cup new) \ gone
    BY <1>4, <2>1 DEF Filled
  <2>3. EntriesOf(grid, holding \cup new) =
          EntriesOf(grid, holding) + EntriesOf(grid, new)
    BY <1>2, <2>1
  <2>4. EntriesOf(grid, (holding \cup new) \ gone) =
          EntriesOf(grid, holding \cup new) - EntriesOf(grid, gone)
    BY <1>2, <2>1
  <2>5. /\ EntriesOf(grid, holding) \in Int /\ EntriesOf(grid, gone) \in Int
        /\ EntriesOf(grid, new) \in Int
    BY <1>2, <2>1
  <2>6. EntriesOf(grid, Filled(bar).left) =
          EntriesOf(grid, holding) - EntriesOf(grid, gone)
            + EntriesOf(grid, new)
    BY <2>2, <2>3, <2>4, <2>5
  <2> QED BY <2>1, <2>2, <2>6
<1> QED BY <1>3, <1>4

LEMMA BarIsTyped ==
  ASSUME mark \in Int, NEW bar \in GridBars
  PROVE  /\ bar.low \in Int /\ bar.high \in Int /\ bar.close \in Int
         /\ bar.low <= bar.close /\ bar.close <= bar.high
<1>1. PICK c \in GridCloses, w \in GridWicks, v \in GridWicks :
        bar = [open |-> mark, close |-> c,
               low |-> (IF c < mark THEN c ELSE mark) - w,
               high |-> Higher(c, mark) + v]
  BY DEF GridBars
<1>2. c \in Int /\ w \in Nat /\ v \in Nat
  BY DesignNumbers
<1>3. /\ bar.close = c
      /\ bar.low = (IF c < mark THEN c ELSE mark) - w
      /\ bar.high = (IF c > mark THEN c ELSE mark) + v
  BY <1>1 DEF Higher
<1> QED BY <1>2, <1>3

\* Why a backtest ends, where its cells are closed then, and what they pay.
LEMMA BarEnds ==
  ASSUME IsDesign(grid), mark \in Int, barNo \in Nat, NEW bar \in GridBars,
         NEW S \in SUBSET Cells, NEW why, why = CloseReason(bar, S)
  PROVE  /\ ForcedExit(why, bar, S) \in Int
         /\ FundingDue(bar, S) \in Int
         /\ why = "none" =>
              /\ barNo + 1 # BarsOf(frame)
              /\ Violations(grid, bar.close, barNo) = {}
<1>1. /\ bar.low \in Int /\ bar.high \in Int /\ bar.close \in Int
      /\ bar.low <= bar.close /\ bar.close <= bar.high
  BY BarIsTyped
<1>2. PICK n \in Nat : n = Cardinality(S) /\ (S # {} => n > 0)
  <2>1. IsFiniteSet(S) /\ Cardinality(S) \in Nat
    BY CellsAreFinite
  <2> QED BY <2>1, FS_EmptySet
<1>3. S # {} => LiquidationPrice(grid, S) \in Int
  <2> SUFFICES ASSUME S # {} PROVE LiquidationPrice(grid, S) \in Int
    OBVIOUS
  <2>1. PICK e \in Int : e = EntriesOf(grid, S)
    BY EntriesAreSum
  <2>2. PICK share \in Int : share = Leverage - grid.side
    BY DesignNumbers DEF IsDesign
  <2>3. PICK m \in Int : m = e * Money * share
    BY DEF Money
  <2>4. PICK k \in Nat \ {0} : k = n * Leverage
    BY <1>2, DesignNumbers
  <2>5. m \div k \in Int
    OBVIOUS
  <2> QED BY <1>2, <2>1, <2>2, <2>3, <2>4, <2>5 DEF LiquidationPrice
<1>4. why = "liquidation" => S # {}
  BY DEF CloseReason, IsLiquidated
<1>5. ForcedExit(why, bar, S) \in Int
  BY <1>1, <1>3, <1>4 DEF ForcedExit, IsDesign, Money
<1>6. FundingDue(bar, S) \in Int
  <2>1. n * bar.close * FundingRate \in Int
    BY <1>1, DesignNumbers
  <2> QED BY <1>2, <2>1 DEF FundingDue
<1>7. ASSUME why = "none"
      PROVE  /\ barNo + 1 # BarsOf(frame)
             /\ Violations(grid, bar.close, barNo) = {}
  <2>1. /\ ~(grid.side * Best(bar) >= grid.side * grid.target)
        /\ ~(grid.side * Worst(bar) <= grid.side * grid.stop)
        /\ ~(barNo >= HoldingBars)
        /\ ~BrokenOut(grid, bar.close)
        /\ barNo + 1 # BarsOf(frame)
    BY <1>7 DEF CloseReason, BarsOf
  <2>2. /\ ~(grid.side * bar.close <= grid.side * grid.stop)
        /\ ~(grid.side * bar.close >= grid.side * grid.target)
    <3>1. CASE grid.side = 1
      BY <1>1, <2>1, <3>1 DEF Best, Worst, IsDesign
    <3>2. CASE grid.side = -1
      BY <1>1, <2>1, <3>2 DEF Best, Worst, IsDesign
    <3> QED BY <3>1, <3>2 DEF IsDesign
  <2> QED BY <2>1, <2>2 DEF Violations
<1> QED BY <1>5, <1>6, <1>7

LEMMA InitDesign == DesignInit => DesignInv
<1> SUFFICES ASSUME DesignInit PROVE DesignInv
  OBVIOUS
<1>1. EntriesOf(NoDesign, {}) = 0
  <2>1. EntriesOf(NoDesign, {}) =
          SumFunctionOnSet([i \in {} |-> EntryOf(NoDesign, i)], {})
    BY DEF EntriesOf, SumFunction
  <2> QED BY <2>1, SumEmpty
<1>2. ReportsItsFills
  BY <1>1 DEF DesignInit, ReportsItsFills, NoSums, NoFlow, NoDesign, Money
<1>3. DesignTypeOK
  <2>1. 0 \in 0..Higher(WindowBars, OutBars)
    BY DesignNumbers DEF Higher
  <2>2. 0 \in 0..2 /\ FALSE \in BOOLEAN
    OBVIOUS
  <2>3. setting \in Settings \cup {NoSetting}
    BY DEF DesignInit
  <2> QED BY <2>1, <2>2, <2>3 DEF DesignInit, DesignTypeOK
<1>4. SumsTyped /\ BuiltOnce
  BY DEF DesignInit, SumsTyped, BuiltOnce, NoSums, NoFlow
<1>5. EndsWhereLiveEnds
  BY DEF DesignInit, EndsWhereLiveEnds
<1> QED BY <1>2, <1>3, <1>4, <1>5 DEF DesignInit, DesignInv

LEMMA NextBuild ==
  ASSUME DesignInv, NEW strategy \in {"long", "short", "adaptive"},
         Build(strategy)
  PROVE  DesignInv'
<1>1. /\ stage = "judged" /\ stage' = "designed" /\ setting' = NoSetting
      /\ setting \in Settings
      /\ UNCHANGED <<passed, frame, barNo, mark, holding, sums, realized, flow,
                     reason, proof>>
  BY DEF Build, DesignInv
<1>2. PICK d \in {-1, 1} : grid' = BuildParameters(d, setting.atr)
  BY DEF Build, DecideDirection, SuggestedDirection
<1>3. setting.atr \in Nat
  <2>1. setting.atr \in Ranges \cup {1, 9}
    BY <1>1 DEF Settings
  <2> QED BY <2>1, DesignNumbers
<1>4. IsDesign(grid')
  BY <1>2, <1>3, BuiltIsDesign
<1>5. /\ holding = {} /\ sums = NoSums /\ flow = NoFlow /\ realized = 0
  BY <1>1 DEF DesignInv, BuiltOnce
<1>6. EntriesOf(grid', {}) = 0
  <2>1. EntriesOf(grid', {}) =
          SumFunctionOnSet([i \in {} |-> EntryOf(grid', i)], {})
    BY DEF EntriesOf, SumFunction
  <2> QED BY <2>1, SumEmpty
<1>7. ReportsItsFills'
  BY <1>1, <1>4, <1>5, <1>6
     DEF ReportsItsFills, NoSums, NoFlow, IsDesign, Money
<1>8. DesignTypeOK' /\ SumsTyped'
  BY <1>1 DEF DesignInv, DesignTypeOK, SumsTyped
<1>9. BuiltOnce' /\ EndsWhereLiveEnds'
  BY <1>1, <1>4 DEF BuiltOnce, EndsWhereLiveEnds
<1> QED BY <1>1, <1>7, <1>8, <1>9 DEF DesignInv

LEMMA NextBacktestRun ==
  ASSUME DesignInv, NEW open \in GridCloses, RunBacktest(open)
  PROVE  DesignInv'
<1>1. /\ stage \in {"designed", "ended"} /\ stage' = "running"
      /\ frame' \in {1, 2} /\ mark' = open /\ barNo' = 0 /\ holding' = {}
      /\ sums' = NoSums /\ realized' = 0 /\ flow' = NoFlow
      /\ UNCHANGED <<setting, grid, passed, proof>>
  BY DEF RunBacktest
<1>2. IsDesign(grid) /\ grid' = grid
  BY <1>1 DEF DesignInv, BuiltOnce
<1>3. EntriesOf(grid, {}) = 0
  <2>1. EntriesOf(grid, {}) =
          SumFunctionOnSet([i \in {} |-> EntryOf(grid, i)], {})
    BY DEF EntriesOf, SumFunction
  <2> QED BY <2>1, SumEmpty
<1>4. ReportsItsFills'
  BY <1>1, <1>2, <1>3 DEF ReportsItsFills, NoSums, NoFlow, IsDesign, Money
<1>5. DesignTypeOK'
  BY <1>1, DesignNumbers DEF DesignInv, DesignTypeOK, Higher
<1>6. SumsTyped'
  BY <1>1, DesignNumbers DEF SumsTyped, NoSums, NoFlow
<1>7. BuiltOnce' /\ EndsWhereLiveEnds'
  BY <1>1, <1>2 DEF BuiltOnce, EndsWhereLiveEnds
<1>8. barNo' < BarsOf(frame')
  BY <1>1, DesignNumbers DEF BarsOf
<1> QED BY <1>1, <1>4, <1>5, <1>6, <1>7, <1>8 DEF DesignInv

LEMMA NextGridBar ==
  ASSUME DesignInv, NEW bar \in GridBars, GridBar(bar)
  PROVE  DesignInv'
<1>1. /\ stage = "running" /\ IsDesign(grid) /\ holding \subseteq Cells
      /\ barNo \in Nat /\ mark \in Int /\ frame \in {1, 2}
      /\ barNo < BarsOf(frame)
  BY DEF GridBar, DesignInv, BuiltOnce, DesignTypeOK, SumsTyped
<1>2. PICK left \in SUBSET Cells, new \in SUBSET Cells, gone \in SUBSET Cells :
        /\ left = Filled(bar).left /\ new = Filled(bar).new
        /\ gone = Filled(bar).gone
        /\ EntriesOf(grid, left) =
             EntriesOf(grid, holding) - EntriesOf(grid, gone)
               + EntriesOf(grid, new)
  BY <1>1, BarFills
<1>3. PICK why : why = CloseReason(bar, left)
  OBVIOUS
<1>4. /\ ForcedExit(why, bar, left) \in Int
      /\ FundingDue(bar, left) \in Int
      /\ why = "none" =>
           /\ barNo + 1 # BarsOf(frame)
           /\ Violations(grid, bar.close, barNo) = {}
  BY <1>1, <1>3, BarEnds
<1>5. PICK out \in Int, due \in Int :
        out = ForcedExit(why, bar, left) /\ due = FundingDue(bar, left)
  BY <1>4
<1>6. PICK shut \in SUBSET Cells :
        shut = (IF why = "none" THEN {} ELSE left) /\ shut \subseteq left
  <2>1. PICK some : some = IF why = "none" THEN {} ELSE left
    OBVIOUS
  <2>2. some \subseteq left /\ some \in SUBSET Cells
    BY <2>1
  <2> QED BY <2>1, <2>2
<1>7. PICK exit : exit = [i \in gone |-> Slipped(grid, ExitOf(grid, i), FALSE)]
  OBVIOUS
<1> DEFINE
      feesGone == SumFunction([i \in gone |->
                                 CloseFees(grid, i, exit[i], MakerRate)])
      feesShut == SumFunction([i \in shut |->
                                 CloseFees(grid, i, out, TakerRate)])
      paysGone == SumFunction([i \in gone |-> GrossOf(grid, i, exit[i])])
      paysShut == SumFunction([i \in shut |-> GrossOf(grid, i, out)])
      c == SumFunction(exit)
      n == Cardinality(shut) * out
      d == grid.side
      eGone == EntriesOf(grid, gone)
      eShut == EntriesOf(grid, shut)
      eNew == EntriesOf(grid, new)
      eHeld == EntriesOf(grid, holding)
      eLeft == EntriesOf(grid, left \ shut)
<1>8. /\ feesGone \in Int /\ feesShut \in Int /\ c \in Int /\ n \in Int
      /\ paysGone \in Int /\ paysShut \in Int
      /\ paysGone = d * (c - Money * eGone)
      /\ paysShut = d * (n - Money * eShut)
  <2>1. DOMAIN exit = gone /\ \A i \in gone : exit[i] \in Int
    BY <1>1, <1>7, LevelsAreInt, PricesAreInt
  <2>2. paysGone = d * (c - Money * eGone) /\ c \in Int
    BY <1>1, <2>1, GrossAddsUp
  <2>3. paysShut = d * (n - Money * eShut)
    <3>1. PICK same : same = [i \in shut |-> out]
      OBVIOUS
    <3>2. DOMAIN same = shut /\ \A i \in shut : same[i] = out
      BY <3>1
    <3>3. SumFunction([i \in shut |-> GrossOf(grid, i, same[i])]) =
            grid.side * (SumFunction(same) - Money * EntriesOf(grid, shut))
      BY <1>1, <3>2, GrossAddsUp
    <3>4. [i \in shut |-> GrossOf(grid, i, same[i])] =
            [i \in shut |-> GrossOf(grid, i, out)]
      BY <3>2
    <3>5. SumFunction(same) = Cardinality(shut) * out
      BY <3>2, CellsAreFinite, SumConstant DEF SumFunction
    <3> QED BY <3>3, <3>4, <3>5
  <2>4. ASSUME NEW S \in SUBSET Cells, NEW f, DOMAIN f = S,
               \A i \in S : f[i] \in Int
        PROVE  SumFunction(f) \in Int
    BY <2>4, SumOfSome
  <2>5. feesGone \in Int
    <3>1. \A i \in gone : CloseFees(grid, i, exit[i], MakerRate) \in Int
      BY <1>1, <2>1, DesignNumbers, PricesAreInt
    <3> QED BY <2>4, <3>1
  <2>6. feesShut \in Int
    <3>1. \A i \in shut : CloseFees(grid, i, out, TakerRate) \in Int
      BY <1>1, DesignNumbers, PricesAreInt
    <3> QED BY <2>4, <3>1
  <2>7. paysGone \in Int
    <3>1. \A i \in gone : GrossOf(grid, i, exit[i]) \in Int
      BY <1>1, <2>1, DesignNumbers, PricesAreInt
    <3> QED BY <2>4, <3>1
  <2>8. paysShut \in Int
    <3>1. \A i \in shut : GrossOf(grid, i, out) \in Int
      BY <1>1, DesignNumbers, PricesAreInt
    <3> QED BY <2>4, <3>1
  <2>9. n \in Int
    BY CellsAreFinite
  <2> HIDE DEF feesGone, feesShut, paysGone, paysShut, c, n, d, eGone, eShut
  <2> QED BY <2>2, <2>3, <2>5, <2>6, <2>7, <2>8, <2>9
<1>9. SumFunction([i \in new |-> Slipped(grid, EntryOf(grid, i), TRUE)]) =
        (Money + grid.side * SlipRate) * EntriesOf(grid, new)
  BY <1>1, EntriesPaid
<1>10. /\ eGone \in Int /\ eShut \in Int /\ eNew \in Int /\ eHeld \in Int
       /\ eLeft \in Int /\ d \in {-1, 1}
       /\ eLeft = eHeld - eGone + eNew - eShut
  <2>1. /\ eGone \in Int /\ eShut \in Int /\ eNew \in Int /\ eHeld \in Int
        /\ eLeft \in Int
    BY <1>1, EntriesAreSum
  <2>2. eLeft = EntriesOf(grid, left) - eShut
    BY <1>1, <1>6, EntriesMove
  <2>3. d \in {-1, 1}
    BY <1>1 DEF IsDesign
  <2>4. EntriesOf(grid, left) = eHeld - eGone + eNew
    BY <1>2
  <2> HIDE DEF d, eGone, eShut, eNew, eHeld, eLeft
  <2> QED BY <2>1, <2>2, <2>3, <2>4
<1>11. /\ barNo' = barNo + 1 /\ mark' = bar.close
       /\ holding' = left \ shut
       /\ sums'.gross = sums.gross + (paysGone + paysShut)
       /\ sums'.fees = sums.fees + (feesGone + feesShut)
       /\ sums'.funding = sums.funding + due
       /\ realized' = realized + (paysGone + paysShut)
                         - (feesGone + feesShut) - due
       /\ flow'.paid = flow.paid + d * ((c + n)
                          - (Money + d * SlipRate) * eNew)
                          - (feesGone + feesShut) - due
       /\ flow'.slipped = flow.slipped + eNew * SlipRate
       /\ stage' = IF why = "none" THEN "running" ELSE "ended"
       /\ UNCHANGED <<setting, grid, passed, frame, proof>>
  <2>1. gone = Filled(bar).gone /\ left = Filled(bar).left
        /\ new = Filled(bar).new
    BY <1>2
  <2>2. SumFunction([i \in gone |-> Slipped(grid, ExitOf(grid, i), FALSE)]) = c
    BY <1>7
  <2>3. /\ [i \in gone |-> GrossOf(grid, i, exit[i])] =
             [i \in gone |-> GrossOf(grid, i,
                                Slipped(grid, ExitOf(grid, i), FALSE))]
        /\ [i \in gone |-> CloseFees(grid, i, exit[i], MakerRate)] =
             [i \in gone |-> CloseFees(grid, i,
                    Slipped(grid, ExitOf(grid, i), FALSE), MakerRate)]
    BY <1>7
  <2> QED
    BY <1>3, <1>5, <1>6, <1>9, <2>1, <2>2, <2>3 DEF GridBar
<1> HIDE DEF feesGone, feesShut, paysGone, paysShut, c, n, d, eGone, eShut,
             eNew, eHeld, eLeft
<1>12. ReportsItsFills'
  <2>1. /\ realized = flow.paid + flow.slipped + d * eHeld * Money
        /\ realized = sums.gross - sums.fees - sums.funding
    BY DEF DesignInv, ReportsItsFills, d, eHeld
  <2>2. /\ flow.paid \in Int /\ flow.slipped \in Int /\ realized \in Int
        /\ sums.gross \in Int /\ sums.fees \in Int /\ sums.funding \in Int
    BY DEF DesignInv, SumsTyped
  <2>3. PICK costs \in Int, pays \in Int :
          costs = feesGone + feesShut /\ pays = paysGone + paysShut
    BY <1>8
  <2>4. realized + (d * (c - Money * eGone) + d * (n - Money * eShut))
          - costs - due =
          (flow.paid + d * ((c + n) - (Money + d * SlipRate) * eNew)
             - costs - due)
            + (flow.slipped + eNew * SlipRate) + d * eLeft * Money
    <3>1. SlipRate \in Int
      BY DesignNumbers
    <3>2. PICK paid \in Int, slipped \in Int, real \in Int :
            paid = flow.paid /\ slipped = flow.slipped /\ real = realized
      BY <2>2
    <3>3. real = paid + slipped + d * eHeld * Money
      BY <2>1, <3>2
    <3>4. real + (d * (c - Money * eGone) + d * (n - Money * eShut))
            - costs - due =
            (paid + d * ((c + n) - (Money + d * SlipRate) * eNew)
               - costs - due)
              + (slipped + eNew * SlipRate) + d * eLeft * Money
      <4>1. PICK m \in Int : m = SlipRate * eNew /\ m = eNew * SlipRate
        BY <1>10, <3>1
      <4>2. CASE d = 1
        <5>1. (Money + d * SlipRate) * eNew = Money * eNew + m
          BY <1>10, <3>1, <4>1, <4>2 DEF Money
        <5> QED BY <1>8, <1>10, <3>3, <4>1, <4>2, <5>1 DEF Money
      <4>3. CASE d = -1
        <5>1. (Money + d * SlipRate) * eNew = Money * eNew - m
          BY <1>10, <3>1, <4>1, <4>3 DEF Money
        <5> QED BY <1>8, <1>10, <3>3, <4>1, <4>3, <5>1 DEF Money
      <4> QED BY <1>10, <4>2, <4>3
    <3> QED BY <3>2, <3>4
  <2>5. realized' = flow'.paid + flow'.slipped + d * eLeft * Money
    BY <1>8, <1>11, <2>3, <2>4
  <2>6. EntriesOf(grid', holding') = eLeft /\ grid'.side = d
    BY <1>11 DEF eLeft, d
  <2>7. realized' = sums'.gross - sums'.fees - sums'.funding
    BY <1>11, <2>1, <2>2, <2>3
  <2> QED BY <2>5, <2>6, <2>7 DEF ReportsItsFills
<1>13. SumsTyped'
  <2>1. /\ flow.paid \in Int /\ flow.slipped \in Int /\ realized \in Int
        /\ sums.gross \in Int /\ sums.fees \in Int /\ sums.funding \in Int
    BY DEF DesignInv, SumsTyped
  <2>2. eNew * SlipRate \in Int
        /\ d * ((c + n) - (Money + d * SlipRate) * eNew) \in Int
    <3>1. PICK m \in Int : m = (Money + d * SlipRate) * eNew
      BY <1>10, DesignNumbers DEF Money
    <3> QED BY <1>8, <1>10, <3>1, DesignNumbers
  <2>3. bar.close \in Int
    BY <1>1, BarIsTyped
  <2> QED BY <1>8, <1>11, <2>1, <2>2, <2>3 DEF SumsTyped
<1>14. DesignTypeOK'
  <2>1. barNo + 1 \in 0..Higher(WindowBars, OutBars)
    BY <1>1, DesignNumbers DEF BarsOf, Higher
  <2>2. stage' \in {"running", "ended"} /\ left \ shut \subseteq Cells
    BY <1>11
  <2> QED BY <1>11, <2>1, <2>2 DEF DesignTypeOK, DesignInv
<1>15. BuiltOnce'
  BY <1>1, <1>11 DEF BuiltOnce
<1>16. ASSUME why = "none"
       PROVE  /\ barNo' < BarsOf(frame')
              /\ Violations(grid', mark', barNo' - 1) = {}
  <2>1. barNo' - 1 = barNo /\ mark' = bar.close /\ grid' = grid
        /\ frame' = frame
    BY <1>1, <1>11
  <2>2. BarsOf(frame) \in Nat
    BY DesignNumbers DEF BarsOf
  <2> QED BY <1>1, <1>4, <1>11, <1>16, <2>1, <2>2
<1>17. EndsWhereLiveEnds'
  BY <1>11, <1>16 DEF EndsWhereLiveEnds
<1>18. stage' \in {"ended", "done"} => holding' = {}
  BY <1>6, <1>11
<1>19. frame' \in {1, 2} /\ (stage' = "running" => barNo' < BarsOf(frame'))
  BY <1>1, <1>11, <1>16
<1>20. stage' # "judged"
  BY <1>11
<1> QED BY <1>12, <1>13, <1>14, <1>15, <1>17, <1>18, <1>19, <1>20 DEF DesignInv

LEMMA NextDesign == DesignInv /\ [DesignNext]_designVars => DesignInv'
<1> SUFFICES ASSUME DesignInv, [DesignNext]_designVars PROVE DesignInv'
  OBVIOUS
<1>1. CASE UNCHANGED designVars
  BY <1>1 DEF designVars, DesignInv, DesignTypeOK, SumsTyped, BuiltOnce,
              ReportsItsFills, EndsWhereLiveEnds
<1>2. ASSUME NEW s \in Settings, JudgeMarket(s) PROVE DesignInv'
  BY <1>2 DEF JudgeMarket, DesignInv, DesignTypeOK, SumsTyped, BuiltOnce,
              ReportsItsFills, EndsWhereLiveEnds
<1>3. ASSUME NEW ask \in Asks, EvaluateNewGrid(ask) PROVE DesignInv'
  <2>1. passed' \in BOOLEAN
    BY <1>3 DEF EvaluateNewGrid, Approves
  <2> QED
    BY <1>3, <2>1 DEF EvaluateNewGrid, DesignInv, DesignTypeOK, SumsTyped,
              BuiltOnce, ReportsItsFills, EndsWhereLiveEnds
<1>4. ASSUME ValidateOne PROVE DesignInv'
  <2>1. /\ stage = "ended" /\ stage' \in {"ended", "done"}
        /\ proof' \in {proof, proof \cup {frame}}
        /\ UNCHANGED <<setting, grid, passed, frame, barNo, mark, holding,
                       sums, realized, flow, reason>>
    BY <1>4 DEF ValidateOne
  <2>2. frame \in {1, 2}
    BY <2>1 DEF DesignInv
  <2> QED
    BY <2>1, <2>2 DEF DesignInv, DesignTypeOK, SumsTyped, BuiltOnce,
              ReportsItsFills, EndsWhereLiveEnds
<1> QED
  BY <1>1, <1>2, <1>3, <1>4, NextBuild, NextBacktestRun, NextGridBar
     DEF DesignNext

(* For any costs, levels and windows: no grid is designed for a market with
   something against it, what its backtest reports is what its fills paid,
   nothing stays open when it ends, and it ends where the engine would close a
   running grid (grid_suitability.py: compute_grid_suitability,
   grid_simulator.py: run_grid_backtest). *)
THEOREM DesignReportsAddUp ==
  DecisionsSpec =>
    [](/\ DesignTypeOK /\ WeakestVetoes /\ ReportsItsFills
       /\ EndsWhereLiveEnds
       /\ (stage \in {"ended", "done"} => holding = {}))
<1>1. DecisionsInit => DesignInv
  BY InitDesign DEF DecisionsInit
<1>2. DesignInv /\ [DecisionsNext]_decisionsVars => DesignInv'
  BY NextDesign, PartsStep
<1>3. DesignInv =>
        /\ DesignTypeOK /\ WeakestVetoes /\ ReportsItsFills
        /\ EndsWhereLiveEnds
        /\ (stage \in {"ended", "done"} => holding = {})
  BY WeakIsUnfit DEF DesignInv, WeakestVetoes
<1> QED BY <1>1, <1>2, <1>3, PTL DEF DecisionsSpec

-----------------------------------------------------------------------------
(* The indicators *)

(* The indicators say what the market did: the index of strength is a share,
   and 100 only where nothing was lost at last; a market at rest has neither
   position nor direction nor trend; a trend comes with its direction; and a
   backtest reads the last bar as the live feed does. *)
THEOREM IndicatorsAreSound ==
  DecisionsSpec =>
    [](/\ IndicatorsTypeOK
       /\ StrengthIsShare
       /\ RestSaysNothing
       /\ TrendHasDirection
       /\ BacktestSeesLive)
<1>1. DecisionsInit => IndicatorsInv
  BY InitIndicators DEF DecisionsInit
<1>2. IndicatorsInv /\ [DecisionsNext]_decisionsVars => IndicatorsInv'
  BY NextIndicators, PartsStep
<1>3. IndicatorsInv => /\ IndicatorsTypeOK
                       /\ StrengthIsShare
                       /\ RestSaysNothing
                       /\ TrendHasDirection
                       /\ BacktestSeesLive
  BY FeaturesAreSound
<1> QED BY <1>1, <1>2, <1>3, PTL DEF DecisionsSpec

(* What a backtest knew at a bar is not changed by the bars after it, though
   the arrays are computed over the whole series at once
   (_precompute_all_features). *)
THEOREM NothingAhead ==
  DecisionsSpec =>
    [][part = "indicators" /\ series' # series => NoLookAhead]_decisionsVars
<1>1. DecisionsInit => IndicatorsInv
  BY InitIndicators DEF DecisionsInit
<1>2. IndicatorsInv /\ [DecisionsNext]_decisionsVars => IndicatorsInv'
  BY NextIndicators, PartsStep
<1>3. IndicatorsInv /\ [DecisionsNext]_decisionsVars =>
        [part = "indicators" /\ series' # series => NoLookAhead]_decisionsVars
  <2> SUFFICES ASSUME IndicatorsInv, [IndicatorsNext]_indicatorVars,
                      series' # series
               PROVE  NoLookAhead
    BY PartsStep
  <2>1. PICK k \in AllBars : Bar(k)
    BY DEF IndicatorsNext, indicatorVars
  <2> QED BY <2>1, BarsStayKnown
<1> QED BY <1>1, <1>2, <1>3, PTL DEF DecisionsSpec

(* No late step overrides a decision: of the switch, of a spent profile, of
   what is known of a symbol, and of what a backtest knew at a bar. *)
THEOREM DecisionsAreFinal == DecisionsSpec => DecisionsStand
BY NoEntryWhileTripped, SpentProfileIsFinal, GateStaysKnown, NothingAhead, PTL
   DEF DecisionsStand
=============================================================================
