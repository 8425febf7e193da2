---------------------------- MODULE StrategyGate ----------------------------
(***************************************************************************)
(* Which strategies of a worker trade: StrategyRegistry in the worker's    *)
(* memory, the strategies table, the start of the worker (api/main.py)     *)
(* with validation, operator override, activation and recovery, and the    *)
(* API, another process that writes the table at any time.                 *)
(***************************************************************************)
EXTENDS Naturals, FiniteSets

CONSTANTS
  Strategies,   \* strategies of the code
  GridOnes,     \* of these, subclasses of GridTradingStrategy
  GateFaults,   \* bound on failing database calls and backtests
  GateStarts,   \* bound on starts of the worker
  GateRequests  \* bound on the API's requests

ASSUME GateConstants ==
  /\ GridOnes \subseteq Strategies
  /\ {GateFaults, GateStarts, GateRequests} \subseteq Nat

VARIABLES
  phase,        \* where the worker stands in its start
  todo,         \* strategies this phase still has to deal with
  forced,       \* STRATEGY_FORCE_ACTIVATE of this start
  active,       \* entries with is_active
  validated,    \* entries with is_validated
  override,     \* entries with is_operator_override
  rowActive,    \* rows with is_active
  rowValid,     \* rows with is_validated
  trial,        \* strategy whose backtest runs, with the row and entry active
  touched,      \* rows the API wrote since the start began (history)
  unsaved,      \* rows this start could not read or write (history)
  gateCount     \* faults, starts, requests so far

entries == <<active, validated, override>>
rows == <<rowActive, rowValid>>
gateVars == <<phase, todo, forced, entries, rows, trial, touched,
              unsaved, gateCount>>

Phases == {"down", "validate", "override", "activate", "names", "recover",
           "up"}

\* The worker ran before, without a validated strategy: the rows exist.
GateInit ==
  /\ phase = "down"
  /\ todo = {} /\ forced = {}
  /\ active = {} /\ validated = {} /\ override = {}
  /\ rowActive = {} /\ rowValid = {}
  /\ trial = {} /\ touched = {} /\ unsaved = {}
  /\ gateCount = [faults |-> 0, starts |-> 0, requests |-> 0]

Counts(what, bound) ==
  /\ gateCount[what] < bound
  /\ gateCount' = [gateCount EXCEPT ![what] = @ + 1]

\* A set with s in it, or without.
With(set, s, in) == IF in THEN set \cup {s} ELSE set \ {s}

\* The worker starts: every strategy registers, inactive; the operator may
\* name strategies to force.
StartGate(names) ==
  /\ phase = "down"
  /\ Counts("starts", GateStarts)
  /\ phase' = "validate"
  /\ todo' = Strategies
  /\ forced' = names
  /\ active' = {} /\ validated' = {} /\ override' = {}
  /\ touched' = {} /\ unsaved' = {}
  /\ UNCHANGED <<rows, trial>>

\* The entry of s, and its row if the database works.  A row that could not be
\* written may say something else than the entry from now on.
WriteActive(s, on) ==
  /\ active' = With(active, s, on)
  /\ \/ /\ rowActive' = With(rowActive, s, on)
        /\ unsaved' = unsaved \ {s}
        /\ UNCHANGED gateCount
     \/ /\ Counts("faults", GateFaults)
        /\ unsaved' = unsaved \cup {s}
        /\ UNCHANGED rowActive

\* The backtest of s takes the active strategies of the registry: s is
\* activated for it, in its row too.
BeginTrial(s) ==
  /\ phase = "validate" /\ s \in todo \ GridOnes
  /\ trial = {}
  /\ trial' = {s}
  /\ todo' = todo \ {s}
  /\ WriteActive(s, TRUE)
  /\ UNCHANGED <<phase, forced, validated, override, rowValid, touched>>

\* The verdict on s: it may go live or not. A backtest that breaks off leaves
\* s as it was, not validated.
MarkValidated(s) == validated' \in {validated, validated \cup {s}}

\* Deviation: the strategy stays active after its backtest.
EndTrial_Deviation(s) ==
  /\ s \in trial
  /\ trial' = {}
  /\ MarkValidated(s)
  /\ UNCHANGED <<phase, todo, forced, active, override, rows, touched,
                 unsaved, gateCount>>

\* It passes or not, or breaks off with an exception: it is deactivated again
\* in any case.
EndTrial(s) ==
  /\ s \in trial
  /\ trial' = {}
  /\ WriteActive(s, FALSE)
  /\ MarkValidated(s)
  /\ UNCHANGED <<phase, todo, forced, override, rowValid, touched>>

\* A grid strategy is tried on loaded candles, without the registry.
ValidateGrid(s) ==
  /\ phase = "validate" /\ trial = {}
  /\ todo \subseteq GridOnes /\ s \in todo
  /\ todo' = todo \ {s}
  /\ \/ MarkValidated(s) /\ UNCHANGED gateCount
     \/ Counts("faults", GateFaults) /\ UNCHANGED validated
  /\ UNCHANGED <<phase, forced, active, override, rows, trial, touched,
                 unsaved>>

\* On to the next phase and its strategies.
GoOn(from, to, next) ==
  /\ phase = from /\ todo = {} /\ trial = {}
  /\ phase' = to
  /\ todo' = next
  /\ UNCHANGED <<forced, entries, rows, trial, touched, unsaved, gateCount>>

\* The override of one named strategy; a database that fails here ends the
\* start of the worker.
ForceActivate(s) ==
  /\ phase = "override" /\ s \in todo
  /\ validated' = validated \cup {s}
  /\ override' = override \cup {s}
  /\ \/ /\ rowValid' = rowValid \cup {s}
        /\ todo' = todo \ {s}
        /\ UNCHANGED <<phase, gateCount>>
     \/ /\ Counts("faults", GateFaults)
        /\ phase' = "down"
        /\ todo' = {}
        /\ UNCHANGED rowValid
  /\ UNCHANGED <<forced, active, rowActive, trial, touched, unsaved>>

\* activate and deactivate of the registry, for the next of this phase.
SetActive(s, on) ==
  /\ todo' = todo \ {s}
  /\ WriteActive(s, on)
  /\ UNCHANGED <<phase, forced, validated, override, rowValid, trial,
                 touched>>

\* The lifespan activates what is validated by now.
ActivateValidated(s) ==
  /\ phase = "activate" /\ s \in todo
  /\ SetActive(s, TRUE)

\* Recovery reads the names of the active rows; if that fails it gives up.
ReadNames ==
  /\ phase = "names"
  /\ \/ phase' = "recover" /\ todo' = rowActive
        /\ UNCHANGED <<unsaved, gateCount>>
     \/ /\ Counts("faults", GateFaults)
        /\ phase' = "up"
        /\ todo' = {}
        /\ unsaved' = Strategies
  /\ UNCHANGED <<forced, entries, rows, trial, touched>>

\* Deviation: an active row is enough.
Recovered_Deviation(s) == TRUE

\* Does recovery activate a strategy that was active?
Recovered(s) == s \in validated

\* Deviation: a strategy that did not pass is passed over.
Recover_Deviation(s) ==
  /\ phase = "recover" /\ s \in todo
  /\ IF Recovered(s) THEN SetActive(s, TRUE)
     ELSE /\ todo' = todo \ {s}
          /\ UNCHANGED <<phase, forced, entries, rows, trial, touched,
                         unsaved, gateCount>>

\* A name that did not pass is deactivated, in its row too.
Recover(s) ==
  /\ phase = "recover" /\ s \in todo
  /\ SetActive(s, Recovered(s))

\* A request of the API: activation wants a validated row.
ApiActivate(s) ==
  /\ s \in rowValid
  /\ Counts("requests", GateRequests)
  /\ rowActive' = rowActive \cup {s}
  /\ touched' = touched \cup {s}
  /\ UNCHANGED <<phase, todo, forced, entries, rowValid, trial, unsaved>>

ApiDeactivate(s) ==
  /\ Counts("requests", GateRequests)
  /\ rowActive' = rowActive \ {s}
  /\ touched' = touched \cup {s}
  /\ UNCHANGED <<phase, todo, forced, entries, rowValid, trial, unsaved>>

\* The worker dies.
StopGate ==
  /\ phase # "down"
  /\ phase' = "down"
  /\ todo' = {}
  /\ trial' = {}
  /\ active' = {} /\ validated' = {} /\ override' = {}
  /\ UNCHANGED <<forced, rows, touched, unsaved, gateCount>>

GateNext ==
  \/ \E names \in SUBSET Strategies : StartGate(names)
  \/ \E s \in Strategies :
       \/ BeginTrial(s) \/ EndTrial(s) \/ ValidateGrid(s) \/ ForceActivate(s)
       \/ ActivateValidated(s) \/ Recover(s)
       \/ ApiActivate(s) \/ ApiDeactivate(s)
  \/ GoOn("validate", "override", forced)
  \/ GoOn("override", "activate", validated)
  \/ GoOn("activate", "names", {})
  \/ ReadNames
  \/ GoOn("recover", "up", {})
  \/ StopGate

GateSpec == GateInit /\ [][GateNext]_gateVars

-----------------------------------------------------------------------------
GateTypeOK ==
  /\ phase \in Phases
  /\ {todo, forced, active, validated, override, rowActive, rowValid,
      trial, touched, unsaved} \subseteq SUBSET Strategies
  /\ gateCount.faults \in 0..GateFaults
  /\ gateCount.starts \in 0..GateStarts
  /\ gateCount.requests \in 0..GateRequests

(* The go-live gate: no strategy trades that did not pass validation in this
   process, or was forced in this start, but for the one whose backtest runs;
   what the table says from earlier starts, and what the API writes meanwhile,
   cannot change that. *)
ActiveIsValidated == active \ trial \subseteq validated

(* When the worker is up, the rows say what the worker does, unless they could
   not be read or written or the API wrote them since the start began. *)
TableSaysWhatTrades ==
  phase = "up" =>
    \A s \in Strategies \ (touched \cup unsaved) :
      s \in rowActive <=> s \in active
=============================================================================
