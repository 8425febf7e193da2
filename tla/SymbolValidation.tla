-------------------------- MODULE SymbolValidation --------------------------
(***************************************************************************)
(* Which strategy may trade a symbol: the batch script tries every         *)
(* candidate strategy on a symbol's history and writes its findings row by *)
(* row (strategy/symbol_validation_runner.py); the worker, a process of    *)
(* its own, reads the best rows now and then (strategy/symbol_gate.py) and *)
(* lets only their strategies signal (strategy/engine.py).  The module     *)
(* looks at one symbol.                                                    *)
(***************************************************************************)
EXTENDS Naturals, FiniteSets

CONSTANTS
  Candidates,        \* registered strategies
  Nobody,            \* NO_STRATEGY_SENTINEL; in the gate: none may trade
  Batches,           \* batch ids
  MaxScore,          \* scores of passing strategies are 1..MaxScore
  ValidationRuns,    \* bound on starts of the script
  ValidationFaults,  \* bound on what fails: loader, backtest, database
  ValidationStops    \* bound on kills of the script and worker restarts

ASSUME ValidationConstants ==
  /\ Nobody \notin Candidates
  /\ "unknown" \notin Candidates \cup {Nobody}
  /\ MaxScore \in Nat \ {0}
  /\ {ValidationRuns, ValidationFaults, ValidationStops} \subseteq Nat

VARIABLES
  result,      \* strategy_symbol_validations: rows of each batch
  batchRun,    \* where the script stands with the symbol
  allowed,     \* _active_strategy_by_symbol of the symbol, or Unknown
  stale,       \* the gate's map is older than 15 minutes
  signalled,   \* the last signal: who gave it, and did the gate know?
  tally,       \* runs, faults and stops so far
  rerun,       \* batches run again with --no-resume (history)
  broken,      \* batches a killed or failing run left rows in (history)
  ended        \* batches a run came to the end of (history)

validationVars == <<result, batchRun, allowed, stale, signalled, tally,
                    rerun, broken, ended>>

table == <<result, rerun, broken, ended>>
gateState == <<allowed, stale, signalled>>

Unknown == "unknown"
NoScore == MaxScore + 1   \* NULL, which DESC puts first
NoResult == [status |-> "none", best |-> FALSE, score |-> NoScore]
Statuses == {"none", "validated_but_not_active", "active",
             "no_valid_strategy", "insufficient_data", "invalid_data",
             "technical_failure"}
NoRun == [at |-> "idle", batch |-> CHOOSE b \in Batches : TRUE,
          left |-> {}, tried |-> {}, best |-> Nobody, score |-> 0]

ValidationInit ==
  /\ result = [b \in Batches |-> [k \in Candidates \cup {Nobody} |-> NoResult]]
  /\ batchRun = NoRun
  /\ allowed = Unknown /\ stale = TRUE
  /\ signalled = [by |-> Nobody, known |-> FALSE]
  /\ tally = [runs |-> 0, faults |-> 0, stops |-> 0]
  /\ rerun = {} /\ broken = {} /\ ended = {}

CountOne(what, bound) ==
  /\ tally[what] < bound
  /\ tally' = [tally EXCEPT ![what] = @ + 1]

MayFail == CountOne("faults", ValidationFaults)

BestOf(b) == {k \in DOMAIN result[b] : result[b][k].best}

\* Deviation: as before the repair, any row counts.
Processed_Deviation(b) == \E k \in DOMAIN result[b] : result[b][k] # NoResult

\* get_processed_symbols: a row that is best, not any row, is the end.
Processed(b) == BestOf(b) # {}

-----------------------------------------------------------------------------
(***************************************************************************)
(* The batch script                                                        *)
(***************************************************************************)

\* upsert replaces the row of the strategy, its best flag included.
Upsert(b, k, status, best, score) ==
  result' = [result EXCEPT ![b][k] =
               [status |-> status, best |-> best, score |-> score]]

\* The script starts with or without --no-resume; with it, a symbol that has
\* its result is passed over.
RunBatch(b, resume) ==
  /\ batchRun.at = "idle"
  /\ CountOne("runs", ValidationRuns)
  /\ IF resume /\ Processed(b)
     THEN ended' = ended \cup {b} /\ UNCHANGED <<batchRun, rerun>>
     ELSE /\ batchRun' = [NoRun EXCEPT !.at = "load", !.batch = b]
          /\ rerun' = rerun \cup {c \in {b} : Processed(b)}
          /\ UNCHANGED ended
  /\ UNCHANGED <<result, broken, gateState>>

\* The run of a symbol ends with a row for no strategy.
EndWithout(status) ==
  /\ Upsert(batchRun.batch, Nobody, status, TRUE, NoScore)
  /\ ended' = ended \cup {batchRun.batch}
  /\ batchRun' = NoRun

\* What matters of a symbol's history: is it long enough, in order with sane
\* prices, without too many gaps, and which strategies suit its regimes?
Histories ==
  [long : BOOLEAN, sound : BOOLEAN, gappy : BOOLEAN, suits : SUBSET Candidates]

\* assess_data_quality
Quality(h) ==
  IF h.long /\ ~h.sound THEN "invalid_data"
  ELSE IF ~h.long \/ h.gappy THEN "insufficient_data"
  ELSE "ok"

Load(h) ==
  /\ batchRun.at = "load"
  /\ \/ Quality(h) # "ok" /\ EndWithout(Quality(h))
     \/ Quality(h) = "ok" /\ h.suits = {} /\ EndWithout("no_valid_strategy")
     \/ /\ Quality(h) = "ok" /\ h.suits # {}
        /\ batchRun' = [batchRun EXCEPT !.at = "try", !.left = h.suits]
        /\ UNCHANGED <<result, ended>>
  /\ UNCHANGED <<rerun, broken, tally, gateState>>

\* score_validation: only what passes the gates has a score.
Passes(score) == score > 0

\* A candidate is optimized and backtested; its row is not best, also if it
\* was in an earlier run.
TryCandidate(k, score) ==
  /\ batchRun.at = "try"
  /\ k \in batchRun.left
  /\ Upsert(batchRun.batch, k,
            IF Passes(score) THEN "validated_but_not_active"
                             ELSE "no_valid_strategy", FALSE, score)
  /\ batchRun' =
       LET better == batchRun.best = Nobody \/ score > batchRun.score
       IN [batchRun EXCEPT !.left = @ \ {k}, !.tried = @ \cup {k},
                           !.best = IF better THEN k ELSE @,
                           !.score = IF better THEN score ELSE @]
  /\ UNCHANGED <<rerun, broken, ended, tally, gateState>>

ClearBest ==
  /\ batchRun.at = "try"
  /\ batchRun.left = {}
  /\ result' = [result EXCEPT ![batchRun.batch] =
                  [k \in DOMAIN @ |-> [@[k] EXCEPT !.best = FALSE]]]
  /\ batchRun' = [batchRun EXCEPT !.at = "mark"]
  /\ UNCHANGED <<rerun, broken, ended, tally, gateState>>

MarkBest ==
  /\ batchRun.at = "mark"
  /\ Upsert(batchRun.batch, batchRun.best,
            IF Passes(batchRun.score) THEN "active" ELSE "no_valid_strategy",
            TRUE, batchRun.score)
  /\ ended' = ended \cup {batchRun.batch}
  /\ batchRun' = NoRun
  /\ UNCHANGED <<rerun, broken, tally, gateState>>

\* The loader, a backtest or a statement raises: the row of a technical
\* failure is written, if that does not fail as well.
RunFails ==
  /\ batchRun.at \in {"load", "try", "mark"}
  /\ MayFail
  /\ \/ EndWithout("technical_failure")
     \/ batchRun' = NoRun /\ UNCHANGED <<result, ended>>
  /\ broken' = broken \cup {batchRun.batch}
  /\ UNCHANGED <<rerun, gateState>>

KillScript ==
  /\ batchRun.at # "idle"
  /\ CountOne("stops", ValidationStops)
  /\ batchRun' = NoRun
  /\ broken' = broken \cup {batchRun.batch}
  /\ UNCHANGED <<result, rerun, ended, gateState>>

-----------------------------------------------------------------------------
(***************************************************************************)
(* The worker                                                              *)
(***************************************************************************)

\* get_best_by_symbol returns the best rows of all batches by falling score,
\* NULL first; of those of a symbol the last one stays in the map.
BestRows ==
  {x \in Batches \X (Candidates \cup {Nobody}) : result[x[1]][x[2]].best}

Mapped ==
  IF BestRows = {} THEN {Unknown}
  ELSE {IF result[x[1]][x[2]].status = "active" THEN x[2] ELSE Nobody :
          x \in {y \in BestRows : \A z \in BestRows :
                   result[y[1]][y[2]].score <= result[z[1]][z[2]].score}}

\* The strategies that may signal: all of them without a result.
Allowed(who) == IF who = Unknown THEN Candidates ELSE {who} \ {Nobody}

\* A bar is evaluated: the gate is read again when it is stale, which may
\* fail and leaves the old map; what is allowed may give a signal.
Evaluate ==
  /\ \E fails \in BOOLEAN :
       /\ IF fails THEN stale /\ MayFail ELSE UNCHANGED tally
       /\ IF stale /\ ~fails
          THEN allowed' \in Mapped /\ stale' = FALSE
          ELSE UNCHANGED <<allowed, stale>>
  /\ \E k \in Allowed(allowed') \cup {Nobody} :
       signalled' = [by |-> k, known |-> allowed' # Unknown]
  /\ UNCHANGED <<table, batchRun>>

BecomeStale ==
  /\ ~stale
  /\ stale' = TRUE
  /\ UNCHANGED <<table, batchRun, allowed, signalled, tally>>

\* A new worker knows nothing until it has read the table.
RestartGate ==
  /\ CountOne("stops", ValidationStops)
  /\ allowed' = Unknown /\ stale' = TRUE
  /\ signalled' = [by |-> Nobody, known |-> FALSE]
  /\ UNCHANGED <<table, batchRun>>

-----------------------------------------------------------------------------
ValidationNext ==
  \/ \E b \in Batches, resume \in BOOLEAN : RunBatch(b, resume)
  \/ \E h \in Histories : Load(h)
  \/ \E k \in Candidates, score \in 0..MaxScore : TryCandidate(k, score)
  \/ ClearBest
  \/ MarkBest
  \/ RunFails
  \/ KillScript
  \/ Evaluate
  \/ BecomeStale
  \/ RestartGate

ValidationSpec == ValidationInit /\ [][ValidationNext]_validationVars

-----------------------------------------------------------------------------
ValidationTypeOK ==
  /\ result \in [Batches -> [Candidates \cup {Nobody} ->
       [status : Statuses, best : BOOLEAN, score : 0..NoScore]]]
  /\ batchRun.at \in {"idle", "load", "try", "mark"}
  /\ {batchRun.left, batchRun.tried} \subseteq SUBSET Candidates
  /\ allowed \in {Unknown, Nobody} \cup Candidates
  /\ stale \in BOOLEAN

(* "only one row per symbol is best": it holds within a batch, through kills,
   failures and resumed runs.  A run with --no-resume that ends without a
   strategy leaves the best row of the run before. *)
OneBestPerBatch ==
  \A b \in Batches \ rerun : Cardinality(BestOf(b)) <= 1

(* A batch whose run came to its end has a result, whatever was killed before:
   symbols are not passed over for the rows of their candidates. *)
EndedHasResult == \A b \in ended \ rerun : BestOf(b) # {}

(* The strategy a batch activates passed its backtest, and none of those
   tried with it scored higher; if any passed, one is activated. *)
WinnerIsBest ==
  \A b \in Batches \ (rerun \cup broken), k \in Candidates :
    result[b][k].best =>
      /\ \A j \in Candidates : result[b][j] # NoResult =>
           result[b][j].score <= result[b][k].score
      /\ result[b][k].status = "active" <=>
           \E j \in Candidates : result[b][j].status \in
             {"active", "validated_but_not_active"}

(* A worker that knows the result of a symbol does not fall back to allowing
   everything: neither while a batch is written nor when a read fails. *)
StaysKnown ==
  allowed # Unknown /\ rerun' = {} =>
    allowed' # Unknown \/ tally'.stops > tally.stops

(* A signal comes from a strategy that some batch activated for the symbol,
   unless the worker has not read a result yet. *)
SignalIsValidated ==
  signalled.by # Nobody /\ signalled.known /\ rerun = {} =>
    \E b \in Batches : /\ result[b][signalled.by].best
                       /\ result[b][signalled.by].status = "active"
                       /\ result[b][signalled.by].score > 0
=============================================================================
