--------------------------- MODULE Reconciliation ----------------------------
(***************************************************************************)
(* The comparison of the books with the positions at the exchange          *)
(* (sgr/reconciliation/engine.py). The books are read, then the exchange   *)
(* is asked, and both go on moving in the meantime. A position is signed:  *)
(* long above zero, short below. The books hold one for a symbol; an       *)
(* exchange may hold a leg on either side.                                 *)
(***************************************************************************)
EXTENDS Integers, FiniteSets

CONSTANTS
  Symbols,   \* the symbols that are traded
  Most,      \* bound on the size of a position
  MaxMoves,  \* bound on trades and bookings
  MaxReports \* bound on runs

ASSUME ReconciliationAssumption ==
  IsFiniteSet(Symbols) /\ {Most, MaxMoves, MaxReports} \subseteq Nat

VARIABLES
  mine,     \* the books
  theirs,   \* the legs at the exchange
  asked,    \* the books as the run read them; none: no run
  report,   \* the result of the last run
  moved,    \* history: symbols that moved since the run began
  moves, reports

reconciliationVars == <<mine, theirs, asked, report, moved, moves, reports>>

NotAsked == [s \in {} |-> 0]

Untold(status) == [status |-> status, found |-> [s \in {} |-> 0]]

Net(legs) == legs.long - legs.short

\* Both legs of one symbol are one key of a dict: the later one is kept.
Kept(legs) ==
  IF legs.long > 0 /\ legs.short > 0 THEN {legs.long, -legs.short}
  ELSE {Net(legs)}

ReconciliationInit ==
  /\ mine = [s \in Symbols |-> 0]
  /\ theirs = [s \in Symbols |-> [long |-> 0, short |-> 0]]
  /\ asked = NotAsked /\ report = Untold("none") /\ moved = {}
  /\ moves = 0 /\ reports = 0

Moves(s) ==
  moves < MaxMoves /\ moves' = moves + 1 /\ moved' = moved \union {s}

\* A fill at the exchange, of the worker's orders or of somebody else's.
Trade(s, legs) ==
  /\ Moves(s) /\ legs # theirs[s]
  /\ theirs' = [theirs EXCEPT ![s] = legs]
  /\ UNCHANGED <<mine, asked, report, reports>>

\* The worker books what it learns of it.
Book(s) ==
  /\ Moves(s) /\ mine[s] # Net(theirs[s])
  /\ mine' = [mine EXCEPT ![s] = Net(theirs[s])]
  /\ UNCHANGED <<theirs, asked, report, reports>>

\* A run reads the books, in live mode only.
ReconcileInternal ==
  /\ asked = NotAsked /\ reports < MaxReports /\ reports' = reports + 1
  /\ asked' = mine /\ moved' = {} /\ report' = Untold("none")
  /\ UNCHANGED <<mine, theirs, moves>>

ReconcileNotLive ==
  /\ asked = NotAsked /\ reports < MaxReports /\ reports' = reports + 1
  /\ report' = Untold("SKIPPED_NOT_LIVE")
  /\ UNCHANGED <<mine, theirs, asked, moved, moves>>

\* What is said of a symbol; the tolerance only absorbs rounding.
Compare(local, remote) ==
  IF local # 0 /\ remote = 0 THEN "MISSING_ON_EXCHANGE"
  ELSE IF local = 0 /\ remote # 0 THEN "MISSING_LOCALLY"
  ELSE IF local # remote THEN "QUANTITY_MISMATCH"
  ELSE "MATCHED"

\* The positions of the exchange come, are compared and reported. That the
\* report cannot be published is logged.
ReconcileCompleted(seen) ==
  /\ asked # NotAsked /\ asked' = NotAsked
  /\ \A s \in Symbols : seen[s] \in Kept(theirs[s])
  /\ LET verdict == [s \in Symbols |-> Compare(asked[s], seen[s])]
     IN report' =
          [status |-> IF \E s \in Symbols : verdict[s] # "MATCHED"
                        THEN "DISCREPANCIES_FOUND" ELSE "CLEAN",
           found |-> verdict]
  /\ UNCHANGED <<mine, theirs, moved, moves, reports>>

\* There is no adapter, or it raises.
ReconcileFails ==
  /\ asked # NotAsked /\ asked' = NotAsked
  /\ report' = Untold("FAILED")
  /\ UNCHANGED <<mine, theirs, moved, moves, reports>>

ReconciliationNext ==
  \/ \E s \in Symbols, l, t \in 0..Most : Trade(s, [long |-> l, short |-> t])
  \/ \E s \in Symbols : Book(s)
  \/ ReconcileInternal
  \/ ReconcileNotLive
  \/ \E seen \in [Symbols -> -Most..Most] : ReconcileCompleted(seen)
  \/ ReconcileFails

ReconciliationTypeOK ==
  /\ mine \in [Symbols -> -Most..Most]
  /\ moved \subseteq Symbols
  /\ report.status \in {"none", "SKIPPED_NOT_LIVE", "FAILED", "CLEAN",
                        "DISCREPANCIES_FOUND"}

-----------------------------------------------------------------------------

(* Whatever else moves while a run waits for the exchange, what it says of a
   symbol that stands still is right: matched exactly if books and exchange
   have the same, and one of them missing exactly if it has nothing. Only of a
   symbol held on both sides at the exchange it sees one leg. *)
StillSymbolsAreRight ==
  [][asked # NotAsked /\ report'.status \in {"CLEAN", "DISCREPANCIES_FOUND"} =>
       \A s \in Symbols \ moved :
         theirs[s].long = 0 \/ theirs[s].short = 0 =>
           /\ report'.found[s] = "MATCHED" <=> mine[s] = Net(theirs[s])
           /\ report'.found[s] = "MISSING_LOCALLY" =>
                mine[s] = 0 /\ Net(theirs[s]) # 0
           /\ report'.found[s] = "MISSING_ON_EXCHANGE" =>
                mine[s] # 0 /\ Net(theirs[s]) = 0]_reconciliationVars

(* A run that finds everything in order compared every symbol, and each that
   differs now has moved since it began or is held on both sides. *)
CleanIsClean ==
  report.status = "CLEAN" =>
    \A s \in Symbols \ moved :
      \/ mine[s] = Net(theirs[s])
      \/ theirs[s].long > 0 /\ theirs[s].short > 0

(* A run always comes to a result, whatever the exchange does. *)
RunsEnd == asked # NotAsked ~> asked = NotAsked

\* A call of the adapter comes back or times out.
ReconciliationFairness ==
  WF_reconciliationVars(
    ReconcileFails
      \/ \E seen \in [Symbols -> -Most..Most] : ReconcileCompleted(seen))

ReconciliationSpec ==
  /\ ReconciliationInit /\ [][ReconciliationNext]_reconciliationVars
  /\ ReconciliationFairness
=============================================================================
