---------------------------- MODULE MCPositions ----------------------------
(* Positions for TLC; tasks have roles and symbols a fixed order. *)
EXTENDS Positions, TLC

Traded == CHOOSE s \in Symbols : TRUE
Happened == (opens - Cardinality(Symbols)) + faults + crashes

\* One symbol is traded, or two; with two, or with all three tasks
\* interleaving, there is one opening, fault or restart.
Narrow ==
  \/ Undisturbed /\ Happened <= 1
  \/ /\ \A s \in Symbols \ {Traded} : positions[s] = NoPosition
     /\ \A a \in Tasks : order[a].symbol = Traded
     /\ Undisturbed \/ Happened <= 1
=============================================================================
