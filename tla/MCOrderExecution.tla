-------------------------- MODULE MCOrderExecution --------------------------
(* Model values and symmetry for the runs of OrderExecution. *)
EXTENDS OrderExecution, TLC

\* Calls are interchangeable, and so are orders: no action names one.  Sound
\* for the safety runs only.
Symmetry == Permutations(Calls) \cup Permutations(Orders)

=============================================================================
