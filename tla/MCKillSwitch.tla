---- MODULE MCKillSwitch ----
(* KillSwitch for TLC: operations of one kind are interchangeable. *)
EXTENDS KillSwitch, TLC
Symmetry == Permutations(ApiTriggers) \cup Permutations(ApiResets)
              \cup Permutations(WorkerTriggers)
====
