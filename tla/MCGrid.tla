------------------------------- MODULE MCGrid -------------------------------
(* Grid for TLC; grids are opened in the order of their ids. *)
EXTENDS Grid, TLC
=============================================================================
