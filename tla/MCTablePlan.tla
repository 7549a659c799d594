------------------------------ MODULE MCTablePlan ------------------------------
(***************************************************************************)
(* TablePlan on small instances.  The ids of guests, tables and requests   *)
(* are interchangeable; table numbers and seats are ordered.               *)
(***************************************************************************)
EXTENDS TablePlan, TLC

Symmetry ==
    Permutations(Guests) \cup Permutations(TableIds) \cup Permutations(Requests)
=============================================================================
