------------------------------ MODULE MCSessions ------------------------------
(***************************************************************************)
(* Sessions on a small instance.                                           *)
(***************************************************************************)
EXTENDS Sessions, TLC

Symmetry ==
    Permutations(SessionIds) \cup Permutations(Requests) \cup Permutations(Users \ {Owner})
=============================================================================
