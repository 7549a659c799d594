------------------------------ MODULE MCWedding ------------------------------
(***************************************************************************)
(* Wedding on small instances.  The ids of guests, invitations, tables and *)
(* requests are interchangeable; numbers and seats are ordered.            *)
(***************************************************************************)
EXTENDS Wedding, TLC

Symmetry ==
    Permutations(Guests) \cup Permutations(Invitations)
        \cup Permutations(Tables) \cup Permutations(Requests)
=============================================================================
