---------------------------- MODULE MCWeddingMedia ----------------------------
(***************************************************************************)
(* WeddingMedia on small instances.  Ids, keys and requests are            *)
(* interchangeable; slots are only compared, but kept as numbers.          *)
(***************************************************************************)
EXTENDS WeddingMedia, TLC

Symmetry == Permutations(MediaIds) \cup Permutations(Keys) \cup Permutations(Requests)
=============================================================================
