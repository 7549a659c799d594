--------------------------- MODULE MCInvitationCards ---------------------------
(***************************************************************************)
(* InvitationCards on a small instance.                                    *)
(***************************************************************************)
EXTENDS InvitationCards, TLC

Symmetry == Permutations(Links) \cup Permutations(Requests)
=============================================================================
