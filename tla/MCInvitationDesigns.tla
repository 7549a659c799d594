-------------------------- MODULE MCInvitationDesigns --------------------------
(***************************************************************************)
(* InvitationDesigns on small instances, with all requests in one process. *)
(* Symmetry is only for the run without a liveness property.               *)
(***************************************************************************)
EXTENDS InvitationDesigns, TLC

Symmetry == Permutations(DesignIds) \cup Permutations(Keys) \cup Permutations(Requests)

OneProcess == [p \in Requests |-> CHOOSE m \in Processes : TRUE]
=============================================================================
