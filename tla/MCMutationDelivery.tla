------------------------- MODULE MCMutationDelivery -------------------------
(***************************************************************************)
(* Finite instances of MutationDelivery.  Tabs and sources are             *)
(* interchangeable.                                                        *)
(***************************************************************************)
EXTENDS MutationDelivery, TLC

Symmetry == Permutations(Client) \cup Permutations(Source)
=============================================================================
