-------------------------- MODULE MCChangeMatching --------------------------
(***************************************************************************)
(* ChangeMatching for a list of one workspace's tasks.                     *)
(***************************************************************************)
EXTENDS ChangeMatching

Spec == MatchingInit /\ [][MatchingNext]_matchVars
=============================================================================
