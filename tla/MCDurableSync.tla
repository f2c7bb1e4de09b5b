---------------------------- MODULE MCDurableSync ----------------------------
(***************************************************************************)
(* Two collections: A holds table a, B holds table b and its handler also  *)
(* reads a.  Either the tab opens one of them and everything may happen to *)
(* it, or both are up to date and commits reach them without a failure.    *)
(***************************************************************************)
EXTENDS DurableSync

MCSource == [A |-> "a", B |-> "b"]
MCVisibility == [A |-> {}, B |-> {"a"}]
MCFaultLimit == [f \in Fault |-> 1]

Alone == Cardinality(opened) = 1

Init == (SyncInit /\ Alone) \/ UpToDate

Next == Commit \/ Progress \/ (Alone /\ Failure)

\* The processes of the runtime and of the tab all go on; nothing they do by
\* themselves repeats for ever, so that it is enough that one of them moves.
SyncFairness == WF_syncVars(Progress)

Spec == Init /\ [][Next]_syncVars /\ SyncFairness
=============================================================================
