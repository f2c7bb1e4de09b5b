------------------------ MODULE MCSharedSubscription ------------------------
(***************************************************************************)
(* Two finite instances of SharedSubscription: a behaviour is one of a     *)
(* group whose query reads a window, with one commit, a departing client   *)
(* and a failing execution, or one of a group without retained result,     *)
(* with two commits and a LISTEN connection that breaks.  The constants    *)
(* are those of the second.                                                *)
(***************************************************************************)
EXTENDS SharedSubscription

VARIABLE windowed

Window == INSTANCE SharedSubscription WITH
    RetainSnapshot <- TRUE, MaxDrops <- 0, MaxLeaves <- 1, MaxFailures <- 1
OneCommit == db'.commits <= 1

SubscriptionsInit == windowed \in BOOLEAN /\ IF windowed THEN Window!Init ELSE Init
SubscriptionsNext == windowed' = windowed /\ IF windowed THEN Window!Next /\ OneCommit ELSE Next

\* The goroutine that runs the group goes on.
SubscriptionsSpec ==
    /\ SubscriptionsInit /\ [][SubscriptionsNext]_<<windowed, vars>>
    /\ WF_vars(IF windowed THEN Window!Runner ELSE Runner)

\* Without failures and without a retained result, a client keeps the view of
\* its revision, and once everything is delivered shows what the query returns.
ViewExact == TypeOK /\ (windowed \/ ViewMatchesRevision)
ViewFresh == windowed \/ SettledFresh
=============================================================================
