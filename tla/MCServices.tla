---- MODULE MCServices ----
(***************************************************************************)
(* The services beside the data path (the errors inbox, the log, the       *)
(* alerts, the ephemeral keys and the client's signals), the form in which *)
(* a result reaches a client (which changes a query's result matches, the  *)
(* patch of a result, the partitions of a shared result), and the rollout  *)
(* of a deploy.  No two of them change the same state: a behaviour is one  *)
(* of a single part, and leaves the rest alone.                            *)
(***************************************************************************)
EXTENDS ErrorTracking, RuntimeLogs, RuntimeAlerts, EphemeralState, ClientSignals,
        ChangeMatching, KeyedPatch, VisibilityPartitions, DeployRollout, TLC

VARIABLE part

resultVars == <<matchVars, patchVars, visVars>>
serviceVars == <<part, errorVars, logVars, alertVars, ephemeralVars, signalVars, resultVars, rolloutVars>>

\* Three reports, two of them in one group but of different releases.
MCFingerprint == <<1, 1, 2>>
MCReleaseOf == <<"a", "b", "a">>
MCKindOf == <<"failed", "mutation", "ok", "mutation">>
\* The effect writes a signal that what it reads depends on.
MCFormula == 3 :> <<1, 2, 1>> @@ 4 :> <<3, 1, 2>> @@ 5 :> <<1, 4, 3>>
MCTarget == 5 :> 2
\* A row without ID, and three with IDs, of which two have two texts.
MCRows == {[id |-> i, text |-> 0] : i \in 0..3} \cup {[id |-> i, text |-> 1] : i \in 1..2}

\* Bundle 1 is active and has one tenant migration; bundle 2 adds a table, a
\* tenant migration without transaction and a landlord migration; bundle 3
\* edits a migration that has been applied.
Migration(name, edition, scope, tx) ==
    [name |-> name, edition |-> edition, scope |-> scope, tx |-> tx]
BundleMigs(b) ==
    CASE b = 1 -> {Migration(1, 1, "tenant", TRUE)}
      [] b = 2 -> {Migration(1, 1, "tenant", TRUE), Migration(2, 1, "tenant", FALSE),
                   Migration(3, 1, "landlord", TRUE)}
      [] b = 3 -> {Migration(1, 2, "tenant", TRUE)}
BundleSchema(b) == IF b = 2 THEN 2 ELSE 1

Init ==
    /\ part \in {"errors", "logs", "alerts", "ephemeral", "signals",
                 "matching", "patch", "visibility", "deploy"}
    /\ ErrorInit /\ (part # "errors" => durable)
    /\ LogInit /\ AlertInit /\ EphemeralInit /\ SignalInit /\ DeployInit
    /\ MatchingInit /\ (part # "matching" => kind = CHOOSE k \in Kinds : TRUE)
    /\ (part # "matching" => tasks = [t \in Task |-> None0] /\ links = [l \in Link |-> None0])
    /\ VisibilityInit
    /\ (part # "visibility" => /\ keyOf = [u \in Member |-> CHOOSE k \in VisKey : TRUE]
                               /\ content = [k \in Keys |-> {}])
    /\ IF part = "patch" THEN PatchInit ELSE before = Nothing /\ after = Nothing /\ rebuilt = Nothing

NotErrors == UNCHANGED <<part, logVars, alertVars, ephemeralVars, signalVars, resultVars, rolloutVars>>
NotLogs == UNCHANGED <<part, errorVars, alertVars, ephemeralVars, signalVars, resultVars, rolloutVars>>
NotAlerts == UNCHANGED <<part, errorVars, logVars, ephemeralVars, signalVars, resultVars, rolloutVars>>
NotEphemeral == UNCHANGED <<part, errorVars, logVars, alertVars, signalVars, resultVars, rolloutVars>>
NotSignals == UNCHANGED <<part, errorVars, logVars, alertVars, ephemeralVars, resultVars, rolloutVars>>
NotResults == UNCHANGED <<part, errorVars, logVars, alertVars, ephemeralVars, signalVars, rolloutVars>>
NotDeploy == UNCHANGED <<part, errorVars, logVars, alertVars, ephemeralVars, signalVars, resultVars>>

Next ==
    \/ part = "errors" /\ ErrorNext /\ NotErrors
    \/ part = "logs" /\ LogNext /\ NotLogs
    \/ part = "alerts" /\ AlertNext /\ NotAlerts
    \/ part = "ephemeral" /\ EphemeralNext /\ NotEphemeral
    \/ part = "signals" /\ SignalNext /\ NotSignals
    \/ part = "matching" /\ MatchingNext /\ UNCHANGED <<patchVars, visVars>> /\ NotResults
    \/ part = "patch" /\ SendPatch /\ UNCHANGED <<matchVars, visVars>> /\ NotResults
    \/ part = "visibility" /\ VisibilityNext /\ UNCHANGED <<matchVars, patchVars>> /\ NotResults
    \/ part = "deploy" /\ DeployNext /\ NotDeploy

Spec == Init /\ [][Next]_serviceVars
\* What the operator is shown: the log agrees with its table, its streams and
\* the inbox, and alerts keep their cooldowns.
DiagnosticsSound == LogsSound /\ CooldownsKept

\* State outside the database: listings show what lives, signals what is true.
LiveStateShown == ListShowsLasting /\ SignalsSound

\* The client ends with the result of the query: the change that alters it is
\* not passed over, its patch rebuilds it, and it is the listener's own.
ResultsArrive == FreshUnlessExcused /\ PatchRebuilds /\ OwnRowsShown

====
