----------------------------- MODULE RuntimeAlerts -----------------------------
(***************************************************************************)
(* The alerts of a runtime (telegram_alerts.go): observations of the CPU,  *)
(* of slow updates and of slow operations become messages, at most one of  *)
(* a kind in a cooldown, in a bounded queue that one goroutine sends from. *)
(***************************************************************************)
EXTENDS Integers, Sequences, FiniteSets, SequencesExt

CONSTANTS OpKey,         \* project, tenant, kind and path of an operation
          Cooldown,
          AlertQueue,    \* telegramAlertQueueSize
          KeyLimit,      \* telegramSlowOperationKeyLimit
          MaxTime, MaxObservations

ASSUME RuntimeAlertsAssumption == {Cooldown, AlertQueue, KeyLimit} \subseteq Nat \ {0}

Never == -Cooldown
Subjects == OpKey \cup {"cpu", "recovered", "ttlu"}

VARIABLES
    time,
    cpuActive, cpuLast, ttluLast,
    opLast,        \* operationLastSentAt: a function on the keys it holds
    alerts,        \* the queue: what each message is about
    enqueuedAt,    \* of a subject: when a message about it was last queued
    burst,         \* subjects of which two messages were queued within a cooldown
    silenced,      \* operations that the last observation should have reported, and did not
    observations

alertVars == <<time, cpuActive, cpuLast, ttluLast, opLast, alerts, enqueuedAt, burst, silenced, observations>>

QueueHasRoom == Len(alerts) < AlertQueue
\* enqueue: a full queue drops the message.
EnqueueAlert(s) ==
    IF QueueHasRoom
    THEN /\ alerts' = Append(alerts, s)
         /\ enqueuedAt' = [enqueuedAt EXCEPT ![s] = time]
         /\ burst' = IF time - enqueuedAt[s] < Cooldown THEN burst \cup {s} ELSE burst
    ELSE UNCHANGED <<alerts, enqueuedAt, burst>>
Quiet == UNCHANGED <<alerts, enqueuedAt, burst>>

Observing ==
    /\ observations < MaxObservations /\ observations' = observations + 1
    /\ UNCHANGED time

\* observeCPU, at or above the threshold
CpuHigh ==
    /\ Observing
    /\ IF ~cpuActive \/ time - cpuLast >= Cooldown
       THEN cpuActive' = TRUE /\ cpuLast' = time /\ EnqueueAlert("cpu")
       ELSE UNCHANGED <<cpuActive, cpuLast>> /\ Quiet
    /\ silenced' = {} /\ UNCHANGED <<ttluLast, opLast>>
\* below it
CpuLow ==
    /\ Observing
    /\ cpuActive' = FALSE
    /\ IF cpuActive THEN EnqueueAlert("recovered") ELSE Quiet
    /\ silenced' = {} /\ UNCHANGED <<cpuLast, ttluLast, opLast>>

\* observeTTLU: one cooldown for all queries
SlowUpdate ==
    /\ Observing
    /\ IF time - ttluLast < Cooldown THEN Quiet /\ UNCHANGED ttluLast
       ELSE ttluLast' = time /\ EnqueueAlert("ttlu")
    /\ silenced' = {} /\ UNCHANGED <<cpuActive, cpuLast, opLast>>

Recent == [k \in {j \in DOMAIN opLast : time - opLast[j] < Cooldown} |-> opLast[k]]
Noted(f, k, t) == [j \in DOMAIN f \cup {k} |-> IF j = k THEN t ELSE f[j]]
\* An operation whose key is not in the table and that no limit excludes is reported.
Withheld(k) == IF time - enqueuedAt[k] >= Cooldown /\ Cardinality(DOMAIN Recent) < KeyLimit /\ QueueHasRoom
                  /\ enqueuedAt'[k] # time
               THEN {k} ELSE {}

\* observeSlowOperation: the key is looked up, expired keys are pruned, and the
\* key is remembered if the message fitted into the queue.
SlowOperation(k) ==
    /\ Observing
    /\ IF k \in DOMAIN Recent THEN Quiet /\ UNCHANGED opLast
       ELSE IF Cardinality(DOMAIN Recent) >= KeyLimit THEN Quiet /\ opLast' = Recent
       ELSE IF QueueHasRoom THEN opLast' = Noted(Recent, k, time) /\ EnqueueAlert(k)
       ELSE opLast' = Recent /\ Quiet
    /\ silenced' = Withheld(k) /\ UNCHANGED <<cpuActive, cpuLast, ttluLast>>

\* run: an error of send is logged, the message is gone.
SendAlert ==
    /\ alerts # <<>> /\ alerts' = Tail(alerts)
    /\ UNCHANGED <<time, cpuActive, cpuLast, ttluLast, opLast, enqueuedAt, burst, silenced, observations>>
AlertTick ==
    /\ time < MaxTime /\ time' = time + 1 /\ silenced' = {}
    /\ UNCHANGED <<cpuActive, cpuLast, ttluLast, opLast, alerts, enqueuedAt, burst, observations>>

-----------------------------------------------------------------------------
AlertInit ==
    /\ time = 0 /\ cpuActive = FALSE /\ cpuLast = Never /\ ttluLast = Never /\ opLast = <<>>
    /\ alerts = <<>> /\ enqueuedAt = [s \in Subjects |-> Never] /\ burst = {} /\ silenced = {}
    /\ observations = 0

AlertNext ==
    \/ CpuHigh \/ CpuLow \/ SlowUpdate \/ SendAlert \/ AlertTick
    \/ \E k \in OpKey : SlowOperation(k)

-----------------------------------------------------------------------------
\* Two messages about one operation, or about slow updates, are a cooldown apart,
\* also when expired keys are pruned, the table is full and messages are dropped
\* (observeSlowOperation, observeTTLU).  The CPU alert is exempt: every recovery
\* rearms it.
AlertsSpaced == burst \subseteq {"cpu", "recovered"}

\* A slow operation is withheld only by a message about it that was really queued
\* less than a cooldown ago, or by a limit: one that the full queue dropped does
\* not start a cooldown (enqueue's result guards operationLastSentAt).
DroppedIsRetried == silenced = {}

\* A cooldown follows every message that was queued, and nothing else.
CooldownsKept == AlertsSpaced /\ DroppedIsRetried
================================================================================
