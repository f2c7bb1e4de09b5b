---- MODULE MCRuntime ----
(***************************************************************************)
(* What runs inside and beside a runtime process: the supervisor and its   *)
(* workers, the database budget, the pools of tenant stores, the LISTEN    *)
(* connections of tenants, and scheduled jobs (a runtime of the new        *)
(* release, one of the old, and small job sets).  The parts share no state *)
(* that two of them change: a behaviour is one of a single part, and       *)
(* leaves the rest alone.                                                  *)
(***************************************************************************)
EXTENDS WorkerSupervision, ConnectionBudget, TenantStores, TenantListeners, Scheduler, TLC

CONSTANTS newRuntime, oldRuntime, jobA, cronA

VARIABLE part

connectionVars == <<supervisionVars, budgetVars, storeVars, listenerVars>>
runtimeVars == <<part, connectionVars, jobVars>>

\* One call needs connections of two pools at once.
MCNeeds == "c1" :> <<"p">> @@ "c2" :> <<"q">> @@ "c3" :> <<"p", "q">> @@ "c4" :> <<"r">>
MCTenantOf == "g" :> "t" @@ "s" :> "t" @@ "h" :> "t2"
\* A cron with a stagger, a one-shot that is due at once, and an occurrence
\* left in the mixed queue.
Staggered == [c \in Cron |-> 1]
AtOnce == [j \in OneShot |-> 0]
OldCron == {<<cronA, 0>>}

Init ==
    /\ part \in {"workers", "budget", "stores", "listeners", "jobs"}
    /\ SupervisionInit /\ BudgetInit /\ JobsInit
    /\ StoresInit /\ (part # "stores" => routed = CHOOSE u \in Url : TRUE)
    /\ ListenersInit /\ (part # "listeners" => route = [t \in ListenTenant |-> CHOOSE r \in Route : TRUE])

\* The step A of the scheduler, and nothing else.
Jobs(A) == part = "jobs" /\ A /\ UNCHANGED <<part, connectionVars>>
NotJobs == UNCHANGED <<part, jobVars>>

\* The supervisor, the scheduler of goroutines and the timers go on.
Progress ==
    \/ part = "workers" /\ SupervisionProgress /\ UNCHANGED <<budgetVars, storeVars, listenerVars>> /\ NotJobs
    \/ part = "budget" /\ BudgetProgress /\ UNCHANGED <<supervisionVars, storeVars, listenerVars>> /\ NotJobs
    \/ part = "stores" /\ StoresProgress /\ UNCHANGED <<supervisionVars, budgetVars, listenerVars>> /\ NotJobs
    \/ part = "listeners" /\ ListenersProgress /\ UNCHANGED <<supervisionVars, budgetVars, storeVars>> /\ NotJobs

Next ==
    \/ part = "workers" /\ SupervisionNext /\ UNCHANGED <<budgetVars, storeVars, listenerVars>> /\ NotJobs
    \/ part = "budget" /\ BudgetNext /\ UNCHANGED <<supervisionVars, storeVars, listenerVars>> /\ NotJobs
    \/ part = "stores" /\ StoresNext /\ UNCHANGED <<supervisionVars, budgetVars, listenerVars>> /\ NotJobs
    \/ part = "listeners" /\ ListenersNext /\ UNCHANGED <<supervisionVars, budgetVars, storeVars>> /\ NotJobs
    \/ Jobs(JobsNext)

\* Every loop of the scheduler goes on, functions return, time passes and what
\* nobody works under any more lapses.
JobsFairness ==
    /\ \A r \in Runtime :
        /\ WF_runtimeVars(Jobs(DispatchStep(r))) /\ WF_runtimeVars(Jobs(Restart(r)))
        /\ WF_runtimeVars(Jobs(\E e \in Executing(r) : ExecuteStep(e)))
        /\ WF_runtimeVars(Jobs(CommitJobs(r) \/ \E j \in OneShot : PublishJobs(r, j)))
    /\ WF_runtimeVars(Jobs(AbandonedLapses)) /\ WF_runtimeVars(Jobs(Tick))

Spec == Init /\ [][Next]_runtimeVars /\ WF_runtimeVars(Progress) /\ JobsFairness

\* EveryJobCompletes of the behaviours in which the scheduler runs at all.
JobsComplete == <>[](part = "jobs" => JobsDone)
\* Nobody waits for good: a gateway without worker gets one, calls get their
\* connections and pools, an unused listener is closed, a queued job is done.
EveryoneServed == ServesAgain /\ CallsEnd /\ AskersAnswered /\ IdleIsClosed /\ JobsComplete

====
