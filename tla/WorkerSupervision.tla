--------------------------- MODULE WorkerSupervision ---------------------------
(***************************************************************************)
(* The gateway and its recyclable runtime workers (supervisor.go,          *)
(* cmd/gonvex-runtime/main.go, ws_drain.go): requests pick the active      *)
(* worker, the supervisor replaces it after a sync that loaded a bundle or *)
(* after it died, and stops the old one in stages.                         *)
(*                                                                         *)
(* Timers are abstracted to actions that may happen while what they bound  *)
(* goes on; the drain window of the worker ends before the drain timeout   *)
(* of the supervisor (12 s and 20 s by default).                           *)
(***************************************************************************)
EXTENDS Integers, FiniteSets

CONSTANTS MaxWorkers,  \* bound on worker processes
          Request, Socket,  \* requests of the gateway; those that are websockets
          MaxCrashes, MaxRecycles  \* bounds on crashes and syncs

None == 0
Worker == 1..MaxWorkers

ASSUME WorkerSupervisionAssumption ==
    /\ MaxWorkers \in Nat \ {0} /\ Socket \subseteq Request
    /\ {MaxCrashes, MaxRecycles} \subseteq Nat

VARIABLES
    proc,      \* of a worker: "unused", "starting", "serving", "ending", "dead"
    crashed,   \* workers that died by themselves or never became ready
    draining,  \* worker.draining
    drained,   \* workers whose drained channel is closed
    active,    \* Supervisor.active
    recycle,   \* the recycle channel holds a token
    exits,     \* workers in the exits channel
    loop,      \* where the run loop is: [at, stop, old, then]
    closing,   \* the context of the supervisor is cancelled
    req,       \* of a request: [at, w]
    busy,      \* sockets with a mutation or action in flight
    snap,      \* of a worker: "no", "due" or the sockets its drain closes
    late,      \* workers stopped although a request was on them
    recycles

supervisorVars == <<active, recycle, exits, loop, closing>>
workerVars == <<proc, crashed, snap>>
drainVars == <<draining, drained>>
supervisionVars == <<proc, crashed, draining, drained, active, recycle, exits, loop, closing, req, busy,
          snap, late, recycles>>

Held(w) == {r \in Request : req[r].at \in {"checked", "proxied", "open"} /\ req[r].w = w}
Live(w) == proc[w] \in {"starting", "serving", "ending"}

\* release: the last request of a draining worker closes its channel.
Release(w, held) == drained' = IF w \in draining /\ held = {} THEN drained \cup {w} ELSE drained
LeaveWorker(r, at) ==
    /\ req' = [req EXCEPT ![r].at = at]
    /\ busy' = busy \ {r}
    /\ Release(req[r].w, Held(req[r].w) \ {r})
    /\ UNCHANGED draining

-----------------------------------------------------------------------------
(* Handler: a request. *)

Load(r) ==
    /\ req[r].at = "new"
    /\ req' = [req EXCEPT ![r] = [at |-> IF active = None THEN "refused" ELSE "loaded",
                                  w |-> active]]
    /\ UNCHANGED <<supervisorVars, workerVars, drainVars, busy, late, recycles>>

AcquireAnyway(r) ==
    /\ req[r].at = "loaded" /\ req' = [req EXCEPT ![r].at = "checked"]
    /\ UNCHANGED <<supervisorVars, workerVars, drainVars, busy, late, recycles>>
\* acquire: not a worker that drains.
Acquire(r) ==
    /\ req[r].at = "loaded"
    /\ req' = [req EXCEPT ![r].at = IF req[r].w \in draining THEN "new" ELSE "checked"]
    /\ UNCHANGED <<supervisorVars, workerVars, drainVars, busy, late, recycles>>

\* Is the worker still the active one?
CheckAgain(r) ==
    /\ req[r].at = "checked"
    /\ IF active = req[r].w
       THEN req' = [req EXCEPT ![r].at = "proxied"] /\ UNCHANGED <<drainVars, busy>>
       ELSE LeaveWorker(r, "new")
    /\ UNCHANGED <<supervisorVars, workerVars, late, recycles>>

\* The worker accepts the connection unless it is shutting down or dead.
Reach(r) ==
    /\ req[r].at = "proxied"
    /\ IF proc[req[r].w] = "serving"
       THEN req' = [req EXCEPT ![r].at = "open"] /\ UNCHANGED <<drainVars, busy>>
       ELSE LeaveWorker(r, "refused")
    /\ UNCHANGED <<supervisorVars, workerVars, late, recycles>>

\* The answer is there, or the client of a socket leaves.
Finish(r) ==
    /\ req[r].at = "open" /\ Live(req[r].w) /\ LeaveWorker(r, "done")
    /\ UNCHANGED <<supervisorVars, workerVars, late, recycles>>
\* The response of a sync that loaded a new module passes the proxy.
SyncAnswered(r) ==
    /\ r \notin Socket /\ req[r].at = "open" /\ Live(req[r].w)
    /\ recycles < MaxRecycles /\ recycles' = recycles + 1
    /\ recycle' = TRUE
    /\ UNCHANGED <<active, exits, loop, closing, workerVars, drainVars, req, busy, late>>

\* A mutation or an action starts or ends on a socket (writesInFlight).
Write(r) ==
    /\ r \in Socket /\ req[r].at = "open"
    /\ busy' = IF r \in busy THEN busy \ {r} ELSE busy \cup {r}
    /\ UNCHANGED <<supervisorVars, workerVars, drainVars, req, late, recycles>>

\* The worker is gone: the proxy gives up.
Cut(r) ==
    /\ req[r].at = "open" /\ proc[req[r].w] = "dead" /\ LeaveWorker(r, "cut")
    /\ UNCHANGED <<supervisorVars, workerVars, late, recycles>>

-----------------------------------------------------------------------------
(* A worker. *)

Exit(w) == proc' = [proc EXCEPT ![w] = "dead"] /\ exits' = exits \cup {w}

Crash(w) ==
    /\ Live(w) /\ Cardinality(crashed) < MaxCrashes
    /\ crashed' = crashed \cup {w} /\ Exit(w)
    /\ UNCHANGED <<active, recycle, loop, closing, drainVars, req, busy, snap, late, recycles>>

\* DrainWebSockets: the connections there are when it starts.
TakeSnapshot(w) ==
    /\ proc[w] = "serving" /\ snap[w].at = "due"
    /\ snap' = [snap EXCEPT ![w] =
                   [at |-> "taken", of |-> {r \in Socket : req[r].at = "open" /\ req[r].w = w}]]
    /\ UNCHANGED <<supervisorVars, proc, crashed, drainVars, req, busy, late, recycles>>

\* closeForRestart, for an idle connection when its turn comes.
CloseIdle(w, r) ==
    /\ proc[w] = "serving" /\ r \in snap[w].of \ busy
    /\ snap' = [snap EXCEPT ![w].of = @ \ {r}]
    /\ IF req[r].at = "open" THEN LeaveWorker(r, "restart") ELSE UNCHANGED <<drainVars, req, busy>>
    /\ UNCHANGED <<supervisorVars, proc, crashed, late, recycles>>

\* At the end of the window the busy ones are closed as well.
WindowOver(w) ==
    /\ proc[w] = "serving" /\ snap[w].at = "taken" /\ snap[w].of \subseteq busy
    /\ snap' = [snap EXCEPT ![w] = [at |-> "over", of |-> {}]]
    /\ req' = [r \in Request |-> IF r \in snap[w].of THEN [req[r] EXCEPT !.at = "restart"] ELSE req[r]]
    /\ busy' = busy \ snap[w].of
    /\ Release(w, Held(w) \ snap[w].of) /\ UNCHANGED draining
    /\ UNCHANGED <<supervisorVars, proc, crashed, late, recycles>>

\* After the interrupt server.Shutdown waits for what is not hijacked.
ShutDown(w) ==
    /\ proc[w] = "ending" /\ Held(w) \subseteq Socket /\ Exit(w)
    /\ UNCHANGED <<crashed, snap, active, recycle, loop, closing, drainVars, req, busy, late,
                   recycles>>

-----------------------------------------------------------------------------
(* The run loop of the supervisor. *)

Go(at) == loop' = [loop EXCEPT !.at = at]
Begin(old) == loop' = [at |-> "replace", stop |-> None, old |-> old, then |-> "select"]
\* stopWorker begins by draining; it may be called for no worker.
Stop(w, then) ==
    IF w = None THEN Go(then) /\ UNCHANGED drainVars
    ELSE /\ loop' = [at |-> "grace", stop |-> w, old |-> loop.old, then |-> then]
         /\ draining' = draining \cup {w}
         /\ drained' = IF Held(w) = {} THEN drained \cup {w} ELSE drained

SelectRecycle ==
    /\ loop.at = "select" /\ recycle /\ recycle' = FALSE /\ Begin(active)
    /\ UNCHANGED <<active, exits, closing, workerVars, drainVars, req, busy, late, recycles>>

\* Only the exit of the active worker is unexpected.
SelectExit ==
    /\ loop.at = "select"
    /\ \E w \in exits :
        /\ exits' = exits \ {w}
        /\ IF active = w THEN active' = None /\ Begin(None) ELSE UNCHANGED <<active, loop>>
    /\ UNCHANGED <<recycle, closing, workerVars, drainVars, req, busy, late, recycles>>

SelectClose ==
    /\ loop.at = "select" /\ closing
    /\ active' = None /\ Stop(active, "closed")
    /\ UNCHANGED <<recycle, exits, closing, workerVars, req, busy, late, recycles>>

\* startWorker; a supervisor that is closed meanwhile starts none.
StartWorker ==
    /\ loop.at = "replace"
    /\ IF closing THEN Go("select") /\ UNCHANGED proc
       ELSE \E w \in Worker :
              /\ proc[w] = "unused" /\ \A v \in 1..w - 1 : proc[v] # "unused"
              /\ proc' = [proc EXCEPT ![w] = "starting"]
              /\ loop' = [at |-> "waiting", stop |-> w, old |-> loop.old, then |-> loop.then]
    /\ UNCHANGED <<crashed, snap, active, recycle, exits, closing, drainVars, req, busy, late,
                   recycles>>

\* waitForReadiness succeeds: the new worker is the active one, then the old
\* one is drained and stopped.
BecomesReady ==
    /\ loop.at = "waiting" /\ proc[loop.stop] = "starting"
    /\ proc' = [proc EXCEPT ![loop.stop] = "serving"]
    /\ active' = loop.stop
    /\ Stop(loop.old, "select")
    /\ UNCHANGED <<crashed, snap, recycle, exits, closing, req, busy, late, recycles>>

\* It exits before it is ready, is not ready in time, or the supervisor is
\* closed: it is stopped.
FailsReadiness ==
    /\ loop.at = "waiting"
    /\ \/ (proc[loop.stop] = "dead" \/ closing) /\ UNCHANGED crashed
       \/ Cardinality(crashed) < MaxCrashes /\ crashed' = crashed \cup {loop.stop}
    /\ Stop(loop.stop, "retry")
    /\ UNCHANGED <<proc, snap, active, recycle, exits, closing, req, busy, late, recycles>>
\* A second later the current worker is looked up again.
TryAgain ==
    /\ loop.at = "retry" /\ Begin(active)
    /\ UNCHANGED <<workerVars, active, recycle, exits, closing, drainVars, req, busy, late, recycles>>

\* A timer of stopWorker runs out while requests are on the worker.
Expires(w) == w \notin drained

\* The grace is over: SIGTERM asks the worker to drain its sockets.
Terminate ==
    /\ loop.at = "grace"
    /\ loop.stop \in drained \/ Expires(loop.stop)
    /\ snap' = IF proc[loop.stop] = "serving" THEN [snap EXCEPT ![loop.stop].at = "due"] ELSE snap
    /\ Go("term")
    /\ UNCHANGED <<proc, crashed, active, recycle, exits, closing, drainVars, req, busy, late, recycles>>

\* The drain timeout: not before the window of the worker is over.
Interrupt ==
    /\ loop.at = "term"
    /\ \/ loop.stop \in drained /\ UNCHANGED late
       \/ /\ Expires(loop.stop) /\ late' = late \cup {loop.stop}
          /\ snap[loop.stop].at = "over" \/ proc[loop.stop] # "serving"
    /\ proc' = IF Live(loop.stop) THEN [proc EXCEPT ![loop.stop] = "ending"] ELSE proc
    /\ Go("int")
    /\ UNCHANGED <<crashed, snap, active, recycle, exits, closing, drainVars, req, busy, recycles>>

\* It is gone, or it is killed.
Stopped ==
    /\ loop.at = "int"
    /\ \/ proc[loop.stop] = "dead" /\ UNCHANGED <<proc, exits, late>>
       \/ /\ Live(loop.stop) /\ Expires(loop.stop)
          /\ late' = late \cup {loop.stop} /\ Exit(loop.stop)
    /\ Go(loop.then)
    /\ UNCHANGED <<crashed, snap, active, recycle, closing, drainVars, req, busy, recycles>>

\* Close
CloseSupervisor ==
    /\ ~closing /\ closing' = TRUE
    /\ UNCHANGED <<active, recycle, exits, loop, workerVars, drainVars, req, busy, late, recycles>>

-----------------------------------------------------------------------------
\* Start has returned: the first worker is ready.
SupervisionInit ==
    /\ proc = [w \in Worker |-> IF w = 1 THEN "serving" ELSE "unused"]
    /\ crashed = {} /\ draining = {} /\ drained = {}
    /\ active = 1 /\ recycle = FALSE /\ exits = {}
    /\ loop = [at |-> "select", stop |-> None, old |-> None, then |-> "select"] /\ closing = FALSE
    /\ req = [r \in Request |-> [at |-> "new", w |-> None]] /\ busy = {}
    /\ snap = [w \in Worker |-> [at |-> "no", of |-> {}]]
    /\ late = {} /\ recycles = 0

RequestStep(r) == Load(r) \/ Acquire(r) \/ CheckAgain(r) \/ Reach(r) \/ Cut(r)
WorkerStep(w) ==
    \/ TakeSnapshot(w) \/ (\E r \in Socket : CloseIdle(w, r)) \/ WindowOver(w) \/ ShutDown(w)
LoopStep == SelectRecycle \/ SelectExit \/ SelectClose \/ StartWorker \/ BecomesReady
            \/ FailsReadiness \/ TryAgain \/ Terminate \/ Interrupt \/ Stopped
SupervisionProgress ==
    LoopStep \/ (\E r \in Request : RequestStep(r)) \/ \E w \in Worker : WorkerStep(w)

SupervisionNext ==
    \/ SupervisionProgress \/ CloseSupervisor
    \/ \E r \in Request : Finish(r) \/ SyncAnswered(r) \/ Write(r)
    \/ \E w \in Worker : Crash(w)

SupervisionSpec == SupervisionInit /\ [][SupervisionNext]_supervisionVars

-----------------------------------------------------------------------------
\* The drained channel of a worker closes once and for good: no request slips
\* onto a worker between the load of the active pointer and its drain (acquire,
\* beginDrain in supervisor.go).
DrainedIsEmpty == \A w \in drained : Held(w) = {}

\* The supervisor cuts a request off only when a timer has run out on it; all
\* others end by themselves or with their worker's own death (stopWorker).
CutOnlyWhenLate ==
    \A r \in Request : req[r].at = "cut" => req[r].w \in late \cup crashed

\* A socket that the drain of its worker has seen is closed with code 1012 or
\* by its client, busy or not, before the worker is interrupted (ws_drain.go).
ToldOfRestart ==
    \A w \in Worker, r \in Socket :
        r \in snap[w].of /\ req[r].at = "open" => proc[w] = "serving" \/ w \in crashed

\* A planned replacement never leaves the gateway without a worker: the old one
\* serves until the new one is ready (replaceActiveWorker).
NoGap == [][active # None /\ active' = None => active \in crashed \/ closing]_supervisionVars

\* No worker process is left behind: between replacements only the active one
\* runs, and none after Close (startWorker, stopWorker).
NoOrphan ==
    /\ loop.at = "select" => \A w \in Worker : Live(w) => w = active
    /\ loop.at = "closed" => \A w \in Worker : ~Live(w)

\* However workers die, during a replacement or while another is stopped, the
\* gateway has a worker that serves in the end (run, replaceActiveWorker).
ServesAgain == <>[](closing \/ (active # None /\ proc[active] = "serving"))

\* Workers are stopped in order: no request slips onto a drained one, none is
\* cut off before its time, sockets are told, no process is left behind, and a
\* planned replacement leaves no gap (supervisor.go, ws_drain.go).
StopsInOrder ==
    /\ [](DrainedIsEmpty /\ CutOnlyWhenLate /\ ToldOfRestart /\ NoOrphan)
    /\ NoGap
================================================================================
