----------------------------- MODULE ClientSignals -----------------------------
(***************************************************************************)
(* The reactive graph of the client (packages/client/src/signals.ts):      *)
(* writable signals, computed values that are cached and lazily evaluated, *)
(* effects and subscribers, batches and the flush that runs callbacks.     *)
(* A node is a number and reads nodes below it: one node x, then y when x  *)
(* is not zero and z when it is, so that what it reads changes as it runs. *)
(* The order of the callbacks of one round is left open.                   *)
(***************************************************************************)
EXTENDS Integers, FiniteSets

CONSTANTS Signals, Computeds, Effects,  \* consecutive intervals of node numbers
          Watched,     \* signals and computed values that may have a subscriber
          Formula,     \* of a computed value or effect: <<x, y, z>>
          Target,      \* of an effect: the signal it writes 1 - what it saw to, or 0
          MaxRuns,     \* MAX_EFFECT_RUNS_PER_FLUSH
          MaxThrows

Values == Signals \cup Computeds
Observers == Computeds \cup Effects
Node == Values \cup Effects

ASSUME ClientSignalsAssumption ==
    /\ Node \subseteq Nat
    /\ \A n \in Observers : \A i \in 1..3 : Formula[n][i] \in {m \in Values : m < n}
    /\ \A e \in Effects : Target[e] \in Signals \cup {0}

VARIABLES
    graph,     \* [val, cached, dirty, deps, told, effects]: told and effects are the pending sets
    depth,     \* batchDepth
    flushing,  \* isFlushing
    round,     \* of the flush: [toTell, toRun, runs]
    listening, \* nodes with a subscriber
    living,    \* effects that were created and not disposed of
    heard,     \* of a listened node: the value its subscriber knows
    saw,       \* of an effect: what it read when it last ran
    lost,      \* nodes whose callbacks an error kept from running
    throws

signalVars == <<graph, depth, flushing, round, listening, living, heard, saw, lost, throws>>

NoRound == [toTell |-> {}, toRun |-> {}, runs |-> [e \in Effects |-> 0]]

-----------------------------------------------------------------------------
\* What a read of each node returns: a clean computed value is not evaluated.
Reading(g) ==
    LET r[n \in Node] == IF n \in Signals THEN g.val[n]
                         ELSE IF n \in Computeds /\ ~g.dirty[n] THEN g.cached[n]
                         ELSE IF r[Formula[n][1]] # 0 THEN r[Formula[n][2]] ELSE r[Formula[n][3]]
    IN r
Read(g, n) == {Formula[n][1], IF Reading(g)[Formula[n][1]] # 0 THEN Formula[n][2] ELSE Formula[n][3]}

\* The dirty computed values that an evaluation of n evaluates, n included.
Evaluated(g, n) ==
    LET e[m \in Node] == IF m \in Signals \/ (m \in Computeds /\ ~g.dirty[m]) THEN {}
                         ELSE {m} \cup UNION {e[k] : k \in Read(g, m)}
    IN e[n]

EvaluateStickily(g, n) ==
    LET done == Evaluated(g, n) IN
    [g EXCEPT !.dirty = [c \in Computeds |-> g.dirty[c] /\ c \notin done],
              !.cached = [c \in Computeds |-> IF c \in done THEN Reading(g)[c] ELSE g.cached[c]],
              !.deps = [o \in Observers |-> IF o \in done /\ g.deps[o] = {} THEN Read(g, o) ELSE g.deps[o]]]
\* recompute and run: detach, evaluate, track what was read.
Evaluate(g, n) ==
    LET done == Evaluated(g, n) IN
    [g EXCEPT !.dirty = [c \in Computeds |-> g.dirty[c] /\ c \notin done],
              !.cached = [c \in Computeds |-> IF c \in done THEN Reading(g)[c] ELSE g.cached[c]],
              !.deps = [o \in Observers |-> IF o \in done THEN Read(g, o) ELSE g.deps[o]]]

\* The observers that invalidate() reaches from s: it stops at dirty values.
Reached(g, s) ==
    LET hit[o \in Node] == o \in Observers /\ \E d \in g.deps[o] : d = s \/ (d \in Computeds /\ hit[d] /\ ~g.dirty[d])
    IN {o \in Observers : hit[o]}
\* The setter of a signal, as far as flushIfReady.
Assign(g, s, v) ==
    LET reached == Reached(g, s) IN
    IF v = g.val[s] THEN g
    ELSE [g EXCEPT !.val[s] = v,
                   !.dirty = [c \in Computeds |-> g.dirty[c] \/ c \in reached],
                   !.told = @ \cup (({s} \cup {c \in reached \cap Computeds : ~g.dirty[c]}) \cap listening),
                   !.effects = @ \cup (reached \cap Effects)]

\* flushIfReady, after an operation that left the graph g.
FlushIfReady(g, d) ==
    flushing' = (flushing \/ (d = 0 /\ (g.told # {} \/ g.effects # {})))

-----------------------------------------------------------------------------
(* The program: synchronous, so never in the middle of a flush. *)

WriteSignal(s, v) ==
    /\ ~flushing /\ v # graph.val[s]
    /\ graph' = Assign(graph, s, v) /\ FlushIfReady(graph', depth)
    /\ UNCHANGED <<depth, round, listening, living, heard, saw, lost, throws>>
BatchBegin ==
    /\ ~flushing /\ depth = 0 /\ depth' = 1
    /\ UNCHANGED <<graph, flushing, round, listening, living, heard, saw, lost, throws>>
BatchEnd ==
    /\ ~flushing /\ depth = 1 /\ depth' = 0 /\ FlushIfReady(graph, 0)
    /\ UNCHANGED <<graph, round, listening, living, heard, saw, lost, throws>>
\* .value or .peek() of a computed value that has to be evaluated
ReadComputed(c) ==
    /\ ~flushing /\ graph.dirty[c]
    /\ graph' = Evaluate(graph, c) /\ FlushIfReady(graph', depth)
    /\ UNCHANGED <<depth, round, listening, living, heard, saw, lost, throws>>
SubscribeTo(n) ==
    /\ ~flushing /\ n \notin listening /\ listening' = listening \cup {n}
    /\ graph' = Evaluate(graph, n) /\ heard' = [heard EXCEPT ![n] = Reading(graph)[n]]
    /\ IF n \in Computeds /\ graph.dirty[n] THEN FlushIfReady(graph', depth) ELSE UNCHANGED flushing
    /\ lost' = lost \ {n}
    /\ UNCHANGED <<depth, round, living, saw, throws>>
\* A callback may remove a listener or dispose of an effect, too.
Unsubscribe(n) ==
    /\ n \in listening /\ listening' = listening \ {n}
    /\ heard' = [heard EXCEPT ![n] = 0] /\ lost' = lost \ {n}
    /\ UNCHANGED <<graph, depth, flushing, round, living, saw, throws>>
Dispose(e) ==
    /\ e \in living /\ living' = living \ {e}
    /\ graph' = [graph EXCEPT !.effects = @ \ {e}, !.deps[e] = {}]
    /\ saw' = [saw EXCEPT ![e] = 0] /\ lost' = lost \ {e}
    /\ UNCHANGED <<depth, flushing, round, listening, heard, throws>>

\* EffectObserver.run: what it reads, then the signal it writes.
RunOf(g, e) ==
    LET after == Evaluate(g, e)
        v == Reading(g)[e] IN
    IF Target[e] = 0 THEN after ELSE Assign(after, Target[e], 1 - v)
\* effect(): the callback runs at once.
CreateEffect(e) ==
    /\ ~flushing /\ e \notin living /\ living' = living \cup {e}
    /\ LET g == [graph EXCEPT !.deps[e] = {}] IN
       /\ graph' = RunOf(g, e)
       /\ saw' = [saw EXCEPT ![e] = Reading(g)[e]]
    /\ FlushIfReady(graph', depth) /\ lost' = lost \ {e}
    /\ UNCHANGED <<depth, round, listening, heard, throws>>

-----------------------------------------------------------------------------
(* flush *)

NoteRound ==
    /\ flushing /\ round.toTell = {} /\ round.toRun = {} /\ graph.told # {}
    /\ round' = [round EXCEPT !.toTell = graph.told] /\ graph' = [graph EXCEPT !.told = {}]
    /\ UNCHANGED <<depth, flushing, listening, living, heard, saw, lost, throws>>
EffectRound ==
    /\ flushing /\ round.toTell = {} /\ round.toRun = {} /\ graph.told = {} /\ graph.effects # {}
    /\ round' = [round EXCEPT !.toRun = graph.effects] /\ graph' = [graph EXCEPT !.effects = {}]
    /\ UNCHANGED <<depth, flushing, listening, living, heard, saw, lost, throws>>
EndFlush ==
    /\ flushing /\ round.toTell = {} /\ round.toRun = {} /\ graph.told = {} /\ graph.effects = {}
    /\ flushing' = FALSE /\ round' = NoRound
    /\ UNCHANGED <<graph, depth, listening, living, heard, saw, lost, throws>>

\* An error of a callback leaves flush; the rest of the round is forgotten.
Abort(left, g) ==
    /\ flushing' = FALSE /\ round' = NoRound /\ graph' = g /\ lost' = lost \cup left

\* notifySubscribers
Tell(n) ==
    /\ flushing /\ n \in round.toTell
    /\ heard' = IF n \in listening THEN [heard EXCEPT ![n] = Reading(graph)[n]] ELSE heard
    /\ \/ /\ round' = [round EXCEPT !.toTell = @ \ {n}] /\ graph' = Evaluate(graph, n)
          /\ lost' = lost \ {n} /\ UNCHANGED <<flushing, throws>>
       \/ /\ throws < MaxThrows /\ n \in listening /\ throws' = throws + 1
          /\ Abort(round.toTell \ {n}, Evaluate(graph, n))
    /\ UNCHANGED <<depth, listening, living, saw>>

RunEffect(e) ==
    /\ flushing /\ round.toTell = {} /\ e \in round.toRun
    /\ IF e \notin living
       THEN round' = [round EXCEPT !.toRun = @ \ {e}] /\ UNCHANGED <<graph, saw, flushing, lost>>
       ELSE IF round.runs[e] >= MaxRuns
       THEN Abort(round.toRun \cup graph.effects, [graph EXCEPT !.effects = {}]) /\ UNCHANGED saw
       ELSE /\ round' = [round EXCEPT !.toRun = @ \ {e}, !.runs[e] = @ + 1]
            /\ graph' = RunOf(graph, e) /\ saw' = [saw EXCEPT ![e] = Reading(graph)[e]]
            /\ lost' = lost \ {e} /\ UNCHANGED flushing
    /\ UNCHANGED <<depth, listening, living, heard, throws>>

-----------------------------------------------------------------------------
SignalInit ==
    /\ graph = [val |-> [s \in Signals |-> 0], cached |-> [c \in Computeds |-> 0],
                dirty |-> [c \in Computeds |-> TRUE], deps |-> [o \in Observers |-> {}],
                told |-> {}, effects |-> {}]
    /\ depth = 0 /\ flushing = FALSE /\ round = NoRound
    /\ listening = {} /\ living = {} /\ heard = [n \in Values |-> 0] /\ saw = [e \in Effects |-> 0]
    /\ lost = {} /\ throws = 0

SignalNext ==
    \/ \E s \in Signals, v \in {0, 1} : WriteSignal(s, v)
    \/ BatchBegin \/ BatchEnd \/ NoteRound \/ EffectRound \/ EndFlush
    \/ \E c \in Computeds : ReadComputed(c)
    \/ \E n \in Watched : SubscribeTo(n) \/ Unsubscribe(n) \/ Tell(n)
    \/ \E e \in Effects : CreateEffect(e) \/ Dispose(e) \/ RunEffect(e)

-----------------------------------------------------------------------------
\* The value of every node, computed from the signals alone.
TrueValue ==
    LET v[n \in Node] == IF n \in Signals THEN graph.val[n]
                         ELSE IF v[Formula[n][1]] # 0 THEN v[Formula[n][2]] ELSE v[Formula[n][3]]
    IN v

\* A cached value is the value of the formula now, whichever branch it read when
\* it was evaluated, and also inside a batch (invalidate, recompute).
CacheCoherent == \A c \in Computeds : ~graph.dirty[c] => graph.cached[c] = TrueValue[c]

\* Outside a batch and a flush every effect has seen, and every subscriber knows,
\* the current values; only callbacks that an error kept from running are behind
\* (flush).
FlushSettles ==
    ~flushing /\ depth = 0 =>
        /\ \A e \in living \ (lost \cup graph.effects) : saw[e] = TrueValue[e]
        /\ \A n \in listening \ (lost \cup graph.told) : heard[n] = TrueValue[n]

\* What is cached is true, and everyone has been told in the end.
SignalsSound == CacheCoherent /\ FlushSettles
================================================================================
