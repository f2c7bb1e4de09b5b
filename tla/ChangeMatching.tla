---------------------------- MODULE ChangeMatching ----------------------------
(***************************************************************************)
(* Which changes make a subscription run again (subscriptions.go:          *)
(* matchResult, readPredicateMatches; schema/notify.go: the triggers).     *)
(* The trigger of a statement announces the rows, columns and references   *)
(* that it changed; the group tests them against the reads that its query  *)
(* declares and against the rows of its last result, and runs the query    *)
(* again if they can matter.                                               *)
(*                                                                         *)
(* The data are tasks, which have a workspace, a position and a text, and  *)
(* links of tasks, which have a workspace and a text of their own.  The    *)
(* kinds of query differ in what they read and in what they declare.       *)
(***************************************************************************)
EXTENDS Integers, Sequences, FiniteSets

CONSTANTS Task, Link, Workspace,
          Arg,        \* the workspace the query asks for
          ChosenTask,     \* the task that the query of one row asks for
          Kinds,      \* kinds of query: "list", "window", "one", "joined", "board"
          MaxChanges

ASSUME ChangeMatchingAssumption == Arg \in Workspace /\ ChosenTask \in Task

None0 == [none |-> TRUE]
Bit == {0, 1}

VARIABLES
    kind,     \* which query the group runs
    tasks, links,
    told,     \* notifications on their way, in the order of the commits
    shown,    \* the group's last result
    run,      \* [at, value, dirty]
    excused,  \* a change was passed over that the row IDs could not judge, see below
    changes

matchVars == <<kind, tasks, links, told, shown, run, excused, changes>>

-----------------------------------------------------------------------------
(* The queries: a result is a set of rows, and a row has an ID. *)

Present(f) == {r \in DOMAIN f : f[r] # None0}
In(f, w) == {r \in Present(f) : f[r].ws = w}
Before(f, r, q) == f[r].pos < f[q].pos
\* The first row of the workspace; positions may be equal.
FirstOf(f) == {r \in In(f, Arg) : \A q \in In(f, Arg) : ~Before(f, q, r)}

Result(ts, ls) ==
    CASE kind = "list" -> {[id |-> t, with |-> ts[t].text] : t \in In(ts, Arg)}
      [] kind = "window" -> {[id |-> t, with |-> ts[t].pos] : t \in FirstOf(ts)}
      [] kind = "one" -> {[id |-> t, with |-> ts[t].text] : t \in Present(ts) \cap {ChosenTask}}
      [] kind = "joined" -> {[id |-> t, with |-> {ls[k].text : k \in {l \in Present(ls) : ls[l].task = t}}] : t \in In(ts, Arg)}
      [] kind = "board" -> {[id |-> ls[l].task, with |-> ls[l].text] : l \in In(ls, Arg)}
ResultRowIDs(v) == {row.id : row \in v}

\* What the query declares of a table (manifest.ReadDependency).
Reads ==
    CASE kind = "list" -> {[table |-> "tasks", columns |-> {"text"}, filters |-> {"ws"}, ordersBy |-> {}, windowed |-> FALSE, predicate |-> "columnArg"]}
      [] kind = "window" -> {[table |-> "tasks", columns |-> {"pos"}, filters |-> {"ws"}, ordersBy |-> {"pos"}, windowed |-> TRUE, predicate |-> "columnArg"]}
      [] kind = "one" -> {[table |-> "tasks", columns |-> {"text"}, filters |-> {}, ordersBy |-> {}, windowed |-> FALSE, predicate |-> "idArg"]}
      [] kind = "joined" -> {[table |-> "tasks", columns |-> {}, filters |-> {"ws"}, ordersBy |-> {}, windowed |-> FALSE, predicate |-> "columnArg"],
                             [table |-> "links", columns |-> {"task", "text"}, filters |-> {}, ordersBy |-> {}, windowed |-> FALSE, predicate |-> "resultTaskIds"]}
      [] kind = "board" -> {[table |-> "links", columns |-> {"task", "text"}, filters |-> {}, ordersBy |-> {}, windowed |-> FALSE, predicate |-> "resultTaskIdsOrColumnArg"]}

-----------------------------------------------------------------------------
(* matchResult *)

\* readPredicateMatches: a predicate whose references the change does not name
\* holds.
PredicateMatches(p, d, rows) ==
    LET columnArg == d.workspaceIDs = {} \/ Arg \in d.workspaceIDs IN
    CASE p = "columnArg" -> columnArg
      [] p = "idArg" -> d.rowIDs = {} \/ ChosenTask \in d.rowIDs
      [] p = "resultTaskIds" -> d.taskIDs = {} \/ d.taskIDs \cap rows # {}
      [] p = "resultTaskIdsOrColumnArg" -> d.taskIDs = {} \/ d.taskIDs \cap rows # {} \/ columnArg

ReadMatches(r, d, rows) ==
    /\ d.table = r.table /\ PredicateMatches(r.predicate, d, rows)
    /\ \/ d.operation \in {"insert", "delete"}
       \/ /\ LET declared == r.columns \cup r.filters \cup r.ordersBy IN
             d.columns = {} \/ declared = {} \/ d.columns \cap declared # {}
          /\ \/ d.columns \cap r.filters # {}
             \/ r.windowed /\ d.columns \cap r.ordersBy # {}
             \/ d.rowIDs = {} \/ rows = {} \/ d.rowIDs \cap rows # {}
MatchResult(d) == \E r \in Reads : ReadMatches(r, d, ResultRowIDs(shown))

-----------------------------------------------------------------------------
(* Statements and their triggers *)

Tasks == [ws : Workspace, pos : IF kind = "window" THEN Bit ELSE {0}, text : IF kind \in {"list", "one"} THEN Bit ELSE {0}]
Links == [task : Task, ws : Workspace, text : Bit]
Changed(old, new) == {c \in DOMAIN new : old[c] # new[c]}

Detail(of, row, old, new) ==
    LET sides == {old, new} \ {None0} IN
    [table |-> of,
     operation |-> IF old = None0 THEN "insert" ELSE IF new = None0 THEN "delete" ELSE "update",
     columns |-> IF old = None0 \/ new = None0 THEN {} ELSE Changed(old, new),
     rowIDs |-> {row},
     workspaceIDs |-> {s.ws : s \in sides},
     taskIDs |-> IF of = "links" THEN {s.task : s \in sides} ELSE {}]

\* One statement commits and its trigger notifies (notifyFunctionSQL).
ChangeTask(t, new) ==
    /\ changes < MaxChanges /\ changes' = changes + 1
    /\ tasks[t] # new /\ tasks' = [tasks EXCEPT ![t] = new]
    /\ told' = Append(told, Detail("tasks", t, tasks[t], new))
    /\ UNCHANGED <<kind, links, shown, run, excused>>
ChangeLink(l, new) ==
    /\ changes < MaxChanges /\ changes' = changes + 1
    /\ links[l] # new /\ links' = [links EXCEPT ![l] = new]
    /\ told' = Append(told, Detail("links", l, links[l], new))
    /\ UNCHANGED <<kind, tasks, shown, run, excused>>

\* A result with other rows is on its way; the rows of the changed table are not
\* the rows of the result.
Overtaken == run.at = "read" /\ ResultRowIDs(run.value) # ResultRowIDs(shown)
Foreign(d) == d.table = "links" /\ d.operation = "update"
\* requestChange: a group that is running runs once more.
Deliver ==
    LET d == Head(told) IN
    /\ told # <<>> /\ told' = Tail(told)
    /\ IF MatchResult(d)
       THEN run' = IF run.at = "idle" THEN [run EXCEPT !.at = "asked"]
                   ELSE IF run.at = "read" THEN [run EXCEPT !.dirty = TRUE] ELSE run
       ELSE UNCHANGED run
    /\ excused' = (excused \/ (~MatchResult(d) /\ (Overtaken \/ Foreign(d))))
    /\ UNCHANGED <<kind, tasks, links, shown, changes>>

\* The query reads the database, and completeResult takes over what it returned.
ReadDatabase ==
    /\ run.at = "asked" /\ run' = [at |-> "read", value |-> Result(tasks, links), dirty |-> FALSE]
    /\ excused' = FALSE
    /\ UNCHANGED <<kind, tasks, links, told, shown, changes>>
CompleteResult ==
    /\ run.at = "read" /\ shown' = run.value
    /\ run' = [at |-> IF run.dirty THEN "asked" ELSE "idle", value |-> {}, dirty |-> FALSE]
    /\ UNCHANGED <<kind, tasks, links, told, excused, changes>>

-----------------------------------------------------------------------------
MatchingInit ==
    /\ kind \in Kinds
    /\ tasks \in [Task -> Tasks \cup {None0}]
    /\ links \in [Link -> IF kind \in {"joined", "board"} THEN Links \cup {None0} ELSE {None0}]
    /\ told = <<>> /\ shown = Result(tasks, links)
    /\ run = [at |-> "idle", value |-> {}, dirty |-> FALSE] /\ excused = FALSE /\ changes = 0

MatchingNext ==
    \/ \E t \in Task : \E new \in Tasks \cup {None0} : ChangeTask(t, new)
    \/ kind \in {"joined", "board"} /\ \E l \in Link : \E new \in Links \cup {None0} : ChangeLink(l, new)
    \/ Deliver \/ ReadDatabase \/ CompleteResult

-----------------------------------------------------------------------------
Quiet0 == told = <<>> /\ run.at = "idle"

\* Once nothing is under way, the group shows what the query returns now: a change
\* is passed over only when it cannot matter.  Two kinds of change are excused, since
\* the IDs of the last result cannot judge them: one tested while a result with
\* other rows is on its way, and an update of a joined table (matchResult).
FreshUnlessExcused == Quiet0 /\ ~excused => shown = Result(tasks, links)

\* "No missed visible updates. ... A semantic result change always produces a
\* result or supported patch."
NoMissedUpdate == Quiet0 => shown = Result(tasks, links)
================================================================================
