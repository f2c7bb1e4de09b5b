------------------------- MODULE VisibilityPartitions -------------------------
(***************************************************************************)
(* One group of a query that is shared by visibility (subscriptions.go:    *)
(* executeVisibilityShared, completeResult, completePartitionedResult,     *)
(* completeConvergedPartitionResult, broadcastTo).  Its listeners joined   *)
(* with the same visibility key; a resolver tells the keys they have now,  *)
(* the query runs once per key, and the group sends each listener the      *)
(* result of its partition, as a whole, as a patch of what the partition   *)
(* had before, or, when the listener has it already, as progress.          *)
(*                                                                         *)
(* A result is a set of rows.  A user the resolver has no key for is a     *)
(* partition alone, and its result is not a shared one.                    *)
(***************************************************************************)
EXTENDS Integers, FiniteSets

CONSTANTS Member,      \* the users that listen
          VisKey,      \* visibility keys
          ResultRow,   \* rows
          MaxVisChanges, MaxVisFails

VARIABLES
    keyOf,    \* user -> visibility key, or the user itself
    content,  \* key or user -> rows that the query returns now
    cohort,    \* [last, hash, hasHash, revision, single, baselines, partOf]; last and single
              \* are {} or hold the retained result and the only listener it went to
    pass,     \* the run: [at, keys, read, dirty, sure]
    viewer,   \* user -> [rows, rev, sent, in]: the client, and the server's note of what was sent
    unsure,   \* users whose result may be wrong, see below
    misfit,   \* users that have applied a patch to other rows than those it was made for
    visChanges, visFails

visVars == <<keyOf, content, cohort, pass, viewer, unsure, misfit, visChanges, visFails>>

Keys == VisKey \cup Member
NoBases == [k \in {} |-> 0]
Listeners == {u \in Member : viewer[u].in}
NoPass == [at |-> "idle", keys |-> NoBases, read |-> NoBases, dirty |-> FALSE, sure |-> TRUE]

-----------------------------------------------------------------------------
(* Commits, which ask for a run. *)

Asks == pass' = IF pass.at = "idle" THEN [pass EXCEPT !.at = "asked"]
               ELSE IF pass.at = "asked" THEN pass ELSE [pass EXCEPT !.dirty = TRUE]
ChangeKey(u, k) ==
    /\ visChanges < MaxVisChanges /\ visChanges' = visChanges + 1
    /\ k \in VisKey \cup {u} /\ keyOf[u] # k /\ keyOf' = [keyOf EXCEPT ![u] = k]
    /\ Asks /\ UNCHANGED <<content, cohort, viewer, unsure, misfit, visFails>>
ChangeContent(k, rows) ==
    /\ visChanges < MaxVisChanges /\ visChanges' = visChanges + 1
    /\ content[k] # rows /\ content' = [content EXCEPT ![k] = rows]
    /\ Asks /\ UNCHANGED <<keyOf, cohort, viewer, unsure, misfit, visFails>>

-----------------------------------------------------------------------------
(* executeVisibilityShared *)

\* The resolver tells every listener's key.
Resolve ==
    /\ pass.at = "asked" /\ Listeners # {}
    /\ pass' = [at |-> "run", keys |-> [u \in Listeners |-> keyOf[u]], read |-> NoBases, dirty |-> FALSE, sure |-> TRUE]
    /\ UNCHANGED <<keyOf, content, cohort, viewer, unsure, misfit, visChanges, visFails>>
\* It fails: the query runs for one listener, and what it returns is everybody's.
ResolverFails(u) ==
    /\ pass.at = "asked" /\ u \in Listeners /\ visFails < MaxVisFails /\ visFails' = visFails + 1
    /\ pass' = [at |-> "run", keys |-> [v \in Listeners |-> u], read |-> [k \in {u} |-> content[keyOf[u]]], dirty |-> FALSE, sure |-> FALSE]
    /\ unsure' = unsure \cup Listeners
    /\ UNCHANGED <<keyOf, content, cohort, viewer, misfit, visChanges>>
NobodyListens ==
    /\ pass.at = "asked" /\ Listeners = {} /\ pass' = NoPass
    /\ UNCHANGED <<keyOf, content, cohort, viewer, unsure, misfit, visChanges, visFails>>

Partitions == {pass.keys[u] : u \in DOMAIN pass.keys}
\* executeVisibilityPartition: the partitions read the database at times of their own.
Execute(k) ==
    /\ pass.at = "run" /\ k \in Partitions \ DOMAIN pass.read
    /\ pass' = [pass EXCEPT !.read = [p \in DOMAIN pass.read \cup {k} |-> IF p = k THEN content[k] ELSE pass.read[p]]]
    /\ UNCHANGED <<keyOf, content, cohort, viewer, unsure, misfit, visChanges, visFails>>
\* One partition fails, and so does the run (completeError).  The group keeps its
\* result; its listeners are told only if it has none.
ExecuteFails ==
    /\ pass.at = "run" /\ DOMAIN pass.read # Partitions
    /\ visFails < MaxVisFails /\ visFails' = visFails + 1
    /\ pass' = IF pass.dirty THEN [NoPass EXCEPT !.at = "asked"] ELSE NoPass
    /\ unsure' = unsure \cup Listeners
    /\ UNCHANGED <<keyOf, content, cohort, viewer, misfit, visChanges>>

-----------------------------------------------------------------------------
(* Delivery: a frame is a result, a patch [base, from, to] or progress. *)

\* broadcastTo, and the client that receives the frame.  A patch that does not
\* continue the client's revision makes it subscribe anew; it leaves this group.
Receive(u, frame, hash, rev) ==
    LET v == viewer[u] IN
    IF frame.type = "patch"
    THEN IF v.rev # frame.base THEN [v EXCEPT !.in = FALSE]
         ELSE [v EXCEPT !.rows = (@ \ (frame.from \ frame.to)) \cup (frame.to \ frame.from), !.rev = rev, !.sent = frame.to]
    ELSE IF frame.type = "result" /\ v.sent # hash THEN [v EXCEPT !.rows = frame.to, !.rev = rev, !.sent = frame.to]
    ELSE [v EXCEPT !.rev = rev]

Whole(rows) == [type |-> "result", to |-> rows, base |-> 0, from |-> {}]
Patch(base, rows) == [type |-> "patch", to |-> rows, base |-> base.revision, from |-> base.rows]

\* The frames sent, user -> frame, in a completion that leaves the group g.  Moved
\* users get a patch of a partition that was not theirs; the result that the group
\* had in common makes others' results look as if they had them.
Send(frames, g, moved) ==
    LET reaches(u) == u \in DOMAIN frames /\ viewer[u].in
        swallowed == {u \in DOMAIN frames : frames[u].type = "result" /\ viewer[u].sent = g.hash /\ frames[u].to # g.hash}
        told == {u \in DOMAIN frames : frames[u].type = "result" /\ viewer[u].sent # g.hash} IN
    /\ cohort' = g
    /\ viewer' = [u \in Member |-> IF reaches(u) THEN Receive(u, frames[u], g.hash, g.revision) ELSE viewer[u]]
    /\ misfit' = misfit \cup {u \in DOMAIN frames : /\ frames[u].type = "patch" /\ viewer[u].in /\ viewer[u].rev = frames[u].base
                                                    /\ viewer[u].rows # frames[u].from}
    /\ unsure' = (unsure \ (IF pass.sure THEN told ELSE {})) \cup swallowed \cup (moved \cap {u \in DOMAIN frames : frames[u].type = "patch"})
    /\ pass' = IF pass.dirty THEN [NoPass EXCEPT !.at = "asked"] ELSE NoPass

Shared(k) == k \in VisKey
Alone == IF Cardinality(Listeners) = 1 THEN Listeners ELSE {}
Retained(rows) == IF Cardinality(Listeners) > 1 THEN {rows} ELSE {}
Base(rev, last) == [revision |-> rev, rows |-> CHOOSE rows \in last : TRUE]

\* completeResult: one result for all.
SendToAll(rows, patched) ==
    LET unchanged == cohort.hasHash /\ rows = cohort.hash
        g == [cohort EXCEPT !.last = Retained(rows), !.hash = rows, !.hasHash = TRUE, !.revision = @ + 1, !.single = Alone]
        frame == IF patched THEN Patch(Base(cohort.revision, cohort.last), rows) ELSE Whole(rows) IN
    IF unchanged /\ (cohort.last # {} \/ (Alone # {} /\ Alone = cohort.single))
    THEN Send(NoBases, cohort, {})
    ELSE /\ patched => cohort.last # {}
         /\ Send([u \in Listeners |-> frame], g, {})

\* completeConvergedPartitionResult: every listener gets a patch of what its
\* partition had.
Converge(rows, patched) ==
    LET frame(u) == IF patched /\ u \in DOMAIN cohort.partOf THEN Patch(cohort.baselines[cohort.partOf[u]], rows) ELSE Whole(rows)
        g == [cohort EXCEPT !.last = {rows}, !.hash = rows, !.hasHash = TRUE, !.revision = @ + 1, !.single = Alone,
                           !.baselines = NoBases, !.partOf = NoBases] IN
    Send([u \in Listeners |-> frame(u)], g, {})

\* completePartitionedResult, when the partitions differ.  The baseline of a
\* partition is its last result, or that of the whole group.
Split(patched, retain) ==
    LET base(k) == IF k \in DOMAIN cohort.baselines THEN cohort.baselines[k]
                   ELSE Base(cohort.revision, cohort.last)
        rev == cohort.revision + 1
        frame(k) == IF patched /\ (k \in DOMAIN cohort.baselines \/ cohort.last # {}) THEN Patch(base(k), pass.read[k]) ELSE Whole(pass.read[k])
        g == [cohort EXCEPT !.last = {}, !.hasHash = FALSE, !.revision = rev, !.single = {},
                           !.baselines = IF retain THEN [k \in Partitions |-> [revision |-> rev, rows |-> pass.read[k]]] ELSE NoBases,
                           !.partOf = IF retain THEN pass.keys ELSE NoBases] IN
    Send([u \in DOMAIN pass.keys |-> frame(pass.keys[u])], g,
         {u \in DOMAIN pass.keys : pass.keys[u] \in DOMAIN cohort.baselines /\ u \in DOMAIN cohort.partOf /\ cohort.partOf[u] # pass.keys[u]})

Complete(patched, retain) ==
    LET same == \A j, k \in Partitions : pass.read[j] = pass.read[k] /\ (Cardinality(Partitions) > 1 => Shared(j))
        rows == pass.read[CHOOSE k \in Partitions : TRUE] IN
    /\ pass.at = "run" /\ DOMAIN pass.read = Partitions
    /\ IF ~same THEN Split(patched, retain)
       ELSE IF (\A k \in Partitions : Shared(k)) /\ cohort.baselines # NoBases THEN Converge(rows, patched)
       ELSE SendToAll(rows, patched)
    /\ UNCHANGED <<keyOf, content, visChanges, visFails>>

-----------------------------------------------------------------------------
\* The group as its first result leaves it: its listeners had the same key.
VisibilityInit ==
    /\ \E k \in VisKey : keyOf = [u \in Member |-> k]
    /\ content \in [Keys -> {{}, {CHOOSE r \in ResultRow : TRUE}}] /\ \A u \in Member : content[u] = {}
    /\ LET rows == content[keyOf[CHOOSE u \in Member : TRUE]] IN
       /\ cohort = [last |-> {rows}, hash |-> rows, hasHash |-> TRUE, revision |-> 1, single |-> {},
                   baselines |-> NoBases, partOf |-> NoBases]
       /\ viewer = [u \in Member |-> [rows |-> rows, rev |-> 1, sent |-> rows, in |-> TRUE]]
    /\ pass = NoPass /\ unsure = {} /\ misfit = {} /\ visChanges = 0 /\ visFails = 0

VisibilityNext ==
    \/ \E u \in Member : \/ \E k \in Keys : ChangeKey(u, k)
                         \/ ResolverFails(u)
    \/ \E k \in Keys : Execute(k) \/ \E rows \in SUBSET ResultRow : ChangeContent(k, rows)
    \/ Resolve \/ NobodyListens \/ ExecuteFails
    \/ \E patched, retain \in BOOLEAN : Complete(patched, retain)

-----------------------------------------------------------------------------
Settled1 == pass.at = "idle"

\* When no run is under way, every listener shows the rows of its own partition as
\* they are in the database, however the keys have changed, partitions split,
\* merged and been patched.  Unsure are the listeners whose last run failed or was
\* made for somebody else, who were patched with another partition's difference,
\* or whose result was taken for the one they had (broadcastTo).
OwnRowsShown == Settled1 => \A u \in Listeners \ unsure : viewer[u].rows = content[keyOf[u]]

\* "The client validates BaseRevision and requests recovery on any mismatch, so a
\* lagging listener can never apply a patch to the wrong snapshot."
PatchOnItsBase == misfit = {}

\* "Results are never reused across unmatched keys, resolver errors, or different
\* audiences": what a listener shows is its own partition's rows.
OwnRowsAlways == Settled1 => \A u \in Listeners : viewer[u].rows = content[keyOf[u]]
================================================================================
