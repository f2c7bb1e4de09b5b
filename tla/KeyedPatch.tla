------------------------------ MODULE KeyedPatch ------------------------------
(***************************************************************************)
(* How a new result travels as a patch of the one before (subscriptions.go:*)
(* keyedResultPatch and what it calls) and how the client rebuilds it      *)
(* (packages/client/src/index.ts: normalizeSubscriptionMessage,            *)
(* applyKeyedPatch).  A row is [id, text]; the ID 0 stands for a row       *)
(* without one.  The server keys rows by the text that Go prints of an ID, *)
(* the client by the text of JavaScript; Odd holds the IDs for which the   *)
(* two differ (numbers of seven digits and more).                          *)
(* A result is a list of rows, a page (rows and other properties) or an    *)
(* object of collections.                                                  *)
(***************************************************************************)
EXTENDS Integers, Sequences, FiniteSets, SequencesExt

CONSTANTS RowSet,      \* rows that occur in results
          Odd,         \* IDs whose keys differ
          MaxLength,   \* bound on the rows of a list
          MaxPair,     \* bound on the rows of a page or collection
          Property     \* names of a page's other properties

ASSUME KeyedPatchAssumption == \A r \in RowSet : r.id \in Nat

VARIABLES before, after,  \* the results before and after a run
          rebuilt         \* what the client shows, or Nothing before it has the patch

patchVars == <<before, after, rebuilt>>

Nothing == [shape |-> "nothing"]
ListsUpTo(n) == UNION {[1..k -> RowSet] : k \in 0..n}
Pages == [shape : {"page"}, rows : ListsUpTo(MaxPair), rest : UNION {[S -> {0, 1}] : S \in SUBSET Property}]
Objects == [shape : {"object"}, parts : [{"one", "two"} -> ListsUpTo(1)]]
Lists == [shape : {"list"}, rows : ListsUpTo(MaxLength)]

-----------------------------------------------------------------------------
(* The server. *)

GoKey(id) == IF id \in Odd THEN <<"go", id>> ELSE <<"", id>>
JsKey(id) == <<"", id>>

Ids(rows) == [i \in DOMAIN rows |-> rows[i].id]
IdSet(rows) == ToSet(Ids(rows))
\* keyedRows: every row has an ID, and no two the same.
Keyed(rows) == 0 \notin IdSet(rows) /\ Cardinality(IdSet(rows)) = Len(rows)
RowOf(rows, id) == CHOOSE r \in ToSet(rows) : r.id = id

\* compactOrderDelta: the surviving rows keep their places and all the new ones
\* come before or after them.
CompactOrderLoosely(old, new) ==
    LET base == SelectSeq(old, LAMBDA i : i \in ToSet(new))
        k == Len(new) - Len(base) IN
    IF k >= 0 /\ ToSet(SubSeq(new, k + 1, Len(new))) = ToSet(base)
    THEN [order |-> <<>>, prepend |-> SubSeq(new, 1, k), append |-> <<>>, full |-> FALSE]
    ELSE [order |-> new, prepend |-> <<>>, append |-> <<>>, full |-> TRUE]
CompactOrder(old, new) ==
    LET base == SelectSeq(old, LAMBDA i : i \in ToSet(new))
        k == Len(new) - Len(base) IN
    IF k >= 0 /\ SubSeq(new, k + 1, Len(new)) = base
    THEN [order |-> <<>>, prepend |-> SubSeq(new, 1, k), append |-> <<>>, full |-> FALSE]
    ELSE IF k >= 0 /\ SubSeq(new, 1, Len(base)) = base
    THEN [order |-> <<>>, prepend |-> <<>>, append |-> SubSeq(new, Len(base) + 1, Len(new)), full |-> FALSE]
    ELSE [order |-> new, prepend |-> <<>>, append |-> <<>>, full |-> TRUE]

ById(S) == SetToSortSeq(S, LAMBDA x, y : x.id < y.id)
\* keyedCollectionDiff
CollectionDiff(old, new) ==
    LET order == IF Ids(old) = Ids(new) THEN [order |-> <<>>, prepend |-> <<>>, append |-> <<>>, full |-> FALSE]
                 ELSE CompactOrder(Ids(old), Ids(new))
        keys(s) == [i \in DOMAIN s |-> GoKey(s[i])] IN
    [inserted |-> ById({r \in ToSet(new) : r.id \notin IdSet(old)}),
     updated |-> ById({r \in ToSet(new) : r.id \in IdSet(old) /\ RowOf(old, r.id) # r}),
     deleted |-> {GoKey(i) : i \in IdSet(old) \ IdSet(new)},
     order |-> keys(order.order), full |-> order.full,
     prepend |-> keys(order.prepend), append |-> keys(order.append)]

Full(r) == [type |-> "result", result |-> r]
\* keyedObjectResultPatch: the same properties, and every changed one a keyed list.
ObjectPatch(old, new) ==
    LET changed == {p \in DOMAIN new.parts : old.parts[p] # new.parts[p]} IN
    IF changed # {} /\ \A p \in changed : Keyed(old.parts[p]) /\ Keyed(new.parts[p])
    THEN [type |-> "objectPatch", parts |-> [p \in changed |-> CollectionDiff(old.parts[p], new.parts[p])]]
    ELSE Full(new)

\* keyedResultPatch; without a patch the full result is sent.
ResultPatch(old, new) ==
    IF new.shape = "object" THEN IF old.shape = "object" THEN ObjectPatch(old, new) ELSE Full(new)
    ELSE IF old.shape = "object" \/ ~Keyed(old.rows) \/ ~Keyed(new.rows) \/ old.rows = new.rows THEN Full(new)
    ELSE IF new.shape = "page" THEN [type |-> "pagePatch", patch |-> CollectionDiff(old.rows, new.rows), rest |-> new.rest]
    ELSE [type |-> "patch", patch |-> CollectionDiff(old.rows, new.rows)]

-----------------------------------------------------------------------------
(* The client. *)

Failed0 == <<[id |-> -1, text |-> 0]>>
\* A Map keeps the place of a key that is set again and appends a new one.
SetRow(m, r) ==
    LET at == {i \in DOMAIN m : m[i].id = r.id} IN
    IF at = {} THEN Append(m, r) ELSE [i \in DOMAIN m |-> IF i \in at THEN r ELSE m[i]]
SetRows(m, rows) == FoldLeft(SetRow, m, rows)
Has(m, k) == \E i \in DOMAIN m : JsKey(m[i].id) = k
Get(m, k) == m[CHOOSE i \in DOMAIN m : JsKey(m[i].id) = k]

\* applyKeyedPatch
ApplyKeyedPatch(rows, p) ==
    LET kept == SelectSeq(rows, LAMBDA r : JsKey(r.id) \notin p.deleted)
        m == SetRows(SetRows(kept, p.inserted), p.updated)
        moved == ToSet(p.prepend) \cup ToSet(p.append)
        pick(keys) == [i \in DOMAIN keys |-> Get(m, keys[i])]
        held(keys) == \A i \in DOMAIN keys : Has(m, keys[i]) IN
    IF ~Keyed(rows) THEN Failed0
    ELSE IF p.full
    THEN IF Len(p.order) # Len(m) \/ ~held(p.order) THEN Failed0 ELSE pick(p.order)
    ELSE IF p.prepend = <<>> /\ p.append = <<>> THEN m
    ELSE IF ~held(p.prepend) \/ ~held(p.append) THEN Failed0
    ELSE pick(p.prepend) \o SelectSeq(m, LAMBDA r : JsKey(r.id) \notin moved) \o pick(p.append)

Overlay(old, new) == [k \in DOMAIN old \cup DOMAIN new |-> IF k \in DOMAIN new THEN new[k] ELSE old[k]]
\* A patch that does not fit makes the client ask for the whole result, which is
\* then sent: Snapshot.
Snapshot == after
Rebuild(old, m) ==
    CASE m.type = "result" -> m.result
      [] m.type = "patch" ->
           IF old.shape # "list" \/ ApplyKeyedPatch(old.rows, m.patch) = Failed0 THEN Snapshot
           ELSE [shape |-> "list", rows |-> ApplyKeyedPatch(old.rows, m.patch)]
      [] m.type = "pagePatch" ->
           IF old.shape # "page" \/ ApplyKeyedPatch(old.rows, m.patch) = Failed0 THEN Snapshot
           ELSE [shape |-> "page", rows |-> ApplyKeyedPatch(old.rows, m.patch), rest |-> Overlay(old.rest, m.rest)]
      [] m.type = "objectPatch" ->
           IF old.shape # "object" \/ \E p \in DOMAIN m.parts : ApplyKeyedPatch(old.parts[p], m.parts[p]) = Failed0 THEN Snapshot
           ELSE [shape |-> "object",
                 parts |-> [p \in DOMAIN old.parts |-> IF p \in DOMAIN m.parts THEN ApplyKeyedPatch(old.parts[p], m.parts[p])
                                                       ELSE old.parts[p]]]

Parts(r) == IF r.shape = "object" THEN r.parts ELSE [one |-> r.rows, two |-> <<>>]

-----------------------------------------------------------------------------
PatchInit ==
    /\ \/ before \in Lists /\ after \in Lists
       \/ before \in Pages /\ after \in Pages
       \/ before \in Objects /\ after \in Objects
       \/ before \in {r \in Lists \cup Pages : Len(r.rows) <= 1} /\ after \in {r \in Pages \cup Lists : Len(r.rows) <= 1}
    /\ rebuilt = Nothing

SendPatch ==
    /\ rebuilt = Nothing /\ rebuilt' = Rebuild(before, ResultPatch(before, after))
    /\ UNCHANGED <<before, after>>

-----------------------------------------------------------------------------
\* Whatever two results follow each other, the client rebuilds the second from the
\* first and the patch: every row, its text and its place.  Excused are a page that
\* loses a property, which the client keeps, and deleted rows whose IDs the two
\* sides print differently, which it does not find (keyedResultPatch,
\* applyKeyedPatch).
PatchRebuilds ==
    \/ rebuilt \in {Nothing, after}
    \/ after.shape = "page" /\ ~(DOMAIN before.rest \subseteq DOMAIN after.rest)
    \/ \E p \in {"one", "two"} : (IdSet(Parts(before)[p]) \ IdSet(Parts(after)[p])) \cap Odd # {}
================================================================================
