--------------------------- MODULE DurableSyncProofs ---------------------------
(***************************************************************************)
(* What DurableSync promises, for every number of collections, commits and *)
(* failures: the cursors of the runtime cover no more than was delivered,  *)
(* and the tab counts nothing as up to date that it no longer hears of     *)
(* (CursorsStayHonest).                                                    *)
(***************************************************************************)
EXTENDS DurableSync, FiniteSetTheorems, SequenceTheorems, WellFoundedInduction, TLAPS

-----------------------------------------------------------------------------
(* The types.                                                              *)

Cast == [type : {"syncing", "reset", "error", "needHashes"}, c : Collection]
Messages ==
    Cast \cup [type : {"ready", "snapshot"}, c : Collection, cur : Cursor, rows : Rows]
         \cup [type : {"delta"}, c : Collection, cur : Cursor, ups : Rows, del : Rows]
         \cup [type : {"watermark"}, rev : Revision]
OpenType == [c : Collection, cur : Cursor, rows : Rows, full : BOOLEAN]
Mark == [rev : Revision, waiting : SUBSET Collection]
SubType == [on : {TRUE}, cur : Cursor, seen : Rows, verified : BOOLEAN,
            proof : [compact : BOOLEAN, rows : Rows], running : {"no", "ready", "ended"},
            pending : BOOLEAN, stage : {"free", "worker", "reader"}, latest : Cursor]
Idle == [stage |-> "idle"]
ReaderType == [stage : {"snapshot", "attach", "attached", "deliver"}, c : Collection,
               resume : BOOLEAN, base : Cursor, rows : Rows, sub : SubType]
ClientType == [cur : Cursor, rows : Rows, floor : Cursor, retired : SUBSET Nat,
               opening : {"no", "sent", "hashing", "lost"}, hashed : BOOLEAN, force : BOOLEAN,
               upToDate : BOOLEAN, verifying : [cur : Cursor, rows : Rows], retry : BOOLEAN]

DatabaseOK ==
    /\ log \in Seq(Table) /\ Clock <= MaxRevision /\ retained \in 0 .. Clock
    /\ faults \in [Fault -> Nat] /\ \A f \in Fault : faults[f] <= FaultLimit[f]
    /\ epoch = 1 + faults["redefine"]
ListenerOK ==
    /\ notes \in Seq(Nat) /\ \A i \in 1 .. Len(notes) : notes[i] \in 1 .. Clock
    /\ events \subseteq Collection /\ {listening, connected} \subseteq BOOLEAN
ServerOK ==
    /\ subs \in [Collection -> {NoSub} \cup SubType]
    /\ reader \in {Idle} \cup ReaderType /\ marks \in Seq(Mark)
WireOK ==
    /\ inbox \in Seq(OpenType) /\ out \in Seq(Messages)
    /\ opened \subseteq Collection /\ online \in BOOLEAN
TabOK == client \in [Collection -> ClientType]
Types == DatabaseOK /\ ListenerOK /\ ServerOK /\ WireOK /\ TabOK

-----------------------------------------------------------------------------
(* What the cursors of the runtime cover.                                  *)

\* What a verified subscription has seen is the collection at its cursor or later;
\* a delivery under way will not set the cursor past what has been committed.
Honest(c, s) ==
    /\ s.verified => \E r \in s.cur.rev .. Clock : s.seen = Content(c, r)
    /\ s.latest.rev <= Clock
SubsHonest == \A c \in Collection : IsOn(c) => Honest(c, subs[c])
ReaderHonest == reader # Idle => Honest(reader.c, reader.sub) /\ reader.base.rev <= Clock
BasicInv == Types /\ SubsHonest /\ ReaderHonest

-----------------------------------------------------------------------------
(* What the tab still hears of.                                            *)

\* The tab counts the collection as up to date, or will when it has hashed.
Fresh(c) == client[c].upToDate \/ client[c].verifying # NoReady
Ends(m, c) == m.type \in {"syncing", "reset", "error", "needHashes"} /\ m.c = c
\* A frame after the i-th ends it.
Told(c, i) == \E j \in i + 1 .. Len(out) : Ends(out[j], c)
\* An open of it is on its way, or in hand and not attached.
InHand(c) == reader # Idle /\ reader.stage \in {"snapshot", "attach"} /\ reader.c = c
Opening(c) == InHand(c) \/ \E i \in 1 .. Len(inbox) : inbox[i].c = c
Heard(c) == (connected /\ IsOn(c)) \/ Opening(c)
FreshIsHeard ==
    \A c \in Collection :
        /\ Fresh(c) => Heard(c) \/ Told(c, 0)
        /\ \A i \in 1 .. Len(out) :
              out[i].type = "ready" /\ out[i].c = c => Heard(c) \/ Told(c, i)
\* A closed socket leaves nothing behind.
Offline ==
    ~online => /\ out = <<>> /\ inbox = <<>> /\ marks = <<>> /\ reader = Idle
               /\ \A c \in Collection : subs[c] = NoSub /\ ~Fresh(c)
SyncInv == BasicInv /\ FreshIsHeard /\ Offline

-----------------------------------------------------------------------------
(* What the operators return.                                              *)

\* What the assumptions say of the constants.
LEMMA ConstantTypes ==
    /\ IsFiniteSet(Collection) /\ MaxRevision \in Nat /\ MaxFrames \in Nat
    /\ FaultLimit \in [Fault -> Nat] /\ FaultLimit["redefine"] \in Nat
    /\ NoCursor \in Cursor /\ NoCursor.rev = 0 /\ {} \in Rows
  BY DurableSyncAssumption DEF Fault, NoCursor, Cursor, Revision, Rows

\* A set of natural numbers that is not empty has a least element.
LEMMA LeastNat ==
    ASSUME NEW S \in SUBSET Nat, S # {}
    PROVE  \E m \in S : \A k \in S : m <= k
<1>1. \E m \in S : \A k \in S : ~(<<k, m>> \in OpToRel(<, Nat))
  BY NatLessThanWellFounded, WFMin
<1>2. \A m, k \in S : <<k, m>> \in OpToRel(<, Nat) <=> k < m
  BY DEF OpToRel
<1>3. \E m \in S : \A k \in S : ~(k < m)
  BY <1>1, <1>2, Zenon
<1> QED
  BY <1>3

\* There is a first watermark that waits, or all go.
LEMMA ReleasableIs ==
    ASSUME NEW ms \in Seq(Mark)
    PROVE  Releasable(ms) \in 0 .. Len(ms)
<1>1. Len(ms) \in Nat
  OBVIOUS
<1> DEFINE S == {n \in 0 .. Len(ms) : n = Len(ms) \/ ms[n + 1].waiting # {}}
<1>2. S \in SUBSET Nat /\ Len(ms) \in S
  BY <1>1
<1>3. PICK m \in S : \A k \in S : m <= k
  BY <1>2, LeastNat
<1>4. \A i \in 1 .. m : ms[i].waiting = {}
  <2> SUFFICES ASSUME NEW i \in 1 .. m PROVE ms[i].waiting = {}
    OBVIOUS
  <2>1. i - 1 \in 0 .. Len(ms) /\ (i - 1) + 1 = i /\ ~(m <= i - 1)
    BY <1>1, <1>3
  <2>2. i - 1 \notin S
    BY <1>3, <2>1
  <2> QED
    BY <2>1, <2>2
<1>5. \E n \in 0 .. Len(ms) :
          /\ \A i \in 1 .. n : ms[i].waiting = {}
          /\ n = Len(ms) \/ ms[n + 1].waiting # {}
  BY <1>3, <1>4
<1> HIDE DEF S
<1> QED
  BY <1>5 DEF Releasable

\* Every element of the set is in the sequence.
LEMMA SetToSeqIs ==
    ASSUME NEW S, IsFiniteSet(S)
    PROVE  /\ SetToSeq(S) \in Seq(S) /\ Len(SetToSeq(S)) \in Nat
           /\ \A x \in S : \E i \in 1 .. Len(SetToSeq(S)) : SetToSeq(S)[i] = x
<1> DEFINE n == Cardinality(S)
           s == SetToSeq(S)
<1>1. n \in Nat /\ ExistsBijection(1 .. n, S)
  BY FS_CardinalityType
<1> HIDE DEF n
<1>2. PICK f \in [1 .. n -> S] : IsInjective(f)
  BY <1>1 DEF ExistsBijection, Bijection, Injection
<1>3. s \in [1 .. n -> S] /\ IsInjective(s)
  BY <1>2 DEF SetToSeq, n
<1> HIDE DEF s
<1>4. s \in Injection(1 .. n, S)
  BY <1>3 DEF Injection
<1>5. s \in Surjection(1 .. n, S)
  <2>1. Cardinality(1 .. n) = n
    BY <1>1, FS_Interval
  <2> QED
    BY <1>4, <2>1, FS_Injection DEF n
<1>6. s \in Seq(S) /\ Len(s) = n
  BY <1>1, <1>3
<1>7. s \in Seq(S) /\ Len(s) \in Nat /\ \A x \in S : \E i \in 1 .. Len(s) : s[i] = x
  BY <1>1, <1>5, <1>6 DEF Surjection
<1> QED
  BY <1>7 DEF s

Sortable(R) == \E s \in [1 .. Cardinality(R) -> R] :
                   \A i, j \in 1 .. Cardinality(R) : i < j => s[i] < s[j]

\* A set of revisions can be put in order, one revision at a time.
LEMMA AllSortable ==
    ASSUME NEW n \in Nat, NEW R \in SUBSET (1 .. n)
    PROVE  Sortable(R)
<1> DEFINE Bad == {k \in Nat : \E Q \in SUBSET (1 .. k) : ~Sortable(Q)}
<1>0. /\ \A k : k \in Bad => k \in Nat /\ \E Q \in SUBSET (1 .. k) : ~Sortable(Q)
      /\ \A k \in Nat : k \notin Bad => \A Q \in SUBSET (1 .. k) : Sortable(Q)
  BY Zenon
<1> HIDE DEF Bad
<1>1. SUFFICES Bad = {}
  BY <1>0
<1>2. SUFFICES ASSUME NEW m \in Bad, \A k \in Bad : m <= k
               PROVE  FALSE
  <2>1. Bad \in SUBSET Nat
    BY <1>0
  <2> QED
    BY <2>1, LeastNat
<1>3. PICK Q \in SUBSET (1 .. m) : ~Sortable(Q)
  BY <1>0, Zenon
<1>4. IsFiniteSet(Q) /\ m \in Nat
  <2>1. m \in Nat
    BY <1>0
  <2>2. IsFiniteSet(1 .. m)
    BY <2>1, FS_Interval
  <2> QED
    BY <2>1, <2>2, FS_Subset
<1>5. m # 0
  <2>1. ASSUME m = 0 PROVE Sortable(Q)
    <3>0. Q = {}
      BY <2>1
    <3>1. Q = {} /\ Cardinality(Q) = 0
      BY <3>0, FS_EmptySet
    <3>2. 1 .. 0 = {}
      OBVIOUS
    <3>3. [i \in 1 .. 0 |-> 0] \in [1 .. Cardinality(Q) -> Q]
      BY <3>1, <3>2
    <3> QED
      BY <3>2, <3>3 DEF Sortable
  <2> QED
    BY <1>3, <2>1
<1>6. m - 1 \in Nat /\ m - 1 \notin Bad
  BY <1>2, <1>4, <1>5
<1>7. \A P \in SUBSET (1 .. m - 1) : Sortable(P)
  BY <1>0, <1>6
<1>8. m \in Q
  <2>1. m \notin Q => Q \in SUBSET (1 .. m - 1)
    BY <1>4
  <2> QED
    BY <1>3, <1>7, <2>1
<1> DEFINE P == Q \ {m}
           k == Cardinality(P)
<1>9. P \in SUBSET (1 .. m - 1) /\ IsFiniteSet(P)
  BY <1>4, FS_Subset
<1>10. k \in Nat /\ Cardinality(Q) = k + 1
  BY <1>4, <1>8, <1>9, FS_CardinalityType, FS_RemoveElement
<1>11. PICK s \in [1 .. k -> P] : \A i, j \in 1 .. k : i < j => s[i] < s[j]
  <2>1. Sortable(P)
    BY <1>7, <1>9
  <2> QED
    BY <2>1 DEF Sortable
<1> HIDE DEF P, k
<1>12. \A i \in 1 .. k : s[i] \in Q /\ s[i] < m
  <2>1. \A i \in 1 .. k : s[i] \in P
    BY <1>11
  <2>2. \A x \in P : x \in Q /\ x < m
    BY <1>4, <1>9 DEF P
  <2> QED
    BY <2>1, <2>2
<1> DEFINE t == [i \in 1 .. k + 1 |-> IF i = k + 1 THEN m ELSE s[i]]
<1>13. t \in [1 .. k + 1 -> Q]
  BY <1>8, <1>10, <1>12
<1>14. \A i, j \in 1 .. k + 1 : i < j => t[i] < t[j]
  <2> SUFFICES ASSUME NEW i \in 1 .. k + 1, NEW j \in 1 .. k + 1, i < j
               PROVE  t[i] < t[j]
    OBVIOUS
  <2>1. i \in 1 .. k /\ t[i] = s[i]
    BY <1>10
  <2>2. CASE j = k + 1
    BY <1>12, <2>1, <2>2
  <2>3. CASE j # k + 1
    BY <1>10, <1>11, <2>1, <2>3
  <2> QED
    BY <2>2, <2>3
<1> HIDE DEF t
<1>15. Sortable(Q)
  BY <1>10, <1>13, <1>14 DEF Sortable
<1> QED
  BY <1>3, <1>15

\* What Ascending is.
LEMMA AscendingIs ==
    ASSUME NEW n \in Nat, NEW R \in SUBSET (1 .. n)
    PROVE  Ascending(R) \in Seq(R) /\ Len(Ascending(R)) \in Nat
<1>1. Ascending(R) \in [1 .. Cardinality(R) -> R]
  <2>1. PICK s \in [1 .. Cardinality(R) -> R] :
            \A i, j \in 1 .. Cardinality(R) : i < j => s[i] < s[j]
    BY AllSortable DEF Sortable
  <2>2. \A i, j \in DOMAIN s : i < j => s[i] < s[j]
    BY <2>1
  <2> QED
    BY <2>2 DEF Ascending
<1>2. Cardinality(R) \in Nat
  <2>1. IsFiniteSet(1 .. n)
    BY FS_Interval
  <2>2. IsFiniteSet(R)
    BY <2>1, FS_Subset
  <2> QED
    BY <2>2, FS_CardinalityType
<1> QED
  BY <1>1, <1>2

\* The frames are written in order, and then watermarks.
LEMMA SendIs ==
    ASSUME WireOK, marks \in Seq(Mark), NEW frames \in Seq(Messages), NEW ms \in Seq(Mark),
           Send(frames, ms)
    PROVE  /\ out' \in Seq(Messages) /\ marks' \in Seq(Mark)
           /\ Len(out) \in Nat /\ Len(frames) \in Nat /\ Len(out') \in Nat
           /\ Len(out) + Len(frames) <= Len(out')
           /\ \A i \in 1 .. Len(out) : out'[i] = out[i]
           /\ \A i \in 1 .. Len(frames) : out'[Len(out) + i] = frames[i]
           /\ \A i \in Len(out) + Len(frames) + 1 .. Len(out') : out'[i].type = "watermark"
           /\ ms = <<>> => marks' = <<>> /\ Len(out') = Len(out) + Len(frames)
<1> DEFINE n == Releasable(ms)
           M == Messages
           tail == [i \in 1 .. n |-> WatermarkFrame(ms[i].rev)]
<1>1. n \in 0 .. Len(ms) /\ Len(ms) \in Nat /\ out \in Seq(M) /\ frames \in Seq(M)
  BY ReleasableIs DEF WireOK
<1>2. marks' = SubSeq(ms, n + 1, Len(ms)) /\ out' = out \o frames \o tail
  BY DEF Send
<1> HIDE DEF n
<1>3. \A i \in 1 .. Len(ms) : ms[i] \in Mark
  OBVIOUS
<1>4. marks' \in Seq(Mark)
  BY <1>1, <1>2, <1>3, SubSeqProperties
<1>5. tail \in Seq(M) /\ Len(tail) = n /\ \A i \in 1 .. n : tail[i].type = "watermark"
  <2>1. \A i \in 1 .. n : WatermarkFrame(ms[i].rev) \in M /\ WatermarkFrame(ms[i].rev).type = "watermark"
    BY <1>1, <1>3 DEF WatermarkFrame, Messages, Mark
  <2> HIDE DEF M
  <2> QED
    BY <1>1, <2>1
<1> HIDE DEF M, tail
<1>6. /\ out \o frames \in Seq(M) /\ Len(out \o frames) = Len(out) + Len(frames)
      /\ \A i \in 1 .. Len(out) + Len(frames) :
            (out \o frames)[i] = IF i <= Len(out) THEN out[i] ELSE frames[i - Len(out)]
  BY <1>1, ConcatProperties
<1>7. /\ out' \in Seq(M) /\ Len(out') = Len(out) + Len(frames) + n
      /\ \A i \in 1 .. Len(out) + Len(frames) + n :
            out'[i] = IF i <= Len(out) + Len(frames) THEN (out \o frames)[i]
                      ELSE tail[i - (Len(out) + Len(frames))]
  <2> DEFINE pre == out \o frames
  <2>1. out' = pre \o tail /\ pre \in Seq(M) /\ Len(pre) = Len(out) + Len(frames)
    BY <1>2, <1>6
  <2> HIDE DEF pre
  <2>2. /\ pre \o tail \in Seq(M) /\ Len(pre \o tail) = Len(pre) + Len(tail)
        /\ \A i \in 1 .. Len(pre) + Len(tail) :
              (pre \o tail)[i] = IF i <= Len(pre) THEN pre[i] ELSE tail[i - Len(pre)]
    <3>1. tail \in Seq(M) /\ pre \in Seq(M)
      BY <1>5, <2>1
    <3> QED
      BY <3>1, ConcatProperties
  <2>3. /\ out' \in Seq(M) /\ Len(out') = Len(out) + Len(frames) + n
        /\ \A i \in 1 .. Len(out) + Len(frames) + n :
              out'[i] = IF i <= Len(out) + Len(frames) THEN pre[i]
                        ELSE tail[i - (Len(out) + Len(frames))]
    BY <1>5, <2>1, <2>2
  <2> QED
    BY <2>3 DEF pre
<1>8. Len(out) \in Nat /\ Len(frames) \in Nat /\ n \in Nat
  BY <1>1
<1>9. \A i \in 1 .. Len(out) : out'[i] = out[i]
  BY <1>6, <1>7, <1>8
<1>10. \A i \in 1 .. Len(frames) : out'[Len(out) + i] = frames[i]
  <2> SUFFICES ASSUME NEW i \in 1 .. Len(frames) PROVE out'[Len(out) + i] = frames[i]
    OBVIOUS
  <2>1. /\ Len(out) + i \in 1 .. Len(out) + Len(frames) /\ ~(Len(out) + i <= Len(out))
        /\ (Len(out) + i) - Len(out) = i /\ Len(out) + i \in 1 .. Len(out) + Len(frames) + n
        /\ Len(out) + i <= Len(out) + Len(frames)
    BY <1>8
  <2> QED
    BY <1>6, <1>7, <2>1
<1>11. \A i \in Len(out) + Len(frames) + 1 .. Len(out') : out'[i].type = "watermark"
  <2> SUFFICES ASSUME NEW i \in Len(out) + Len(frames) + 1 .. Len(out')
               PROVE  out'[i].type = "watermark"
    OBVIOUS
  <2>1. /\ i - (Len(out) + Len(frames)) \in 1 .. n /\ ~(i <= Len(out) + Len(frames))
        /\ i \in 1 .. Len(out) + Len(frames) + n
    BY <1>7, <1>8
  <2>2. out'[i] = tail[i - (Len(out) + Len(frames))]
    BY <1>7, <2>1
  <2> QED
    BY <1>5, <2>1, <2>2
<1>12. ms = <<>> => n = 0 /\ marks' = <<>>
  <2> SUFFICES ASSUME ms = <<>> PROVE n = 0 /\ marks' = <<>>
    OBVIOUS
  <2>1. Len(ms) = 0 /\ n = 0
    BY <1>1
  <2> QED
    BY <1>2, <2>1, SubSeqEmpty
<1> QED
  BY <1>4, <1>7, <1>8, <1>9, <1>10, <1>11, <1>12 DEF M

\* What Ended is.
LEMMA EndedIs ==
    ASSUME NEW s \in SubType, NEW by \in {"worker", "reader"}
    PROVE  /\ Ended(s, by) \in SubType /\ Ended(s, by).latest = NoCursor
           /\ Ended(s, by).cur = s.cur /\ Ended(s, by).seen = s.seen
           /\ Ended(s, by).verified = s.verified
  BY ConstantTypes DEF Ended, SubType

\* What Begun is.
LEMMA BegunIs ==
    ASSUME NEW s \in SubType
    PROVE  /\ Begun(s) \in SubType /\ Begun(s).latest = s.latest
           /\ Begun(s).cur = s.cur /\ Begun(s).seen = s.seen
           /\ Begun(s).verified = s.verified
<1>1. CASE s.running = "no"
  BY <1>1 DEF Begun, SubType
<1>2. CASE s.running # "no"
  BY <1>2 DEF Begun, SubType
<1> QED
  BY <1>1, <1>2

\* What Unproven is.
LEMMA UnprovenIs ==
    ASSUME NEW cur \in Cursor, NEW rows \in Rows,
           NEW proof \in [compact : BOOLEAN, rows : Rows]
    PROVE  \E s \in SubType : /\ s = SubFor(cur, rows, FALSE, proof)
                              /\ s.verified = FALSE /\ s.latest = NoCursor
<1>1. SubFor(cur, rows, FALSE, proof) \in SubType
  BY ConstantTypes DEF SubFor, SubType
<1>2. /\ SubFor(cur, rows, FALSE, proof).verified = FALSE
      /\ SubFor(cur, rows, FALSE, proof).latest = NoCursor
  BY DEF SubFor
<1> QED
  BY <1>1, <1>2

\* What Snapshot is.
LEMMA SnapshotIs ==
    ASSUME NEW cur \in Cursor, NEW rows \in Rows
    PROVE  \E s \in SubType : /\ s = SubFor(cur, rows, TRUE, [compact |-> FALSE, rows |-> {}])
                              /\ s.latest = NoCursor /\ s.cur = cur /\ s.seen = rows
<1> DEFINE s == SubFor(cur, rows, TRUE, [compact |-> FALSE, rows |-> {}])
<1>1. s \in SubType
  BY ConstantTypes DEF SubFor, SubType
<1>2. s.latest = NoCursor /\ s.cur = cur /\ s.seen = rows
  BY DEF SubFor
<1> QED
  BY <1>1, <1>2

\* What Resolve is.
LEMMA ResolveIs ==
    ASSUME NEW ms \in Seq(Mark), NEW c, NEW through
    PROVE  Resolve(ms, c, through) \in Seq(Mark)
<1> DEFINE v(i) == IF ms[i].rev <= through THEN [ms[i] EXCEPT !.waiting = @ \ {c}] ELSE ms[i]
<1>1. \A i \in 1 .. Len(ms) : v(i) \in Mark
  <2> SUFFICES ASSUME NEW i \in 1 .. Len(ms) PROVE v(i) \in Mark
    OBVIOUS
  <2>1. ms[i] \in Mark
    OBVIOUS
  <2>2. [ms[i] EXCEPT !.waiting = @ \ {c}] \in Mark
    BY <2>1 DEF Mark
  <2> QED
    BY <2>1, <2>2
<1>2. Len(ms) \in Nat /\ Resolve(ms, c, through) = [i \in 1 .. Len(ms) |-> v(i)]
  BY DEF Resolve
<1> HIDE DEF v
<1> QED
  BY <1>1, <1>2

\* What Latest is.
LEMMA LatestIs ==
    ASSUME DatabaseOK
    PROVE  /\ Clock \in 0 .. MaxRevision /\ Clock \in Nat
           /\ Latest \in Cursor /\ Latest.rev = Clock /\ epoch \in 1 .. 1 + FaultLimit["redefine"]
<1>1. Clock \in Nat /\ Clock <= MaxRevision
  BY DEF DatabaseOK, Clock
<1>2. epoch \in 1 .. 1 + FaultLimit["redefine"]
  <2>1. "redefine" \in Fault
    BY DEF Fault
  <2>2. faults["redefine"] \in Nat /\ faults["redefine"] <= FaultLimit["redefine"]
    BY <2>1 DEF DatabaseOK
  <2> QED
    BY <2>2, ConstantTypes DEF DatabaseOK
<1> QED
  BY <1>1, <1>2, ConstantTypes DEF Latest, Cursor, Revision

\* What Content is.
LEMMA ContentIs ==
    ASSUME DatabaseOK, NEW c \in Collection
    PROVE  /\ \A r \in 0 .. Clock : Content(c, r) \in Rows
           /\ \A r \in 0 .. Clock : Changes(c, r, Clock) \in SUBSET (1 .. MaxRevision)
<1>1. Clock \in Nat /\ Clock <= MaxRevision /\ MaxRevision \in Nat
  BY LatestIs, ConstantTypes DEF DatabaseOK
<1>2. ASSUME NEW r \in 0 .. Clock PROVE 1 .. r \subseteq 1 .. MaxRevision
  BY <1>1
<1>3. ASSUME NEW r \in 0 .. Clock PROVE r + 1 .. Clock \subseteq 1 .. MaxRevision
  BY <1>1
<1>4. \A r \in 0 .. Clock : Content(c, r) \subseteq 1 .. r
  BY DEF Content
<1>5. \A r \in 0 .. Clock : Changes(c, r, Clock) \subseteq r + 1 .. Clock
  BY DEF Changes
<1> QED
  BY <1>2, <1>3, <1>4, <1>5 DEF Rows

\* A delta for each of the changes of the log after the cursor.
LEMMA DeltasAre ==
    ASSUME DatabaseOK, NEW c \in Collection, NEW changes \in SUBSET (1 .. MaxRevision)
    PROVE  /\ DeltasOf(c, changes) \in Seq(Messages)
           /\ \A i \in 1 .. Len(DeltasOf(c, changes)) : DeltasOf(c, changes)[i].type = "delta"
<1> DEFINE revs == Ascending(changes)
           d(i) == DeltaFrame(c, [ep |-> epoch, rev |-> revs[i]], {revs[i]}, {})
           M == Messages
<1>1. revs \in Seq(changes) /\ Len(revs) \in Nat
  BY AscendingIs, ConstantTypes
<1>2. \A i \in 1 .. Len(revs) : d(i) \in M /\ d(i).type = "delta"
  <2> SUFFICES ASSUME NEW i \in 1 .. Len(revs) PROVE d(i) \in M /\ d(i).type = "delta"
    OBVIOUS
  <2> HIDE DEF revs
  <2>1. revs[i] \in 1 .. MaxRevision
    BY <1>1, ElementOfSeq
  <2>2. revs[i] \in Revision /\ {revs[i]} \in Rows /\ {} \in Rows
    BY <2>1, ConstantTypes DEF Revision, Rows
  <2>3. [ep |-> epoch, rev |-> revs[i]] \in Cursor
    BY <2>2, LatestIs, ConstantTypes DEF Cursor
  <2> QED
    BY <2>2, <2>3 DEF DeltaFrame, Messages
<1>3. DeltasOf(c, changes) = [i \in 1 .. Len(revs) |-> d(i)]
  BY DEF DeltasOf
<1> HIDE DEF revs, d, M
<1>4. DeltasOf(c, changes) \in Seq(M) /\ Len(DeltasOf(c, changes)) = Len(revs)
      /\ \A i \in 1 .. Len(revs) : DeltasOf(c, changes)[i].type = "delta"
  BY <1>1, <1>2, <1>3
<1> QED
  BY <1>4 DEF M

\* What Final is.
LEMMA FinalIs ==
    ASSUME NEW c \in Collection, NEW type \in {"reset", "error", "needHashes", "syncing"}
    PROVE  /\ <<Frame(type, c)>> \in Seq(Messages) /\ Len(<<Frame(type, c)>>) = 1
           /\ Ends(<<Frame(type, c)>>[1], c)
           /\ \A i \in 1 .. Len(<<Frame(type, c)>>) : <<Frame(type, c)>>[i].type # "ready"
<1> DEFINE M == Messages
           f == Frame(type, c)
<1>1. f \in M /\ Ends(f, c) /\ f.type # "ready"
  BY DEF Frame, Messages, Cast, Ends
<1> HIDE DEF M, f
<1>2. <<f>> \in Seq(M) /\ Len(<<f>>) = 1 /\ <<f>>[1] = f
  BY <1>1
<1>3. \A i \in 1 .. Len(<<f>>) : <<f>>[i].type # "ready"
  BY <1>1, <1>2
<1> QED
  BY <1>1, <1>2, <1>3 DEF M, f

\* A frame that ends an open may be sent as a batch of its own.
LEMMA FinalSent ==
    ASSUME NEW c \in Collection, NEW type \in {"reset", "error", "needHashes", "syncing"},
           NEW m \in Seq(Mark), Send(<<Frame(type, c)>>, m)
    PROVE  \E fs \in Seq(Messages), ms \in Seq(Mark) :
               /\ Send(fs, ms) /\ \E i \in 1 .. Len(fs) : Ends(fs[i], c)
               /\ \A i \in 1 .. Len(fs) : fs[i].type # "ready"
<1>1. PICK fs \in Seq(Messages) :
          /\ fs = <<Frame(type, c)>> /\ Len(fs) = 1 /\ Ends(fs[1], c)
          /\ \A i \in 1 .. Len(fs) : fs[i].type # "ready"
  BY FinalIs
<1>2. 1 \in 1 .. Len(fs) /\ Send(fs, m)
  BY <1>1
<1> QED
  BY <1>1, <1>2

\* A ready is only written while the runtime hears of changes.
LEMMA ReadyIs ==
    ASSUME NEW frames \in Seq(Messages), \A i \in 1 .. Len(frames) : frames[i].type # "ready",
           marks \in Seq(Mark), NEW c \in Collection, NEW cur \in Cursor, NEW rows \in Rows,
           SendReady(frames, c, cur, rows)
    PROVE  \E fs \in Seq(Messages), ms \in Seq(Mark) :
               /\ Send(fs, ms)
               /\ \A i \in 1 .. Len(fs) : fs[i].type = "ready" => connected /\ fs[i].c = c
<1>1. CASE connected
  <2> DEFINE M == Messages
             f == ReadyFrame(c, cur, rows)
             ms == Resolve(marks, c, cur.rev)
  <2>1. f \in M /\ f.c = c
    BY DEF ReadyFrame, Messages
  <2>2. ms \in Seq(Mark) /\ Send(frames \o <<f>>, ms)
    BY <1>1, ResolveIs DEF SendReady
  <2> HIDE DEF M, f, ms
  <2>3. frames \in Seq(M) /\ <<f>> \in Seq(M) /\ Len(<<f>>) = 1 /\ <<f>>[1] = f
    BY <2>1 DEF M
  <2>4. /\ frames \o <<f>> \in Seq(M) /\ Len(frames \o <<f>>) = Len(frames) + Len(<<f>>)
        /\ \A i \in 1 .. Len(frames) + Len(<<f>>) :
              (frames \o <<f>>)[i] = IF i <= Len(frames) THEN frames[i] ELSE <<f>>[i - Len(frames)]
    BY <2>3, ConcatProperties
  <2>5. ASSUME NEW i \in 1 .. Len(frames \o <<f>>), (frames \o <<f>>)[i].type = "ready"
        PROVE  (frames \o <<f>>)[i].c = c
    <3>1. Len(frames) \in Nat /\ i \in 1 .. Len(frames) + 1
      BY <2>3, <2>4
    <3>2. CASE i <= Len(frames)
      <4>1. i \in 1 .. Len(frames)
        BY <3>1, <3>2
      <4>2. (frames \o <<f>>)[i] = frames[i]
        BY <2>3, <2>4, <3>1, <3>2
      <4> QED
        BY <2>5, <4>1, <4>2
    <3>3. CASE ~(i <= Len(frames))
      <4>1. i - Len(frames) = 1
        BY <3>1, <3>3
      <4> QED
        BY <2>1, <2>3, <2>4, <3>1, <3>3, <4>1
    <3> QED
      BY <3>2, <3>3
  <2> DEFINE g == frames \o <<f>>
  <2>6. g \in Seq(M) /\ Send(g, ms) /\ \A i \in 1 .. Len(g) : g[i].type = "ready" => g[i].c = c
    BY <2>2, <2>4, <2>5
  <2> HIDE DEF g
  <2> QED
    BY <1>1, <2>2, <2>6 DEF M
<1>2. CASE ~connected
  BY <1>2 DEF SendReady
<1> QED
  BY <1>1, <1>2

-----------------------------------------------------------------------------
(* The collections of the tab.                                             *)

Fr(k) == k.upToDate \/ k.verifying # NoReady

\* What Raise is.
LEMMA RaiseIs ==
    ASSUME NEW k \in ClientType, NEW cur \in Cursor
    PROVE  /\ Raise(k, cur) \in ClientType
           /\ Raise(k, cur).upToDate = k.upToDate /\ Raise(k, cur).verifying = k.verifying
<1> DEFINE R == IF k.floor.ep \notin {0, cur.ep} THEN k.retired \cup {k.floor.ep} ELSE k.retired
           F == IF k.floor.ep # cur.ep \/ cur.rev > k.floor.rev THEN cur ELSE k.floor
<1>1. R \in SUBSET Nat
  BY ConstantTypes DEF ClientType, Cursor
<1>2. F \in Cursor
  BY DEF ClientType
<1>3. Raise(k, cur) = [k EXCEPT !.retired = R, !.floor = F]
  BY DEF Raise
<1> HIDE DEF R, F
<1> QED
  BY <1>1, <1>2, <1>3 DEF ClientType

\* What Unverified is.
LEMMA UnverifiedIs ==
    ASSUME NEW k \in ClientType
    PROVE  Unverified(k) \in ClientType /\ ~Fr(Unverified(k)) /\ Unverified(k).opening = k.opening
<1>1. NoReady \in [cur : Cursor, rows : Rows]
  BY ConstantTypes DEF NoReady
<1> QED
  BY <1>1 DEF Unverified, Fr, ClientType

\* What Replaced is.
LEMMA ReplacedIs ==
    ASSUME NEW k \in ClientType, NEW cur \in Cursor, NEW rows \in Rows
    PROVE  Replaced(k, cur, rows) \in ClientType /\ ~Fr(Replaced(k, cur, rows))
<1>1. PICK u \in ClientType : u = Raise(Unverified(k), cur) /\ ~Fr(u)
  BY UnverifiedIs, RaiseIs DEF Fr
<1>2. PICK o \in {"no", "sent", "hashing", "lost"} :
          Replaced(k, cur, rows) =
              [u EXCEPT !.cur = cur, !.rows = rows, !.hashed = FALSE, !.retry = FALSE, !.opening = o]
  <2>1. u.opening \in {"no", "sent", "hashing", "lost"}
    BY DEF ClientType
  <2> QED
    BY <1>1, <2>1 DEF Replaced
<1>3. Replaced(k, cur, rows) \in ClientType
  BY <1>2 DEF ClientType
<1>4. /\ Replaced(k, cur, rows).upToDate = u.upToDate
      /\ Replaced(k, cur, rows).verifying = u.verifying
  BY <1>2 DEF ClientType
<1> QED
  BY <1>1, <1>3, <1>4 DEF Fr

\* What Emptied is.
LEMMA EmptiedIs ==
    ASSUME NEW k \in ClientType
    PROVE  Emptied(k) \in ClientType /\ ~Fr(Emptied(k))
<1>1. PICK u \in ClientType : u = Unverified(k) /\ ~Fr(u)
  BY UnverifiedIs
<1>2. Emptied(k) = [u EXCEPT !.cur = NoCursor, !.rows = {}, !.hashed = FALSE, !.force = FALSE,
                             !.opening = "no", !.retry = FALSE]
  BY <1>1 DEF Emptied
<1>3. NoCursor \in Cursor /\ {} \in Rows
  BY ConstantTypes
<1>4. Emptied(k) \in ClientType
  BY <1>2, <1>3 DEF ClientType
<1>5. Emptied(k).upToDate = u.upToDate /\ Emptied(k).verifying = u.verifying
  BY <1>2 DEF ClientType
<1> QED
  BY <1>1, <1>4, <1>5 DEF Fr

\* What Accepted is.
LEMMA AcceptedIs ==
    ASSUME NEW k \in ClientType, NEW ready, ready.cur \in Cursor
    PROVE  Accepted(k, ready) \in ClientType
<1>1. PICK u \in ClientType : u = Raise(k, ready.cur)
  BY RaiseIs
<1>2. Accepted(k, ready) =
          [u EXCEPT !.upToDate = TRUE, !.opening = "no", !.cur = ready.cur,
                    !.hashed = TRUE, !.force = FALSE, !.retry = FALSE, !.verifying = NoReady]
  BY <1>1 DEF Accepted
<1>3. NoReady \in [cur : Cursor, rows : Rows]
  BY ConstantTypes DEF NoReady
<1> QED
  BY <1>1, <1>2, <1>3 DEF ClientType

\* What Asked is.
LEMMA AskedIs ==
    ASSUME NEW k \in ClientType
    PROVE  Asked(k) \in ClientType /\ (Fr(Asked(k)) <=> Fr(k))
<1>1. CASE k.opening # "no"
  BY <1>1 DEF Asked
<1>2. CASE k.opening = "no"
  <2>1. PICK o \in {"hashing", "sent"} : Asked(k) = [k EXCEPT !.opening = o]
    BY <1>2 DEF Asked
  <2> QED
    BY <2>1 DEF ClientType, Fr
<1> QED
  BY <1>1, <1>2

\* What OpenFrame is.
LEMMA OpenFrameIs ==
    ASSUME NEW c \in Collection, NEW k \in ClientType
    PROVE  OpenFrame(c, k) \in OpenType /\ OpenFrame(c, k).c = c
  BY DEF OpenFrame, OpenType, ClientType

\* A step of the tab on one collection: an open may be sent for it.
Moved(c, k) ==
    \E u \in ClientType :
        /\ client' = [client EXCEPT ![c] = u] /\ (Fr(u) => Fr(k))
        /\ inbox' \in Seq(OpenType)
        /\ \A d \in Collection : (\E i \in 1 .. Len(inbox) : inbox[i].c = d)
                                     => \E i \in 1 .. Len(inbox') : inbox'[i].c = d

\* What Keep is.
LEMMA KeepIs ==
    ASSUME WireOK, NEW c \in Collection, NEW k \in ClientType, Keep(c, k)
    PROVE  Moved(c, k)
  BY DEF WireOK, Keep, Moved

\* What SendOpen is.
LEMMA SendOpenIs ==
    ASSUME WireOK, NEW c \in Collection, NEW k \in ClientType, SendOpen(c, k)
    PROVE  Moved(c, k)
<1> DEFINE O == OpenType
           s == Opens(c, k)
<1>1. inbox \in Seq(O) /\ inbox' = inbox \o s
  BY DEF WireOK, SendOpen
<1>2. s \in Seq(O)
  <2>1. CASE s = <<>>
    BY <2>1
  <2>2. CASE s = <<OpenFrame(c, k)>>
    <3>1. OpenFrame(c, k) \in O
      BY OpenFrameIs
    <3> HIDE DEF O
    <3> QED
      BY <2>2, <3>1
  <2> QED
    BY <2>1, <2>2 DEF Opens
<1> HIDE DEF O, s
<1>3. /\ inbox' \in Seq(O) /\ Len(inbox') = Len(inbox) + Len(s)
      /\ \A i \in 1 .. Len(inbox) + Len(s) :
            inbox'[i] = IF i <= Len(inbox) THEN inbox[i] ELSE s[i - Len(inbox)]
  BY <1>1, <1>2, ConcatProperties
<1>4. Len(inbox) \in Nat /\ Len(s) \in Nat
  BY <1>1, <1>2
<1>5. \A i \in 1 .. Len(inbox) : i \in 1 .. Len(inbox') /\ inbox'[i] = inbox[i]
  BY <1>3, <1>4
<1>6. PICK u \in ClientType : u = Asked(k) /\ (Fr(u) => Fr(k))
  BY AskedIs
<1>7. client' = [client EXCEPT ![c] = u]
  BY <1>6 DEF SendOpen
<1> QED
  BY <1>3, <1>5, <1>6, <1>7 DEF Moved, O

-----------------------------------------------------------------------------
(* Hearing of what becomes fresh, whatever is written and read.            *)

\* Frames are written: who is not heard of any more is told so, and a ready
\* is only written for what is heard of.
LEMMA SendHears ==
    ASSUME WireOK, marks \in Seq(Mark), FreshIsHeard, UNCHANGED client,
           NEW frames \in Seq(Messages), NEW ms \in Seq(Mark), Send(frames, ms),
           \A c \in Collection : Heard(c) =>
               Heard(c)' \/ \E i \in 1 .. Len(frames) : Ends(frames[i], c),
           \A i \in 1 .. Len(frames), c \in Collection :
               frames[i].type = "ready" /\ frames[i].c = c => Heard(c)'
    PROVE  FreshIsHeard'
<1>1. /\ Len(out) \in Nat /\ Len(frames) \in Nat /\ Len(out') \in Nat
      /\ Len(out) + Len(frames) <= Len(out')
      /\ \A i \in 1 .. Len(out) : out'[i] = out[i]
      /\ \A i \in 1 .. Len(frames) : out'[Len(out) + i] = frames[i]
      /\ \A i \in Len(out) + Len(frames) + 1 .. Len(out') : out'[i].type = "watermark"
  BY SendIs
<1>2. ASSUME NEW c \in Collection, NEW i \in 0 .. Len(out), Told(c, i)
      PROVE  Told(c, i)'
  <2>1. PICK j \in i + 1 .. Len(out) : Ends(out[j], c)
    BY <1>2 DEF Told
  <2>2. j \in 1 .. Len(out) /\ j \in i + 1 .. Len(out')
    BY <1>1
  <2>3. Ends(out'[j], c)
    BY <1>1, <2>1, <2>2
  <2> QED
    BY <2>2, <2>3 DEF Told, Ends
<1>3. ASSUME NEW c \in Collection, NEW i \in 0 .. Len(out), NEW k \in 1 .. Len(frames),
             Ends(frames[k], c)
      PROVE  Told(c, i)'
  <2>1. Len(out) + k \in i + 1 .. Len(out')
    BY <1>1
  <2>2. Ends(out'[Len(out) + k], c)
    BY <1>1, <1>3
  <2> QED
    BY <2>1, <2>2 DEF Told, Ends
<1>4. ASSUME NEW c \in Collection, NEW i \in 0 .. Len(out), Heard(c) \/ Told(c, i)
      PROVE  Heard(c)' \/ Told(c, i)'
  BY <1>2, <1>3, <1>4
<1>5. ASSUME NEW c \in Collection, Fresh(c)'
      PROVE  Heard(c)' \/ Told(c, 0)'
  <2>1. Fresh(c)
    BY <1>5 DEF Fresh
  <2>2. 0 \in 0 .. Len(out)
    BY <1>1
  <2> QED
    BY <1>4, <2>1, <2>2 DEF FreshIsHeard
<1>6. ASSUME NEW c \in Collection, NEW i \in 1 .. Len(out'),
             out'[i].type = "ready", out'[i].c = c
      PROVE  Heard(c)' \/ Told(c, i)'
  <2>1. CASE i \in 1 .. Len(out)
    <3>1. out'[i] = out[i] /\ i \in 0 .. Len(out)
      BY <1>1, <2>1
    <3>2. Heard(c) \/ Told(c, i)
      BY <1>6, <2>1, <3>1 DEF FreshIsHeard
    <3> QED
      BY <1>4, <3>1, <3>2
  <2>2. CASE i \in Len(out) + 1 .. Len(out) + Len(frames)
    <3>1. i - Len(out) \in 1 .. Len(frames) /\ Len(out) + (i - Len(out)) = i
      BY <1>1, <2>2
    <3>2. out'[i] = frames[i - Len(out)]
      BY <1>1, <3>1
    <3> QED
      BY <1>6, <3>1, <3>2
  <2>3. CASE i \in Len(out) + Len(frames) + 1 .. Len(out')
    BY <1>1, <1>6, <2>3
  <2> QED
    BY <1>1, <2>1, <2>2, <2>3
<1> QED
  BY <1>5, <1>6 DEF FreshIsHeard

\* Nothing is written, and nothing becomes fresh.
LEMMA QuietHears ==
    ASSUME FreshIsHeard, UNCHANGED out,
           \A c \in Collection : Fresh(c)' => Fresh(c),
           \A c \in Collection : Heard(c) => Heard(c)'
    PROVE  FreshIsHeard'
<1>1. \A c \in Collection, i \in Nat : Told(c, i)' <=> Told(c, i)
  BY DEF Told
<1>2. \A c \in Collection : Fresh(c)' => Heard(c)' \/ Told(c, 0)'
  BY <1>1 DEF FreshIsHeard
<1>3. ASSUME NEW c \in Collection, NEW i \in 1 .. Len(out'), out'[i].type = "ready", out'[i].c = c
      PROVE  Heard(c)' \/ Told(c, i)'
  BY <1>1, <1>3 DEF FreshIsHeard
<1> QED
  BY <1>2, <1>3 DEF FreshIsHeard

\* The first frame is read: it may end what was fresh or make it fresh.
LEMMA ReadHears ==
    ASSUME WireOK, FreshIsHeard, out # <<>>, out' = Tail(out),
           \A c \in Collection : Heard(c) => Heard(c)',
           \A c \in Collection : Fresh(c)' =>
               \/ Fresh(c) /\ ~Ends(Head(out), c)
               \/ Head(out).type = "ready" /\ Head(out).c = c
    PROVE  FreshIsHeard'
<1> DEFINE M == Messages
<1>1. out \in Seq(M)
  BY DEF WireOK
<1> HIDE DEF M
<1>2. /\ Len(out) \in Nat /\ 1 \in 1 .. Len(out) /\ Head(out) = out[1] /\ Len(out') = Len(out) - 1
      /\ \A i \in 1 .. Len(out') : out'[i] = out[i + 1]
  BY <1>1, HeadTailProperties
<1>3. ASSUME NEW c \in Collection, NEW i \in 1 .. Len(out), Told(c, i)
      PROVE  Told(c, i - 1)'
  <2>1. PICK j \in i + 1 .. Len(out) : Ends(out[j], c)
    BY <1>3 DEF Told
  <2>2. j - 1 \in (i - 1) + 1 .. Len(out') /\ j - 1 \in 1 .. Len(out') /\ (j - 1) + 1 = j
    BY <1>2
  <2>3. out'[j - 1] = out[j]
    BY <1>2, <2>2
  <2> QED
    BY <2>1, <2>2, <2>3 DEF Told, Ends
<1>4. ASSUME NEW c \in Collection, Fresh(c)'
      PROVE  Heard(c)' \/ Told(c, 0)'
  <2>1. CASE Fresh(c) /\ ~Ends(Head(out), c)
    <3>1. CASE Heard(c)
      BY <3>1
    <3>2. CASE Told(c, 0)
      <4>1. PICK j \in 0 + 1 .. Len(out) : Ends(out[j], c)
        BY <3>2 DEF Told
      <4>2. j # 1
        BY <1>2, <2>1, <4>1
      <4>3. j \in 1 + 1 .. Len(out)
        BY <1>2, <4>2
      <4>4. Told(c, 1)
        BY <4>1, <4>3 DEF Told
      <4> QED
        BY <1>2, <1>3, <4>4
    <3> QED
      BY <2>1, <3>1, <3>2 DEF FreshIsHeard
  <2>2. CASE Head(out).type = "ready" /\ Head(out).c = c
    <3>1. Heard(c) \/ Told(c, 1)
      BY <1>2, <2>2 DEF FreshIsHeard
    <3> QED
      BY <1>2, <1>3, <3>1
  <2> QED
    BY <1>4, <2>1, <2>2
<1>5. ASSUME NEW c \in Collection, NEW i \in 1 .. Len(out'), out'[i].type = "ready", out'[i].c = c
      PROVE  Heard(c)' \/ Told(c, i)'
  <2>1. i + 1 \in 1 .. Len(out) /\ (i + 1) - 1 = i /\ out'[i] = out[i + 1]
    BY <1>2
  <2>2. Heard(c) \/ Told(c, i + 1)
    BY <1>5, <2>1 DEF FreshIsHeard
  <2> QED
    BY <1>3, <2>1, <2>2
<1> QED
  BY <1>4, <1>5 DEF FreshIsHeard

-----------------------------------------------------------------------------
(* Steps of the runtime.                                                   *)

\* A subscription is on when it is one.
LEMMA OnMeansSub ==
    ASSUME NEW s \in {NoSub} \cup SubType
    PROVE  (s.on <=> s \in SubType) /\ (s.on <=> s # NoSub)
<1>1. \A u \in SubType : u.on
  BY DEF SubType
<1>2. ~NoSub.on
  BY DEF NoSub
<1> QED
  BY <1>1, <1>2, Zenon

\* A collection is on at the server when it has a subscription.
LEMMA OnIsSub ==
    ASSUME ServerOK, NEW c \in Collection
    PROVE  /\ IsOn(c) <=> subs[c] \in SubType
           /\ IsOn(c) <=> subs[c] # NoSub
<1>1. subs[c] \in {NoSub} \cup SubType
  BY DEF ServerOK
<1> QED
  BY <1>1, OnMeansSub DEF IsOn

\* A step that sets one subscription keeps the others and what is known of them.
LEMMA SubsStep ==
    ASSUME ServerOK, SubsHonest, UNCHANGED log, NEW c \in Collection,
           NEW s \in {NoSub} \cup SubType, subs' = [subs EXCEPT ![c] = s],
           s \in SubType => Honest(c, s)
    PROVE  /\ subs' \in [Collection -> {NoSub} \cup SubType] /\ SubsHonest'
           /\ \A d \in Collection \ {c} : IsOn(d)' <=> IsOn(d)
           /\ IsOn(c)' <=> s \in SubType
<1>1. subs' \in [Collection -> {NoSub} \cup SubType] /\ subs'[c] = s
      /\ \A d \in Collection \ {c} : subs'[d] = subs[d]
  BY DEF ServerOK
<1>2. s.on <=> s \in SubType
  BY OnMeansSub
<1>3. ASSUME NEW d \in Collection, IsOn(d)'
      PROVE  Honest(d, subs[d])'
  <2>1. CASE d = c
    BY <1>1, <1>2, <1>3, <2>1 DEF IsOn, Honest, Clock, Content
  <2>2. CASE d # c
    BY <1>1, <1>3, <2>2 DEF SubsHonest, IsOn, Honest, Clock, Content
  <2> QED
    BY <2>1, <2>2
<1> QED
  BY <1>1, <1>2, <1>3 DEF SubsHonest, IsOn

\* A step on one subscription keeps the invariant when what it leaves is
\* honest and the tab is told of what it drops.
LEMMA ServerWrites ==
    ASSUME SyncInv, DatabaseOK', NEW c \in Collection, IsOn(c),
           NEW s \in {NoSub} \cup SubType, subs' = [subs EXCEPT ![c] = s],
           s \in SubType => Honest(c, s),
           UNCHANGED <<log, notes, listening, connected, inbox, online, opened, client>>,
           events' \subseteq Collection,
           reader' \in {Idle} \cup ReaderType, ReaderHonest',
           \A d \in Collection : InHand(d)' <=> InHand(d),
           \/ UNCHANGED <<marks, out>> /\ s \in SubType
           \/ \E fs \in Seq(Messages), ms \in Seq(Mark) :
                  /\ Send(fs, ms)
                  /\ s = NoSub => \E i \in 1 .. Len(fs) : Ends(fs[i], c)
                  /\ \A i \in 1 .. Len(fs) :
                        fs[i].type = "ready" => connected /\ fs[i].c = c /\ s \in SubType
    PROVE  SyncInv'
<1>0. Types /\ ServerOK /\ WireOK /\ SubsHonest /\ marks \in Seq(Mark)
  BY DEF SyncInv, BasicInv, Types, ServerOK
<1>1. /\ subs' \in [Collection -> {NoSub} \cup SubType] /\ SubsHonest'
      /\ \A d \in Collection \ {c} : IsOn(d)' <=> IsOn(d)
      /\ IsOn(c)' <=> s \in SubType
  BY <1>0, SubsStep
<1>2. online /\ Offline'
  <2>1. subs[c] # NoSub
    BY <1>0, OnIsSub
  <2> QED
    BY <2>1 DEF SyncInv, Offline
<1>3. ListenerOK' /\ TabOK'
  BY <1>0 DEF Types, ListenerOK, TabOK, Clock
<1>4. \A d \in Collection : Opening(d)' <=> Opening(d)
  BY DEF Opening
<1>5. CASE UNCHANGED <<marks, out>> /\ s \in SubType
  <2>1. Types'
    BY <1>0, <1>1, <1>3, <1>5 DEF Types, ServerOK, WireOK
  <2>2. \A d \in Collection : (Heard(d) => Heard(d)') /\ (Fresh(d)' => Fresh(d))
    BY <1>1, <1>4, <1>5 DEF Heard, Fresh
  <2>3. FreshIsHeard'
    BY <1>5, <2>2, QuietHears DEF SyncInv
  <2> QED
    BY <1>1, <1>2, <2>1, <2>3 DEF SyncInv, BasicInv
<1>6. CASE \E fs \in Seq(Messages), ms \in Seq(Mark) :
               /\ Send(fs, ms)
               /\ s = NoSub => \E i \in 1 .. Len(fs) : Ends(fs[i], c)
               /\ \A i \in 1 .. Len(fs) :
                     fs[i].type = "ready" => connected /\ fs[i].c = c /\ s \in SubType
  <2>1. PICK fs \in Seq(Messages), ms \in Seq(Mark) :
               /\ Send(fs, ms)
               /\ s = NoSub => \E i \in 1 .. Len(fs) : Ends(fs[i], c)
               /\ \A i \in 1 .. Len(fs) :
                     fs[i].type = "ready" => connected /\ fs[i].c = c /\ s \in SubType
    BY <1>6
  <2>2. out' \in Seq(Messages) /\ marks' \in Seq(Mark)
    BY <1>0, <2>1, SendIs
  <2>3. Types'
    BY <1>0, <1>1, <1>3, <2>2 DEF Types, ServerOK, WireOK
  <2>4. \A d \in Collection : Heard(d) =>
            Heard(d)' \/ \E i \in 1 .. Len(fs) : Ends(fs[i], d)
    BY <1>1, <1>4, <2>1 DEF Heard
  <2>5. \A i \in 1 .. Len(fs), d \in Collection :
            fs[i].type = "ready" /\ fs[i].c = d => Heard(d)'
    BY <1>1, <2>1 DEF Heard
  <2>6. FreshIsHeard /\ UNCHANGED client
    BY DEF SyncInv
  <2>7. FreshIsHeard'
    BY <1>0, <2>1, <2>4, <2>5, <2>6, SendHears
  <2> QED
    BY <1>1, <1>2, <2>3, <2>7 DEF SyncInv, BasicInv
<1> QED
  BY <1>5, <1>6

\* What Count is.
LEMMA CountIs ==
    ASSUME DatabaseOK, NEW f \in Fault, May(f), Count(f)
    PROVE  /\ faults' \in [Fault -> Nat] /\ \A g \in Fault : faults'[g] <= FaultLimit[g]
           /\ faults'[f] = faults[f] + 1 /\ \A g \in Fault \ {f} : faults'[g] = faults[g]
<1>1. faults[f] < FaultLimit[f] /\ faults' = [faults EXCEPT ![f] = @ + 1]
  BY DEF May, Count
<1>2. faults \in [Fault -> Nat] /\ \A g \in Fault : faults[g] <= FaultLimit[g]
  BY DEF DatabaseOK
<1> QED
  BY <1>1, <1>2, ConstantTypes

\* A step that leaves the database alone keeps what is known of it.
LEMMA SameDatabase ==
    ASSUME DatabaseOK, UNCHANGED databaseVars,
           UNCHANGED faults \/ (\E f \in Fault \ {"redefine"} : May(f) /\ Count(f))
    PROVE  DatabaseOK'
<1>1. CASE UNCHANGED faults
  BY <1>1 DEF DatabaseOK, databaseVars, Clock
<1>2. CASE \E f \in Fault \ {"redefine"} : May(f) /\ Count(f)
  <2>1. PICK f \in Fault \ {"redefine"} : May(f) /\ Count(f)
    BY <1>2
  <2>2. faults' \in [Fault -> Nat] /\ \A g \in Fault : faults'[g] <= FaultLimit[g]
    BY <2>1, CountIs
  <2>3. "redefine" \in Fault \ {f} /\ \A g \in Fault \ {f} : faults'[g] = faults[g]
    BY <2>1, CountIs DEF Fault
  <2> QED
    BY <2>2, <2>3 DEF DatabaseOK, databaseVars, Clock
<1> QED
  BY <1>1, <1>2

\* The read loop is done with its delivery, or goes on.
LEMMA ReaderEndedIs ==
    ASSUME ServerOK, ReaderHonest, UNCHANGED log, NEW by \in {"worker", "reader"},
           by = "reader" => reader.stage = "deliver",
           ReaderEnded(by) \/ UNCHANGED reader
    PROVE  /\ reader' \in {Idle} \cup ReaderType /\ ReaderHonest'
           /\ \A d \in Collection : InHand(d)' <=> InHand(d)
<1>1. CASE UNCHANGED reader
  BY <1>1 DEF ServerOK, ReaderHonest, InHand, Honest, Clock, Content
<1>2. CASE ~UNCHANGED reader
  <2>1. reader' = Idle /\ reader.stage = "deliver"
    BY <1>2 DEF ReaderEnded, Idle
  <2>2. \A d \in Collection : ~InHand(d) /\ ~InHand(d)'
    BY <2>1 DEF InHand
  <2> QED
    BY <2>1, <2>2 DEF ReaderHonest
<1> QED
  BY <1>1, <1>2

\* The changes after the cursor complete what was seen.
LEMMA ChangesComplete ==
    ASSUME DatabaseOK, NEW c \in Collection, NEW s \in SubType, s.verified, Honest(c, s)
    PROVE  /\ s.cur.rev \in 0 .. Clock
           /\ s.seen \cup Changes(c, s.cur.rev, Clock) = Content(c, Clock)
<1>1. PICK r \in s.cur.rev .. Clock : s.seen = Content(c, r)
  BY DEF Honest
<1>2. s.cur.rev \in Nat /\ Clock \in Nat /\ s.cur.rev <= r /\ r <= Clock /\ r \in Nat
  BY <1>1, LatestIs, ConstantTypes DEF SubType, Cursor, Revision
<1> DEFINE a == s.cur.rev
<1> HIDE DEF a
<1>3. a \in Nat /\ Clock \in Nat /\ a <= r /\ r <= Clock /\ r \in Nat
  BY <1>2 DEF a
<1>4. Content(c, r) \cup Changes(c, a, Clock) = Content(c, Clock)
  BY <1>3 DEF Content, Changes
<1> QED
  BY <1>1, <1>3, <1>4 DEF a

\* Deliver keeps the invariant.
LEMMA DeliverKeeps ==
    ASSUME SyncInv, NEW c \in Collection, NEW by \in {"worker", "reader"},
           by = "reader" => reader.stage = "deliver", Deliver(c, by)
    PROVE  SyncInv'
<1> DEFINE changes == Changes(c, subs[c].cur.rev, Clock)
<1>1. /\ UNCHANGED <<databaseVars, listenVars, inbox, online, opened, client, faults>>
      /\ IsOn(c) /\ (ReaderEnded(by) \/ UNCHANGED reader)
  BY DEF Deliver
<1>2. Types /\ DatabaseOK /\ ServerOK /\ marks \in Seq(Mark) /\ ReaderHonest
  BY DEF SyncInv, BasicInv, Types, ServerOK
<1>3. PICK s \in SubType : s = subs[c] /\ Honest(c, s)
  BY <1>1, <1>2, OnIsSub DEF SyncInv, BasicInv, SubsHonest
<1>4. /\ UNCHANGED <<log, notes, listening, connected, inbox, online, opened, client>>
      /\ events' \subseteq Collection
  BY <1>1, <1>2 DEF databaseVars, listenVars, Types, ListenerOK
<1>5. DatabaseOK'
  BY <1>1, <1>2, SameDatabase
<1>6. /\ reader' \in {Idle} \cup ReaderType /\ ReaderHonest'
      /\ \A d \in Collection : InHand(d)' <=> InHand(d)
  BY <1>1, <1>2, <1>4, ReaderEndedIs
<1>7. Latest \in Cursor /\ Latest.rev = Clock /\ Clock \in Nat
  BY <1>2, LatestIs
<1>8. CASE s.cur.ep # epoch \/ s.cur.rev < retained
  <2>1. subs' = [subs EXCEPT ![c] = NoSub] /\ NoSub \notin SubType
    BY <1>3, <1>8, OnMeansSub DEF Deliver, Drop
  <2>2. Send(<<Frame("reset", c)>>, Resolve(marks, c, MaxRevision))
    BY <1>3, <1>8 DEF Deliver, SendFinal
  <2>3. Resolve(marks, c, MaxRevision) \in Seq(Mark)
    BY <1>2, ResolveIs
  <2>4. \E fs \in Seq(Messages), ms \in Seq(Mark) :
            /\ Send(fs, ms) /\ \E i \in 1 .. Len(fs) : Ends(fs[i], c)
            /\ \A i \in 1 .. Len(fs) : fs[i].type # "ready"
    BY <2>2, <2>3, FinalSent
  <2> QED
    BY <1>1, <1>4, <1>5, <1>6, <2>1, <2>4, ServerWrites
<1>9. CASE /\ ~(s.cur.ep # epoch \/ s.cur.rev < retained)
           /\ ~s.verified \/ (changes # {} /\ NeedsReconcile(c, changes))
  <2> DEFINE t == [s EXCEPT !.stage = by, !.latest = Latest]
  <2>1. subs' = [subs EXCEPT ![c] = t]
    BY <1>3, <1>9 DEF Deliver
  <2>2. t \in SubType
    BY <1>7 DEF SubType
  <2>3. t.verified = s.verified /\ t.cur = s.cur /\ t.seen = s.seen /\ t.latest = Latest
    BY DEF SubType
  <2> HIDE DEF t
  <2>4. Honest(c, t)
    BY <1>3, <1>7, <2>3 DEF Honest
  <2>5. t # NoSub
    BY <2>2, OnMeansSub
  <2>6. \/ UNCHANGED <<marks, out>>
        \/ \E fs \in Seq(Messages), ms \in Seq(Mark) :
               Send(fs, ms) /\ \A i \in 1 .. Len(fs) : fs[i].type # "ready"
    <3>1. CASE s.verified
      <4>1. Send(<<Frame("syncing", c)>>, marks)
        BY <1>3, <1>9, <3>1 DEF Deliver
      <4> QED
        BY <1>2, <4>1, FinalSent
    <3>2. CASE ~s.verified
      BY <1>3, <1>9, <3>2 DEF Deliver
    <3> QED
      BY <3>1, <3>2
  <2> QED
    BY <1>1, <1>4, <1>5, <1>6, <2>1, <2>2, <2>4, <2>5, <2>6, ServerWrites
<1>10. CASE /\ ~(s.cur.ep # epoch \/ s.cur.rev < retained)
            /\ ~(~s.verified \/ (changes # {} /\ NeedsReconcile(c, changes)))
  <2> DEFINE u == [s EXCEPT !.cur = Latest, !.seen = s.seen \cup changes]
  <2>0. s.verified
    BY <1>10
  <2>1. s.cur.rev \in 0 .. Clock /\ s.seen \cup changes = Content(c, Clock)
    BY <1>2, <1>3, <2>0, ChangesComplete
  <2>2. changes \in SUBSET (1 .. MaxRevision) /\ Content(c, Clock) \in Rows
    BY <1>2, <1>3, <1>7, <2>1, ContentIs
  <2>3. u \in SubType
    BY <1>7, <2>1, <2>2 DEF SubType
  <2>4. u.cur = Latest /\ u.seen = Content(c, Clock)
    BY <2>1 DEF SubType
  <2>5. subs' = [subs EXCEPT ![c] = Ended(u, by)]
    BY <1>3, <1>10 DEF Deliver
  <2>6. SendReady(DeltasOf(c, changes), c, Latest, Content(c, Clock))
    BY <1>3, <1>10, <2>1 DEF Deliver
  <2> HIDE DEF u, changes
  <2>7. PICK t \in SubType : /\ t = Ended(u, by) /\ t.latest = NoCursor /\ t.cur = Latest
                             /\ t.seen = Content(c, Clock)
    BY <2>3, <2>4, EndedIs
  <2>8. Honest(c, t)
    BY <1>7, <2>7, ConstantTypes DEF Honest
  <2>9. \E fs \in Seq(Messages), ms \in Seq(Mark) :
            /\ Send(fs, ms)
            /\ \A i \in 1 .. Len(fs) : fs[i].type = "ready" => connected /\ fs[i].c = c
    <3>1. /\ DeltasOf(c, changes) \in Seq(Messages)
          /\ \A i \in 1 .. Len(DeltasOf(c, changes)) : DeltasOf(c, changes)[i].type # "ready"
      BY <1>2, <2>2, DeltasAre
    <3> QED
      BY <1>2, <1>7, <2>2, <2>6, <3>1, ReadyIs
  <2>10. t # NoSub
    BY OnMeansSub
  <2> QED
    BY <1>1, <1>4, <1>5, <1>6, <2>5, <2>7, <2>8, <2>9, <2>10, ServerWrites
<1> QED
  BY <1>8, <1>9, <1>10

\* Reconcile keeps the invariant.
LEMMA ReconcileKeeps ==
    ASSUME SyncInv, NEW c \in Collection, NEW by \in {"worker", "reader"},
           by = "reader" => reader.stage = "deliver", Reconcile(c, by)
    PROVE  SyncInv'
<1> DEFINE rows == Content(c, Clock)
<1>1. /\ UNCHANGED <<databaseVars, listenVars, inbox, online, opened, client, faults>>
      /\ IsOn(c) /\ ReaderEnded(by)
  BY DEF Reconcile
<1>2. Types /\ DatabaseOK /\ ServerOK /\ marks \in Seq(Mark) /\ ReaderHonest
  BY DEF SyncInv, BasicInv, Types, ServerOK
<1>3. PICK s \in SubType : s = subs[c] /\ Honest(c, s)
  BY <1>1, <1>2, OnIsSub DEF SyncInv, BasicInv, SubsHonest
<1>4. /\ UNCHANGED <<log, notes, listening, connected, inbox, online, opened, client>>
      /\ events' \subseteq Collection
  BY <1>1, <1>2 DEF databaseVars, listenVars, Types, ListenerOK
<1>5. DatabaseOK'
  BY <1>1, <1>2, SameDatabase
<1>6. /\ reader' \in {Idle} \cup ReaderType /\ ReaderHonest'
      /\ \A d \in Collection : InHand(d)' <=> InHand(d)
  BY <1>1, <1>2, <1>4, ReaderEndedIs
<1>7. Clock \in Nat /\ rows \in Rows /\ s.latest \in Cursor /\ s.latest.rev \in Nat
  BY <1>2, LatestIs, ContentIs, ConstantTypes DEF SubType, Cursor, Revision
<1> DEFINE u == [s EXCEPT !.cur = s.latest, !.seen = rows, !.verified = TRUE]
           ups == rows \ s.seen
           del == s.seen \ rows
           frames == IF (~s.verified /\ s.proof.compact) \/ (ups = {} /\ del = {}) THEN <<>>
                     ELSE <<DeltaFrame(c, s.latest, ups, del)>>
<1>8. CASE ~s.verified /\ s.proof.compact /\ s.proof.rows # rows
  <2>1. subs' = [subs EXCEPT ![c] = NoSub] /\ NoSub \notin SubType
    BY <1>3, <1>8, OnMeansSub DEF Reconcile, Drop
  <2>2. Send(<<Frame("needHashes", c)>>, marks)
    BY <1>3, <1>8 DEF Reconcile
  <2>3. \E fs \in Seq(Messages), ms \in Seq(Mark) :
            /\ Send(fs, ms) /\ \E i \in 1 .. Len(fs) : Ends(fs[i], c)
            /\ \A i \in 1 .. Len(fs) : fs[i].type # "ready"
    BY <1>2, <2>2, FinalSent
  <2> QED
    BY <1>1, <1>4, <1>5, <1>6, <2>1, <2>3, ServerWrites
<1>9. CASE ~(~s.verified /\ s.proof.compact /\ s.proof.rows # rows)
  <2>1. subs' = [subs EXCEPT ![c] = Ended(u, by)]
    BY <1>3, <1>9 DEF Reconcile
  <2>2. SendReady(frames, c, s.latest, rows)
    BY <1>3, <1>9 DEF Reconcile
  <2>3. frames \in Seq(Messages) /\ \A i \in 1 .. Len(frames) : frames[i].type # "ready"
    <3> DEFINE M == Messages
               f == DeltaFrame(c, s.latest, ups, del)
    <3>1. ups \in Rows /\ del \in Rows
      BY <1>7 DEF SubType, Rows
    <3>2. f \in M /\ f.type = "delta"
      BY <1>7, <3>1 DEF DeltaFrame, Messages
    <3> HIDE DEF M, f
    <3>3. <<f>> \in Seq(M) /\ Len(<<f>>) = 1 /\ <<f>>[1] = f
      BY <3>2
    <3>4. frames = <<>> \/ frames = <<f>>
      BY DEF f
    <3>5. frames \in Seq(M) /\ \A i \in 1 .. Len(frames) : frames[i].type # "ready"
      <4> HIDE DEF frames
      <4>1. CASE frames = <<>>
        BY <4>1
      <4>2. CASE frames = <<f>>
        BY <3>2, <3>3, <4>2
      <4> QED
        BY <3>4, <4>1, <4>2
    <3> QED
      BY <3>5 DEF M
  <2>4. u \in SubType
    BY <1>7 DEF SubType
  <2>5. u.cur = s.latest /\ u.seen = rows
    BY DEF SubType
  <2> HIDE DEF u, frames
  <2>6. PICK t \in SubType : /\ t = Ended(u, by) /\ t.latest = NoCursor /\ t.cur = s.latest
                             /\ t.seen = rows
    BY <2>4, <2>5, EndedIs
  <2>7. Honest(c, t)
    BY <1>3, <1>7, <2>6, ConstantTypes DEF Honest
  <2>8. \E fs \in Seq(Messages), ms \in Seq(Mark) :
            /\ Send(fs, ms)
            /\ \A i \in 1 .. Len(fs) : fs[i].type = "ready" => connected /\ fs[i].c = c
    BY <1>2, <1>7, <2>2, <2>3, ReadyIs
  <2>9. t # NoSub
    BY OnMeansSub
  <2> QED
    BY <1>1, <1>4, <1>5, <1>6, <2>1, <2>6, <2>7, <2>8, <2>9, ServerWrites
<1> QED
  BY <1>8, <1>9

\* Fails keeps the invariant.
LEMMA FailsKeeps ==
    ASSUME SyncInv, NEW c \in Collection, NEW by \in {"worker", "reader"},
           by = "reader" => reader.stage = "deliver", DeliverFails(c, by)
    PROVE  SyncInv'
<1>1. /\ UNCHANGED <<databaseVars, listenVars, inbox, online, opened, client>>
      /\ IsOn(c) /\ ReaderEnded(by) /\ May("query") /\ Count("query")
  BY DEF DeliverFails
<1>2. Types /\ DatabaseOK /\ ServerOK /\ marks \in Seq(Mark) /\ ReaderHonest
  BY DEF SyncInv, BasicInv, Types, ServerOK
<1>3. PICK s \in SubType : s = subs[c] /\ Honest(c, s)
  BY <1>1, <1>2, OnIsSub DEF SyncInv, BasicInv, SubsHonest
<1>4. /\ UNCHANGED <<log, notes, listening, connected, inbox, online, opened, client>>
      /\ events' \subseteq Collection
  BY <1>1, <1>2 DEF databaseVars, listenVars, Types, ListenerOK
<1>5. DatabaseOK'
  <2>1. \E f \in Fault \ {"redefine"} : May(f) /\ Count(f)
    BY <1>1 DEF Fault
  <2> QED
    BY <1>1, <1>2, <2>1, SameDatabase
<1>6. /\ reader' \in {Idle} \cup ReaderType /\ ReaderHonest'
      /\ \A d \in Collection : InHand(d)' <=> InHand(d)
  BY <1>1, <1>2, <1>4, ReaderEndedIs
<1>7. subs' = [subs EXCEPT ![c] = Ended(s, by)]
  BY <1>3 DEF DeliverFails
<1>8. PICK t \in SubType : t = Ended(s, by) /\ Honest(c, t)
  <2>1. /\ Ended(s, by) \in SubType /\ Ended(s, by).latest = NoCursor
        /\ Ended(s, by).cur = s.cur /\ Ended(s, by).seen = s.seen
        /\ Ended(s, by).verified = s.verified
    BY EndedIs
  <2> QED
    BY <1>2, <1>3, <2>1, LatestIs, ConstantTypes DEF Honest
<1>9. Resolve(marks, c, MaxRevision) \in Seq(Mark) /\ Send(<<Frame("error", c)>>, Resolve(marks, c, MaxRevision))
  BY <1>2, ResolveIs DEF DeliverFails, SendFinal
<1>10. \E fs \in Seq(Messages), ms \in Seq(Mark) :
          Send(fs, ms) /\ \A i \in 1 .. Len(fs) : fs[i].type # "ready"
  BY <1>9, FinalSent
<1>11. t # NoSub
  BY OnMeansSub
<1> QED
  BY <1>1, <1>4, <1>5, <1>6, <1>7, <1>8, <1>10, <1>11, ServerWrites

\* Finishes keeps the invariant.
LEMMA FinishesKeeps ==
    ASSUME SyncInv, NEW c \in Collection, WorkerFinishes(c)
    PROVE  SyncInv'
<1>1. /\ UNCHANGED <<databaseVars, listenVars, reader, marks, inbox, out, online, opened, client, faults>>
      /\ IsOn(c)
  BY DEF WorkerFinishes
<1>2. Types /\ DatabaseOK /\ ServerOK /\ ReaderHonest
  BY DEF SyncInv, BasicInv, Types
<1>3. PICK s \in SubType : s = subs[c] /\ Honest(c, s)
  BY <1>1, <1>2, OnIsSub DEF SyncInv, BasicInv, SubsHonest
<1>4. /\ UNCHANGED <<log, notes, listening, connected, inbox, online, opened, client>>
      /\ events' \subseteq Collection
  BY <1>1, <1>2 DEF databaseVars, listenVars, Types, ListenerOK
<1>5. DatabaseOK'
  BY <1>1, <1>2, SameDatabase
<1>6. /\ reader' \in {Idle} \cup ReaderType /\ ReaderHonest'
      /\ \A d \in Collection : InHand(d)' <=> InHand(d)
  BY <1>1, <1>2, <1>4, ReaderEndedIs
<1>7. PICK o \in {"ready", "no"} :
          subs' = [subs EXCEPT ![c] = [s EXCEPT !.running = o, !.pending = FALSE]]
  BY <1>3 DEF WorkerFinishes
<1> DEFINE t == [s EXCEPT !.running = o, !.pending = FALSE]
<1>8. t \in SubType
  BY DEF SubType
<1>9. t.verified = s.verified /\ t.cur = s.cur /\ t.seen = s.seen /\ t.latest = s.latest
  BY DEF SubType
<1> HIDE DEF t
<1>10. Honest(c, t)
  BY <1>3, <1>9 DEF Honest
<1> QED
  BY <1>1, <1>4, <1>5, <1>6, <1>7, <1>8, <1>10, ServerWrites DEF t

-----------------------------------------------------------------------------
(* Steps of the database and of its listener.                              *)

\* Nothing of the connection or of the tab changes.
LEMMA ElsewhereKeeps ==
    ASSUME SyncInv, DatabaseOK', ListenerOK', SubsHonest', ReaderHonest',
           UNCHANGED <<connected, serverVars, inbox, out, online, opened, client>>
    PROVE  SyncInv'
<1>1. Types'
  BY DEF SyncInv, BasicInv, Types, ServerOK, WireOK, TabOK, serverVars
<1>2. \A c \in Collection : (Fresh(c)' <=> Fresh(c)) /\ (Heard(c)' <=> Heard(c))
  BY DEF Fresh, Heard, Opening, InHand, IsOn, serverVars
<1>3. FreshIsHeard'
  BY <1>2, QuietHears DEF SyncInv
<1>4. Offline'
  BY <1>2 DEF SyncInv, Offline, serverVars
<1> QED
  BY <1>1, <1>3, <1>4 DEF SyncInv, BasicInv

\* So it is with what the subscriptions and the reader have.
LEMMA SameHonest ==
    ASSUME SyncInv, UNCHANGED <<log, subs, reader>>
    PROVE  SubsHonest' /\ ReaderHonest'
  BY DEF SyncInv, BasicInv, SubsHonest, ReaderHonest, Honest, IsOn, Clock, Content

\* A commit changes nothing of what a collection was at an earlier revision.
LEMMA LogGrows ==
    ASSUME DatabaseOK, NEW t, log' = Append(log, t)
    PROVE  /\ Clock \in Nat /\ Clock' = Clock + 1
           /\ \A c \in Collection : \A r \in 0 .. Clock : Content(c, r)' = Content(c, r)
           /\ \A c \in Collection : \A s \in SubType : Honest(c, s) => Honest(c, s)'
<1>1. Len(log) \in Nat /\ Len(log') = Len(log) + 1 /\ \A i \in 1 .. Len(log) : log'[i] = log[i]
  BY DEF DatabaseOK
<1>2. Clock \in Nat /\ Clock' = Clock + 1
  BY <1>1 DEF Clock
<1>3. \A c \in Collection : \A r \in 0 .. Clock : Content(c, r)' = Content(c, r)
  <2> SUFFICES ASSUME NEW c \in Collection, NEW r \in 0 .. Clock
               PROVE  Content(c, r)' = Content(c, r)
    BY Zenon
  <2>1. \A i \in 1 .. r : log'[i] = log[i]
    BY <1>1 DEF Clock
  <2> QED
    BY <2>1 DEF Content
<1>4. ASSUME NEW c \in Collection, NEW s \in SubType, Honest(c, s)
      PROVE  Honest(c, s)'
  <2>1. s.cur.rev \in Nat /\ s.latest.rev \in Nat
    BY ConstantTypes DEF SubType, Cursor, Revision
  <2>2. s.latest.rev <= Clock'
    BY <1>2, <1>4, <2>1 DEF Honest
  <2>3. ASSUME s.verified PROVE \E r \in s.cur.rev .. Clock' : s.seen = Content(c, r)'
    <3>1. PICK r \in s.cur.rev .. Clock : s.seen = Content(c, r)
      BY <1>4, <2>3 DEF Honest
    <3>2. r \in 0 .. Clock /\ r \in s.cur.rev .. Clock'
      BY <1>2, <2>1, <3>1
    <3> QED
      BY <1>3, <3>1, <3>2
  <2> QED
    BY <2>2, <2>3 DEF Honest, Content
<1> QED
  BY <1>2, <1>3, <1>4

\* Commit keeps the invariant.
LEMMA CommitKeeps ==
    ASSUME SyncInv, Commit
    PROVE  SyncInv'
<1>1. PICK t \in Logged :
          /\ log' = Append(log, t)
          /\ notes' = IF listening THEN Append(notes, Clock + 1) ELSE notes
          /\ events' = IF listening THEN events \cup {c \in Collection : t \in Visibility[c]} ELSE events
  BY DEF Commit
<1>2. /\ Clock < MaxRevision
      /\ UNCHANGED <<retained, epoch, listening, connected, serverVars, inbox, out, online, opened,
                     client, faults>>
  BY DEF Commit
<1>3. DatabaseOK /\ ListenerOK /\ ServerOK
  BY DEF SyncInv, BasicInv, Types
<1>4. t \in Table
  BY DurableSyncAssumption DEF Logged, Deps
<1>5. /\ Clock \in Nat /\ Clock' = Clock + 1
      /\ \A c \in Collection : \A s \in SubType : Honest(c, s) => Honest(c, s)'
  BY <1>1, <1>3, LogGrows
<1>6. DatabaseOK'
  <2>1. log' \in Seq(Table)
    BY <1>1, <1>3, <1>4 DEF DatabaseOK
  <2>2. Clock' <= MaxRevision /\ retained' \in 0 .. Clock'
    BY <1>2, <1>3, <1>5, ConstantTypes DEF DatabaseOK
  <2> QED
    BY <1>2, <1>3, <2>1, <2>2 DEF DatabaseOK
<1>7. ListenerOK'
  <2>1. notes' \in Seq(Nat) /\ \A i \in 1 .. Len(notes') : notes'[i] \in 1 .. Clock'
    <3>1. notes \in Seq(Nat) /\ Len(notes) \in Nat /\ \A i \in 1 .. Len(notes) : notes[i] \in 1 .. Clock'
      BY <1>3, <1>5 DEF ListenerOK
    <3>2. CASE listening
      <4>1. notes' = Append(notes, Clock + 1) /\ Clock + 1 \in Nat /\ Clock + 1 \in 1 .. Clock'
        BY <1>1, <1>5, <3>2
      <4>2. /\ notes' \in Seq(Nat) /\ Len(notes') = Len(notes) + 1
            /\ \A i \in 1 .. Len(notes) : notes'[i] = notes[i]
            /\ notes'[Len(notes) + 1] = Clock + 1
        BY <3>1, <4>1, AppendProperties
      <4> QED
        BY <3>1, <4>1, <4>2
    <3>3. CASE ~listening
      BY <1>1, <3>1, <3>3
    <3> QED
      BY <3>2, <3>3
  <2>2. events' \subseteq Collection
    BY <1>1, <1>3 DEF ListenerOK
  <2> QED
    BY <1>2, <1>3, <2>1, <2>2 DEF ListenerOK
<1>8. SubsHonest'
  <2> SUFFICES ASSUME NEW c \in Collection, IsOn(c)' PROVE Honest(c, subs[c])'
    BY DEF SubsHonest
  <2>1. subs' = subs /\ IsOn(c)
    BY <1>2 DEF serverVars, IsOn
  <2>2. subs[c] \in SubType /\ Honest(c, subs[c])
    BY <1>3, <2>1, OnIsSub DEF SyncInv, BasicInv, SubsHonest
  <2>3. PICK s \in SubType : s = subs[c] /\ Honest(c, s)
    BY <2>2
  <2>4. Honest(c, s)' /\ subs'[c] = s
    BY <1>5, <2>1, <2>3
  <2> QED
    BY <2>4 DEF Honest, Content
<1>9. ReaderHonest'
  <2> SUFFICES ASSUME reader' # Idle PROVE (Honest(reader.c, reader.sub) /\ reader.base.rev <= Clock)'
    BY DEF ReaderHonest
  <2>1. reader' = reader /\ reader \in ReaderType
    BY <1>2, <1>3 DEF serverVars, ServerOK
  <2>2. PICK c \in Collection, s \in SubType : c = reader.c /\ s = reader.sub /\ Honest(c, s)
    BY <2>1 DEF SyncInv, BasicInv, ReaderHonest, ReaderType
  <2>3. reader.base.rev \in Nat /\ reader.base.rev <= Clock
    BY <2>1, ConstantTypes DEF SyncInv, BasicInv, ReaderHonest, ReaderType, Cursor, Revision
  <2>4. Honest(c, s)'
    BY <1>5, <2>2
  <2> QED
    BY <1>5, <2>1, <2>2, <2>3, <2>4 DEF Honest, Content
<1> QED
  BY <1>2, <1>6, <1>7, <1>8, <1>9, ElsewhereKeeps

\* Prune keeps the invariant.
LEMMA PruneKeeps ==
    ASSUME SyncInv, Prune
    PROVE  SyncInv'
<1>1. /\ May("prune") /\ Count("prune")
      /\ UNCHANGED <<log, epoch, listenVars, serverVars, inbox, out, online, opened, client>>
      /\ \E r \in retained + 1 .. Clock : retained' = r
  BY DEF Prune
<1>2. DatabaseOK /\ ListenerOK
  BY DEF SyncInv, BasicInv, Types
<1>3. DatabaseOK'
  <2>1. "prune" \in Fault /\ "redefine" \in Fault \ {"prune"}
    BY DEF Fault
  <2>2. /\ faults' \in [Fault -> Nat] /\ \A f \in Fault : faults'[f] <= FaultLimit[f]
        /\ faults'["redefine"] = faults["redefine"]
    BY <1>1, <1>2, <2>1, CountIs
  <2>3. retained' \in 0 .. Clock
    BY <1>1, <1>2, LatestIs DEF DatabaseOK
  <2> QED
    BY <1>1, <1>2, <2>2, <2>3 DEF DatabaseOK, Clock
<1>4. ListenerOK'
  BY <1>1, <1>2 DEF ListenerOK, listenVars, Clock
<1>5. SubsHonest' /\ ReaderHonest'
  BY <1>1, SameHonest DEF serverVars
<1> QED
  BY <1>1, <1>3, <1>4, <1>5, ElsewhereKeeps DEF listenVars

\* Redefine keeps the invariant.
LEMMA RedefineKeeps ==
    ASSUME SyncInv, Redefine
    PROVE  SyncInv'
<1>1. /\ May("redefine") /\ Count("redefine") /\ epoch' = epoch + 1
      /\ UNCHANGED <<log, retained, listenVars, serverVars, inbox, out, online, opened, client>>
  BY DEF Redefine
<1>2. DatabaseOK /\ ListenerOK
  BY DEF SyncInv, BasicInv, Types
<1>3. DatabaseOK'
  <2>1. "redefine" \in Fault
    BY DEF Fault
  <2>2. /\ faults' \in [Fault -> Nat] /\ \A f \in Fault : faults'[f] <= FaultLimit[f]
        /\ faults'["redefine"] = faults["redefine"] + 1 /\ faults["redefine"] \in Nat
    BY <1>1, <1>2, <2>1, CountIs DEF DatabaseOK
  <2>3. epoch' = 1 + faults'["redefine"]
    BY <1>1, <1>2, <2>2 DEF DatabaseOK
  <2> QED
    BY <1>1, <1>2, <2>2, <2>3 DEF DatabaseOK, Clock
<1>4. ListenerOK'
  BY <1>1, <1>2 DEF ListenerOK, listenVars, Clock
<1>5. SubsHonest' /\ ReaderHonest'
  BY <1>1, SameHonest DEF serverVars
<1> QED
  BY <1>1, <1>3, <1>4, <1>5, ElsewhereKeeps DEF listenVars

\* Breaks keeps the invariant.
LEMMA BreaksKeeps ==
    ASSUME SyncInv, ListenerBreaks
    PROVE  SyncInv'
<1>1. /\ May("listener") /\ Count("listener") /\ listening' = FALSE /\ notes' = <<>> /\ events' = {}
      /\ UNCHANGED <<databaseVars, connected, serverVars, inbox, out, online, opened, client>>
  BY DEF ListenerBreaks
<1>2. DatabaseOK /\ ListenerOK
  BY DEF SyncInv, BasicInv, Types
<1>3. DatabaseOK'
  <2>1. \E f \in Fault \ {"redefine"} : May(f) /\ Count(f)
    BY <1>1 DEF Fault
  <2> QED
    BY <1>1, <1>2, <2>1, SameDatabase
<1>4. ListenerOK'
  <2>1. notes' \in Seq(Nat) /\ 1 .. Len(notes') = {}
    BY <1>1
  <2>2. events' \subseteq Collection /\ connected' \in BOOLEAN /\ listening' \in BOOLEAN
    BY <1>1, <1>2 DEF ListenerOK
  <2> QED
    BY <2>1, <2>2 DEF ListenerOK
<1>5. SubsHonest' /\ ReaderHonest'
  BY <1>1, SameHonest DEF serverVars, databaseVars
<1> QED
  BY <1>1, <1>3, <1>4, <1>5, ElsewhereKeeps

\* Visibility keeps the invariant.
LEMMA VisibilityKeeps ==
    ASSUME SyncInv, NEW c \in Collection, VisibilityChange(c)
    PROVE  SyncInv'
<1>1. /\ UNCHANGED <<databaseVars, notes, listening, connected, reader, inbox, online, opened,
                     client, faults>>
      /\ events' = events \ {c}
  BY DEF VisibilityChange
<1>2. Types /\ DatabaseOK /\ ServerOK /\ ListenerOK /\ ReaderHonest /\ marks \in Seq(Mark)
  BY DEF SyncInv, BasicInv, Types, ServerOK
<1>3. UNCHANGED log /\ events' \subseteq Collection
  BY <1>1, <1>2 DEF databaseVars, ListenerOK
<1>4. DatabaseOK'
  BY <1>1, <1>2, SameDatabase
<1>5. /\ reader' \in {Idle} \cup ReaderType /\ ReaderHonest'
      /\ \A d \in Collection : InHand(d)' <=> InHand(d)
  BY <1>1, <1>2, <1>3, ReaderEndedIs
<1>6. CASE ~IsOn(c)
  <2>1. UNCHANGED <<subs, marks, out>>
    BY <1>6 DEF VisibilityChange
  <2>2. ListenerOK'
    BY <1>1, <1>2, <1>3 DEF ListenerOK, Clock
  <2>3. SubsHonest' /\ ReaderHonest'
    BY <1>1, <1>3, <2>1, SameHonest
  <2> QED
    BY <1>1, <1>4, <2>1, <2>2, <2>3, ElsewhereKeeps DEF serverVars
<1>7. CASE IsOn(c)
  <2>1. PICK s \in SubType : s = subs[c] /\ Honest(c, s)
    BY <1>2, <1>7, OnIsSub DEF SyncInv, BasicInv, SubsHonest
  <2>2. CASE c \in Progressive
    <3>1. subs' = [subs EXCEPT ![c] = Begun(s)] /\ UNCHANGED <<marks, out>>
      BY <1>7, <2>1, <2>2 DEF VisibilityChange
    <3>2. PICK t \in SubType : /\ t = Begun(s) /\ t.latest = s.latest /\ t.cur = s.cur
                               /\ t.seen = s.seen /\ t.verified = s.verified
      BY BegunIs
    <3>3. Honest(c, t)
      BY <2>1, <3>2 DEF Honest
    <3> QED
      BY <1>1, <1>3, <1>4, <1>5, <1>7, <3>1, <3>2, <3>3, ServerWrites
  <2>3. CASE c \notin Progressive
    <3>1. subs' = [subs EXCEPT ![c] = NoSub] /\ NoSub \notin SubType
      BY <1>7, <2>3, OnMeansSub DEF VisibilityChange, Drop
    <3>2. Send(<<Frame("reset", c)>>, Resolve(marks, c, MaxRevision))
      BY <1>7, <2>3 DEF VisibilityChange, SendFinal
    <3>3. \E fs \in Seq(Messages), ms \in Seq(Mark) :
            /\ Send(fs, ms) /\ \E i \in 1 .. Len(fs) : Ends(fs[i], c)
            /\ \A i \in 1 .. Len(fs) : fs[i].type # "ready"
      BY <1>2, <3>2, ResolveIs, FinalSent
    <3> QED
      BY <1>1, <1>3, <1>4, <1>5, <1>7, <3>1, <3>3, ServerWrites
  <2> QED
    BY <2>2, <2>3
<1> QED
  BY <1>6, <1>7

\* advanceUnchangedSync: the revision after the cursor changes no row of the collection.
LEMMA SkippedIsHonest ==
    ASSUME DatabaseOK, NEW c \in Collection, NEW s \in SubType, NEW r \in 1 .. Clock,
           Honest(c, s), s.cur.rev + 1 = r, log[r] \notin Deps(c)
    PROVE  Honest(c, [s EXCEPT !.cur.rev = r]) /\ [s EXCEPT !.cur.rev = r] \in SubType
<1> DEFINE t == [s EXCEPT !.cur.rev = r]
<1>1. s.cur \in Cursor /\ s.cur.rev \in Nat /\ r \in Nat /\ Clock \in Nat /\ Clock <= MaxRevision
  BY LatestIs, ConstantTypes DEF DatabaseOK, SubType, Cursor, Revision
<1>2. [s.cur EXCEPT !.rev = r] \in Cursor /\ [s.cur EXCEPT !.rev = r].rev = r
  BY <1>1, ConstantTypes DEF Cursor, Revision
<1>3. t = [s EXCEPT !.cur = [s.cur EXCEPT !.rev = r]]
  BY DEF SubType
<1>4. t \in SubType
  BY <1>2, <1>3 DEF SubType
<1>5. t.cur.rev = r /\ t.seen = s.seen /\ t.verified = s.verified /\ t.latest = s.latest
  BY <1>2, <1>3 DEF SubType
<1> HIDE DEF t
<1>6. ASSUME s.verified PROVE \E q \in r .. Clock : s.seen = Content(c, q)
  <2>1. PICK q \in s.cur.rev .. Clock : s.seen = Content(c, q)
    BY <1>6 DEF Honest
  <2>2. CASE q = s.cur.rev
    <3>1. Content(c, q) = Content(c, r)
      <4>1. 1 .. r = (1 .. q) \cup {r} /\ r \notin 1 .. q
        BY <1>1, <2>2
      <4> QED
        BY <4>1 DEF Content
    <3> QED
      BY <1>1, <2>1, <3>1
  <2>3. CASE q # s.cur.rev
    BY <1>1, <2>1, <2>3
  <2> QED
    BY <2>2, <2>3
<1>7. Honest(c, t)
  BY <1>5, <1>6 DEF Honest
<1> QED
  BY <1>4, <1>7 DEF t

\* The subscriptions change, none comes or goes, and no more than watermarks or the
\* end of what is fresh is written.
LEMMA AllSubsStep ==
    ASSUME SyncInv, DatabaseOK', ListenerOK', UNCHANGED <<log, reader, inbox, online, opened, client>>,
           subs' \in [Collection -> {NoSub} \cup SubType],
           \A c \in Collection : (IsOn(c)' <=> IsOn(c)) /\ (IsOn(c) => Honest(c, subs'[c])),
           \/ UNCHANGED <<marks, out>> /\ (connected => connected')
           \/ \E fs \in Seq(Messages), ms \in Seq(Mark) :
                  /\ Send(fs, ms)
                  /\ \A i \in 1 .. Len(fs) : fs[i].type # "ready"
                  /\ ~connected' => \A c \in Collection : IsOn(c) => \E i \in 1 .. Len(fs) : Ends(fs[i], c)
                  /\ ~online => fs = <<>> /\ ms = <<>>
    PROVE  SyncInv'
<1>1. Types /\ WireOK /\ ServerOK /\ FreshIsHeard /\ Offline /\ marks \in Seq(Mark)
  BY DEF SyncInv, BasicInv, Types, ServerOK
<1>2. SubsHonest'
  BY DEF SubsHonest, Honest, IsOn, Clock, Content
<1>3. ReaderHonest'
  BY DEF SyncInv, BasicInv, ReaderHonest, Honest, Clock, Content
<1>4. TabOK' /\ (\A c \in Collection : Fresh(c)' <=> Fresh(c))
  BY <1>1 DEF Types, TabOK, Fresh
<1>5. \A c \in Collection : Opening(c)' <=> Opening(c)
  BY DEF Opening, InHand
<1>6. ~online' => inbox' = <<>> /\ reader' = Idle /\ \A c \in Collection : subs'[c] = NoSub /\ ~Fresh(c)'
  <2> SUFFICES ASSUME ~online', NEW c \in Collection
               PROVE  inbox' = <<>> /\ reader' = Idle /\ subs'[c] = NoSub /\ ~Fresh(c)'
    BY <1>1, <1>4 DEF Offline
  <2>0. ~online
    OBVIOUS
  <2>1. inbox = <<>> /\ reader = Idle /\ subs[c] = NoSub /\ ~Fresh(c)
    BY <1>1, <2>0 DEF Offline
  <2>2. ~IsOn(c)
    BY <2>1, OnMeansSub DEF IsOn
  <2>3. ~IsOn(c)' /\ subs'[c] \in {NoSub} \cup SubType
    BY <2>2
  <2>4. subs'[c] = NoSub
    BY <2>3, OnMeansSub DEF IsOn
  <2> QED
    BY <1>4, <2>1, <2>4
<1>7. CASE UNCHANGED <<marks, out>> /\ (connected => connected')
  <2>1. Types'
    BY <1>1, <1>4, <1>7 DEF Types, ServerOK, WireOK
  <2>2. \A c \in Collection : Heard(c) => Heard(c)'
    BY <1>5, <1>7 DEF Heard
  <2>3. FreshIsHeard'
    BY <1>1, <1>4, <1>7, <2>2, QuietHears
  <2>4. Offline'
    BY <1>1, <1>6, <1>7 DEF Offline
  <2> QED
    BY <1>2, <1>3, <2>1, <2>3, <2>4 DEF SyncInv, BasicInv
<1>8. CASE \E fs \in Seq(Messages), ms \in Seq(Mark) :
                  /\ Send(fs, ms)
                  /\ \A i \in 1 .. Len(fs) : fs[i].type # "ready"
                  /\ ~connected' => \A c \in Collection : IsOn(c) => \E i \in 1 .. Len(fs) : Ends(fs[i], c)
                  /\ ~online => fs = <<>> /\ ms = <<>>
  <2>1. PICK fs \in Seq(Messages), ms \in Seq(Mark) :
                  /\ Send(fs, ms)
                  /\ \A i \in 1 .. Len(fs) : fs[i].type # "ready"
                  /\ ~connected' => \A c \in Collection : IsOn(c) => \E i \in 1 .. Len(fs) : Ends(fs[i], c)
                  /\ ~online => fs = <<>> /\ ms = <<>>
    BY <1>8
  <2>2. /\ out' \in Seq(Messages) /\ marks' \in Seq(Mark)
        /\ ms = <<>> => marks' = <<>> /\ Len(out') = Len(out) + Len(fs)
    BY <1>1, <2>1, SendIs
  <2>3. Types'
    BY <1>1, <1>4, <2>2 DEF Types, ServerOK, WireOK
  <2>4. \A c \in Collection : Heard(c) => Heard(c)' \/ \E i \in 1 .. Len(fs) : Ends(fs[i], c)
    BY <1>5, <2>1 DEF Heard
  <2>5. FreshIsHeard'
    BY <1>1, <2>1, <2>4, SendHears
  <2>6. Offline'
    <3> SUFFICES ASSUME ~online PROVE out' = <<>> /\ marks' = <<>>
      BY <1>6 DEF Offline
    <3>1. marks' = <<>> /\ Len(out') = Len(out) + Len(fs) /\ out = <<>> /\ fs = <<>>
      BY <1>1, <2>1, <2>2 DEF Offline
    <3>2. Len(out') = 0
      BY <3>1
    <3> HIDE DEF Messages
    <3> QED
      BY <2>2, <3>1, <3>2, EmptySeq
  <2> QED
    BY <1>2, <1>3, <2>3, <2>5, <2>6 DEF SyncInv, BasicInv
<1> QED
  BY <1>7, <1>8

\* Notify keeps the invariant.
LEMMA NotifyKeeps ==
    ASSUME SyncInv, Notify
    PROVE  SyncInv'
<1> DEFINE r == Head(notes)
           skipping == {c \in Attached \ Touched(r) : MayAdvance(subs[c], r)}
           quiet == {c \in Attached \ Touched(r) : Ahead(subs[c], r)}
           waiting == Attached \ (skipping \cup quiet)
<1>1. /\ notes # <<>> /\ notes' = Tail(notes)
      /\ UNCHANGED <<databaseVars, events, listening, connected, reader, inbox, online, opened, client, faults>>
  BY DEF Notify
<1>2. /\ subs' = [c \in Collection |->
            IF c \in skipping THEN [subs[c] EXCEPT !.cur.rev = r]
            ELSE IF c \in waiting THEN Begun(subs[c]) ELSE subs[c]]
      /\ IF skipping # {} /\ connected
         THEN Send(<<>>, Append(marks, [rev |-> r, waiting |-> waiting]))
         ELSE UNCHANGED <<marks, out>>
  BY DEF Notify
<1>3. Types /\ DatabaseOK /\ ServerOK /\ ListenerOK /\ Offline /\ marks \in Seq(Mark)
  BY DEF SyncInv, BasicInv, Types, ServerOK
<1>4. r \in 1 .. Clock /\ notes' \in Seq(Nat) /\ \A i \in 1 .. Len(notes') : notes'[i] \in 1 .. Clock
  <2>1. notes \in Seq(Nat) /\ Len(notes) \in Nat /\ \A i \in 1 .. Len(notes) : notes[i] \in 1 .. Clock
    BY <1>3 DEF ListenerOK
  <2>2. /\ 1 \in 1 .. Len(notes) /\ Head(notes) = notes[1] /\ Tail(notes) \in Seq(Nat)
        /\ Len(Tail(notes)) = Len(notes) - 1
        /\ \A i \in 1 .. Len(Tail(notes)) : Tail(notes)[i] = notes[i + 1]
    BY <1>1, <2>1, HeadTailProperties
  <2>3. \A i \in 1 .. Len(Tail(notes)) : i + 1 \in 1 .. Len(notes)
    BY <2>1, <2>2
  <2> QED
    BY <1>1, <2>1, <2>2, <2>3
<1>5. DatabaseOK' /\ ListenerOK' /\ UNCHANGED log
  BY <1>1, <1>3, <1>4, SameDatabase DEF ListenerOK, Clock, databaseVars
<1> HIDE DEF r, waiting, skipping
<1>6. ASSUME NEW c \in Collection
      PROVE  /\ subs'[c] \in {NoSub} \cup SubType /\ (IsOn(c)' <=> IsOn(c))
             /\ IsOn(c) => Honest(c, subs'[c])
  <2>1. CASE c \in skipping
    <3>1. IsOn(c) /\ log[r] \notin Deps(c) /\ MayAdvance(subs[c], r)
      BY <2>1 DEF skipping, Attached, Touched
    <3>2. PICK s \in SubType : s = subs[c] /\ Honest(c, s)
      BY <1>3, <3>1, OnIsSub DEF SyncInv, BasicInv, SubsHonest
    <3>3. s.cur.rev + 1 = r
      BY <3>1, <3>2 DEF MayAdvance
    <3>4. subs'[c] = [s EXCEPT !.cur.rev = r]
      BY <1>2, <2>1, <3>2
    <3>5. Honest(c, [s EXCEPT !.cur.rev = r]) /\ [s EXCEPT !.cur.rev = r] \in SubType
      BY <1>3, <1>4, <3>1, <3>2, <3>3, SkippedIsHonest
    <3>6. subs'[c] \in SubType /\ Honest(c, subs'[c])
      BY <3>4, <3>5
    <3>7. IsOn(c)'
      BY <3>6, OnMeansSub DEF IsOn
    <3> QED
      BY <3>1, <3>6, <3>7
  <2>2. CASE c \notin skipping /\ c \in waiting
    <3>1. IsOn(c)
      BY <2>2 DEF waiting, Attached
    <3>2. PICK s \in SubType : s = subs[c] /\ Honest(c, s)
      BY <1>3, <3>1, OnIsSub DEF SyncInv, BasicInv, SubsHonest
    <3>3. PICK t \in SubType : /\ t = Begun(s) /\ t.latest = s.latest /\ t.cur = s.cur
                               /\ t.seen = s.seen /\ t.verified = s.verified
      BY BegunIs
    <3>4. subs'[c] = t
      BY <1>2, <2>2, <3>2, <3>3
    <3>5. Honest(c, t)
      BY <3>2, <3>3 DEF Honest
    <3>6. IsOn(c)'
      BY <3>4, OnMeansSub DEF IsOn
    <3> QED
      BY <3>1, <3>4, <3>5, <3>6
  <2>3. CASE c \notin skipping /\ c \notin waiting
    <3>1. subs'[c] = subs[c] /\ subs[c] \in {NoSub} \cup SubType
      BY <1>2, <1>3, <2>3 DEF ServerOK
    <3> QED
      BY <3>1 DEF IsOn, SyncInv, BasicInv, SubsHonest
  <2> QED
    BY <2>1, <2>2, <2>3
<1>7. subs' \in [Collection -> {NoSub} \cup SubType]
  <2>1. subs' = [c \in Collection |-> subs'[c]]
    BY <1>2
  <2> QED
    BY <1>6, <2>1
<1>8. CASE skipping # {} /\ connected
  <2> DEFINE ms == Append(marks, [rev |-> r, waiting |-> waiting])
  <2>1. ms \in Seq(Mark)
    <3>1. [rev |-> r, waiting |-> waiting] \in Mark
      <4>1. r \in Nat
        BY <1>3, <1>4, LatestIs
      <4>2. waiting \subseteq Collection /\ r \in Revision
        BY <1>3, <1>4, LatestIs, ConstantTypes DEF waiting, Attached, Revision
      <4> QED
        BY <4>2 DEF Mark
    <3> QED
      BY <1>3, <3>1, AppendProperties
  <2>2. Send(<<>>, ms)
    BY <1>2, <1>8
  <2>3. online
    <3>1. PICK c \in Collection : IsOn(c)
      BY <1>8 DEF skipping, Attached
    <3>2. subs[c] # NoSub
      BY <1>3, <3>1, OnIsSub
    <3> QED
      BY <1>3, <3>2 DEF Offline
  <2>4. <<>> \in Seq(Messages) /\ 1 .. Len(<<>>) = {}
    OBVIOUS
  <2> HIDE DEF ms
  <2>5. connected'
    BY <1>1, <1>8
  <2>6. \E fs \in Seq(Messages), m \in Seq(Mark) :
                  /\ Send(fs, m)
                  /\ \A i \in 1 .. Len(fs) : fs[i].type # "ready"
                  /\ ~connected' => \A c \in Collection : IsOn(c) => \E i \in 1 .. Len(fs) : Ends(fs[i], c)
                  /\ ~online => fs = <<>> /\ m = <<>>
    BY <2>1, <2>2, <2>3, <2>4, <2>5
  <2> QED
    BY <1>1, <1>5, <1>6, <1>7, <2>6, AllSubsStep
<1>9. CASE ~(skipping # {} /\ connected)
  <2>1. UNCHANGED <<marks, out>>
    BY <1>2, <1>9
  <2> QED
    BY <1>1, <1>5, <1>6, <1>7, <2>1, AllSubsStep
<1> QED
  BY <1>8, <1>9

\* Disconnect keeps the invariant.
LEMMA DisconnectKeeps ==
    ASSUME SyncInv, NoticeDisconnect
    PROVE  SyncInv'
<1> DEFINE seq == SetToSeq(Attached)
           fs == [i \in 1 .. Len(seq) |-> Frame("syncing", seq[i])]
           M == Messages
<1>1. /\ UNCHANGED <<databaseVars, notes, events, listening, subs, reader, inbox, online, opened,
                     client, faults>>
      /\ connected' = FALSE /\ Send(fs, marks)
  BY DEF NoticeDisconnect
<1>2. Types /\ DatabaseOK /\ ServerOK /\ ListenerOK /\ Offline /\ marks \in Seq(Mark)
  BY DEF SyncInv, BasicInv, Types, ServerOK
<1>3. DatabaseOK' /\ ListenerOK' /\ UNCHANGED log
  BY <1>1, <1>2, SameDatabase DEF ListenerOK, Clock, databaseVars
<1>4. \A c \in Collection : (IsOn(c)' <=> IsOn(c)) /\ (IsOn(c) => Honest(c, subs'[c]))
  BY <1>1 DEF IsOn, SyncInv, BasicInv, SubsHonest
<1>5. subs' \in [Collection -> {NoSub} \cup SubType]
  BY <1>1, <1>2 DEF ServerOK
<1>6. /\ seq \in Seq(Attached) /\ Len(seq) \in Nat
      /\ \A c \in Attached : \E i \in 1 .. Len(seq) : seq[i] = c
  <2>1. IsFiniteSet(Attached)
    BY ConstantTypes, FS_Subset DEF Attached
  <2> QED
    BY <2>1, SetToSeqIs
<1> HIDE DEF seq
<1>7. \A i \in 1 .. Len(seq) : seq[i] \in Attached
  BY <1>6, ElementOfSeq
<1>8. /\ \A i \in 1 .. Len(seq) : Frame("syncing", seq[i]) \in M
      /\ \A i \in 1 .. Len(seq) : /\ Frame("syncing", seq[i]).type = "syncing"
                                  /\ Frame("syncing", seq[i]).c = seq[i]
  BY <1>7 DEF Frame, Messages, Cast, Attached
<1> HIDE DEF M
<1>9. fs \in Seq(M) /\ Len(fs) = Len(seq) /\ \A i \in 1 .. Len(seq) : fs[i] = Frame("syncing", seq[i])
  BY <1>6, <1>8, SMTT(30)
<1> HIDE DEF fs
<1>10. \A i \in 1 .. Len(fs) : fs[i].type # "ready"
  BY <1>8, <1>9
<1>11. ASSUME NEW c \in Collection, IsOn(c) PROVE \E i \in 1 .. Len(fs) : Ends(fs[i], c)
  <2>1. PICK i \in 1 .. Len(seq) : seq[i] = c
    BY <1>6, <1>11 DEF Attached
  <2>2. fs[i].type = "syncing" /\ fs[i].c = c /\ i \in 1 .. Len(fs)
    BY <1>8, <1>9, <2>1
  <2> QED
    BY <2>2 DEF Ends
<1>12. ~online => fs = <<>> /\ marks = <<>>
  <2> SUFFICES ASSUME ~online PROVE fs = <<>> /\ marks = <<>>
    OBVIOUS
  <2>1. marks = <<>> /\ \A c \in Collection : subs[c] = NoSub
    BY <1>2 DEF Offline
  <2>2. \A c \in Collection : ~IsOn(c)
    BY <2>1, OnMeansSub DEF IsOn
  <2>3. Attached = {}
    BY <2>2 DEF Attached
  <2>4. Len(seq) = 0
    BY <1>6, <1>7, <2>3
  <2> QED
    BY <1>9, <2>1, <2>4, EmptySeq
<1>13. fs \in Seq(Messages)
  BY <1>9 DEF M
<1> QED
  BY <1>1, <1>2, <1>3, <1>4, <1>5, <1>10, <1>11, <1>12, <1>13, AllSubsStep

\* Relisten keeps the invariant.
LEMMA RelistenKeeps ==
    ASSUME SyncInv, Relisten
    PROVE  SyncInv'
<1>1. /\ UNCHANGED <<databaseVars, notes, events, reader, marks, inbox, out, online, opened, client, faults>>
      /\ listening' = TRUE /\ connected' = TRUE
      /\ subs' = [c \in Collection |-> IF IsOn(c) THEN Begun(subs[c]) ELSE subs[c]]
  BY DEF Relisten
<1>2. Types /\ DatabaseOK /\ ServerOK /\ ListenerOK
  BY DEF SyncInv, BasicInv, Types
<1>3. DatabaseOK' /\ ListenerOK' /\ UNCHANGED log
  BY <1>1, <1>2, SameDatabase DEF ListenerOK, Clock, databaseVars
<1>4. ASSUME NEW c \in Collection
      PROVE  /\ subs'[c] \in {NoSub} \cup SubType /\ (IsOn(c)' <=> IsOn(c))
             /\ IsOn(c) => Honest(c, subs'[c])
  <2>1. CASE IsOn(c)
    <3>2. PICK s \in SubType : s = subs[c] /\ Honest(c, s)
      BY <1>2, <2>1, OnIsSub DEF SyncInv, BasicInv, SubsHonest
    <3>3. PICK t \in SubType : /\ t = Begun(s) /\ t.latest = s.latest /\ t.cur = s.cur
                               /\ t.seen = s.seen /\ t.verified = s.verified
      BY BegunIs
    <3>4. subs'[c] = t
      BY <1>1, <2>1, <3>2, <3>3
    <3>5. Honest(c, t)
      BY <3>2, <3>3 DEF Honest
    <3>6. IsOn(c)'
      BY <3>4, OnMeansSub DEF IsOn
    <3> QED
      BY <2>1, <3>4, <3>5, <3>6
  <2>2. CASE ~IsOn(c)
    <3>1. subs'[c] = subs[c] /\ subs[c] \in {NoSub} \cup SubType
      BY <1>1, <1>2, <2>2 DEF ServerOK
    <3> QED
      BY <2>2, <3>1 DEF IsOn
  <2> QED
    BY <2>1, <2>2
<1>5. subs' \in [Collection -> {NoSub} \cup SubType]
  <2>1. subs' = [c \in Collection |-> subs'[c]]
    BY <1>1
  <2> QED
    BY <1>4, <2>1
<1>6. UNCHANGED <<marks, out>> /\ connected'
  BY <1>1
<1> QED
  BY <1>1, <1>3, <1>4, <1>5, <1>6, AllSubsStep

-----------------------------------------------------------------------------
(* Steps of the read loop.                                                 *)

\* A step of the reader that writes frames or none keeps the invariant.
LEMMA ReaderWrites ==
    ASSUME SyncInv, DatabaseOK', online,
           UNCHANGED <<log, notes, events, listening, connected, online, opened, client>>,
           reader' \in {Idle} \cup ReaderType, ReaderHonest',
           subs' \in [Collection -> {NoSub} \cup SubType], SubsHonest', inbox' \in Seq(OpenType),
           \/ UNCHANGED <<marks, out>> /\ \A c \in Collection : Heard(c) => Heard(c)'
           \/ \E fs \in Seq(Messages), ms \in Seq(Mark) :
                  /\ Send(fs, ms) /\ \A i \in 1 .. Len(fs) : fs[i].type # "ready"
                  /\ \A c \in Collection :
                        Heard(c) => Heard(c)' \/ \E i \in 1 .. Len(fs) : Ends(fs[i], c)
    PROVE  SyncInv'
<1>1. Types /\ WireOK /\ FreshIsHeard /\ marks \in Seq(Mark)
  BY DEF SyncInv, BasicInv, Types, ServerOK
<1>2. ListenerOK' /\ TabOK'
  BY <1>1 DEF Types, ListenerOK, TabOK, Clock
<1>3. Offline'
  BY DEF Offline
<1>4. CASE UNCHANGED <<marks, out>> /\ \A c \in Collection : Heard(c) => Heard(c)'
  <2>1. Types'
    BY <1>1, <1>2, <1>4 DEF Types, ServerOK, WireOK
  <2>2. \A c \in Collection : Fresh(c)' => Fresh(c)
    BY DEF Fresh
  <2>3. FreshIsHeard'
    BY <1>1, <1>4, <2>2, QuietHears
  <2> QED
    BY <1>3, <2>1, <2>3 DEF SyncInv, BasicInv
<1>5. CASE \E fs \in Seq(Messages), ms \in Seq(Mark) :
                  /\ Send(fs, ms) /\ \A i \in 1 .. Len(fs) : fs[i].type # "ready"
                  /\ \A c \in Collection :
                        Heard(c) => Heard(c)' \/ \E i \in 1 .. Len(fs) : Ends(fs[i], c)
  <2>1. PICK fs \in Seq(Messages), ms \in Seq(Mark) :
                  /\ Send(fs, ms) /\ \A i \in 1 .. Len(fs) : fs[i].type # "ready"
                  /\ \A c \in Collection :
                        Heard(c) => Heard(c)' \/ \E i \in 1 .. Len(fs) : Ends(fs[i], c)
    BY <1>5
  <2>2. out' \in Seq(Messages) /\ marks' \in Seq(Mark)
    BY <1>1, <2>1, SendIs
  <2>3. Types'
    BY <1>1, <1>2, <2>2 DEF Types, ServerOK, WireOK
  <2>4. FreshIsHeard'
    BY <1>1, <2>1, SendHears
  <2> QED
    BY <1>3, <2>3, <2>4 DEF SyncInv, BasicInv
<1> QED
  BY <1>4, <1>5

\* A reader at work belongs to the connection that is up.
LEMMA AtStage ==
    ASSUME SyncInv, reader.stage \in {"snapshot", "attach", "attached", "deliver"}
    PROVE  online /\ reader # Idle /\ reader \in ReaderType
<1>1. reader # Idle
  BY DEF Idle
<1> QED
  BY <1>1 DEF SyncInv, BasicInv, Types, ServerOK, Offline

\* ReadOpen keeps the invariant.
LEMMA ReadOpenKeeps ==
    ASSUME SyncInv, ReadOpen
    PROVE  SyncInv'
<1> DEFINE O == OpenType
<1>1. /\ inbox # <<>> /\ inbox' = Tail(inbox)
      /\ UNCHANGED <<databaseVars, listenVars, online, opened, client, faults>>
  BY DEF ReadOpen
<1>2. Types /\ DatabaseOK /\ ServerOK /\ SubsHonest /\ Offline /\ marks \in Seq(Mark) /\ inbox \in Seq(O)
  BY DEF SyncInv, BasicInv, Types, ServerOK, WireOK
<1>3. UNCHANGED <<log, notes, events, listening, connected, online, opened, client>> /\ online
  BY <1>1, <1>2 DEF databaseVars, listenVars, Offline
<1>4. DatabaseOK'
  BY <1>1, <1>2, SameDatabase
<1>5. /\ Len(inbox) \in Nat /\ Head(inbox) \in O /\ Head(inbox) = inbox[1] /\ inbox' \in Seq(O)
      /\ Len(inbox') = Len(inbox) - 1 /\ \A i \in 1 .. Len(inbox') : inbox'[i] = inbox[i + 1]
  <2> HIDE DEF O
  <2>1. /\ Len(inbox) \in Nat /\ Head(inbox) = inbox[1] /\ Tail(inbox) \in Seq(O) /\ Head(inbox) \in O
        /\ Len(Tail(inbox)) = Len(inbox) - 1
        /\ \A i \in 1 .. Len(Tail(inbox)) : Tail(inbox)[i] = inbox[i + 1]
    BY <1>1, <1>2, HeadTailProperties
  <2> QED
    BY <1>1, <2>1
<1>6. PICK m \in O : m = Head(inbox)
  BY <1>5
<1>7. m.c \in Collection /\ m.cur \in Cursor /\ m.rows \in Rows /\ m.full \in BOOLEAN
  BY DEF OpenType
<1> DEFINE known == IF m.full THEN m.rows ELSE {}
           proof == [compact |-> ~m.full, rows |-> m.rows]
<1>8. PICK sub \in SubType : /\ sub = SubFor(m.cur, known, FALSE, proof)
                             /\ sub.verified = FALSE /\ sub.latest = NoCursor
  <2>1. known \in Rows
    BY <1>7, ConstantTypes
  <2>2. proof \in [compact : BOOLEAN, rows : Rows]
    BY <1>7
  <2> HIDE DEF known, proof
  <2> QED
    BY <1>7, <2>1, <2>2, UnprovenIs
<1>9. Clock \in Nat /\ Latest \in Cursor /\ Latest.rev = Clock
  BY <1>2, LatestIs
<1>10. PICK base \in Cursor : base = Latest
  BY <1>9
<1>11. PICK b \in BOOLEAN, o \in {"snapshot", "attach"} :
          /\ reader' = [stage |-> o, c |-> m.c, resume |-> b, base |-> base, rows |-> {}, sub |-> sub]
          /\ Free(m.c) /\ subs' = [subs EXCEPT ![m.c] = NoSub]
          /\ Send(<<>>, Resolve(marks, m.c, MaxRevision))
  <2> DEFINE b == m.cur.ep = epoch /\ m.cur.rev <= Clock /\ m.cur.rev >= retained
  <2>1. /\ reader' = [stage |-> IF b THEN "attach" ELSE "snapshot", c |-> m.c,
                      resume |-> b, base |-> base, rows |-> {}, sub |-> sub]
        /\ Free(m.c) /\ subs' = [subs EXCEPT ![m.c] = NoSub]
        /\ Send(<<>>, Resolve(marks, m.c, MaxRevision))
    BY <1>6, <1>8, <1>10 DEF ReadOpen, Drop
  <2>2. b \in BOOLEAN /\ (IF b THEN "attach" ELSE "snapshot") \in {"snapshot", "attach"}
    OBVIOUS
  <2> HIDE DEF b
  <2> QED
    BY <2>1, <2>2
<1>12. reader' \in ReaderType /\ reader'.c = m.c /\ reader'.sub = sub /\ reader'.base = base
       /\ reader'.stage \in {"snapshot", "attach"}
  BY <1>7, <1>11, ConstantTypes DEF ReaderType
<1>13. ReaderHonest'
  <2>1. Honest(m.c, sub)'
    <3>1. sub.verified = FALSE /\ sub.latest.rev = 0
      BY <1>8, ConstantTypes
    <3>2. Clock' \in Nat
      BY <1>3, <1>9 DEF Clock
    <3> QED
      BY <3>1, <3>2 DEF Honest
  <2>2. (base.rev <= Clock)'
    BY <1>3, <1>9, <1>10 DEF Clock
  <2> QED
    BY <1>12, <2>1, <2>2 DEF ReaderHonest, Honest
<1>14. /\ subs' \in [Collection -> {NoSub} \cup SubType] /\ SubsHonest'
       /\ \A d \in Collection \ {m.c} : IsOn(d)' <=> IsOn(d)
  <2>1. NoSub \notin SubType
    BY OnMeansSub
  <2> QED
    BY <1>2, <1>3, <1>7, <1>11, <2>1, SubsStep
<1>15. ASSUME NEW d \in Collection, Heard(d) PROVE Heard(d)'
  <2>1. CASE d = m.c
    <3>1. InHand(d)'
      BY <1>12, <2>1 DEF InHand, Idle
    <3> QED
      BY <3>1 DEF Heard, Opening
  <2>2. CASE d # m.c /\ connected /\ IsOn(d)
    BY <1>3, <1>14, <2>2 DEF Heard
  <2>3. CASE InHand(d)
    BY <1>11, <2>3 DEF InHand, Free
  <2>4. CASE d # m.c /\ \E i \in 1 .. Len(inbox) : inbox[i].c = d
    <3>1. PICK i \in 1 .. Len(inbox) : inbox[i].c = d
      BY <2>4
    <3>2. i # 1
      BY <1>5, <1>6, <2>4, <3>1
    <3>3. i - 1 \in 1 .. Len(inbox') /\ (i - 1) + 1 = i
      BY <1>5, <3>2
    <3>4. inbox'[i - 1].c = d
      BY <1>5, <3>1, <3>3
    <3> QED
      BY <3>3, <3>4 DEF Heard, Opening
  <2> QED
    BY <1>15, <2>1, <2>2, <2>3, <2>4 DEF Heard, Opening
<1>16. \E fs \in Seq(Messages), ms \in Seq(Mark) :
                  /\ Send(fs, ms) /\ \A i \in 1 .. Len(fs) : fs[i].type # "ready"
                  /\ \A c \in Collection :
                        Heard(c) => Heard(c)' \/ \E i \in 1 .. Len(fs) : Ends(fs[i], c)
  <2>1. <<>> \in Seq(Messages) /\ 1 .. Len(<<>>) = {} /\ Resolve(marks, m.c, MaxRevision) \in Seq(Mark)
    BY <1>2, ResolveIs
  <2> QED
    BY <1>11, <1>15, <2>1
<1>17. inbox' \in Seq(OpenType)
  BY <1>5 DEF O
<1> QED
  BY <1>3, <1>4, <1>12, <1>13, <1>14, <1>16, <1>17, ReaderWrites

\* Snapshot keeps the invariant.
LEMMA SnapshotKeeps ==
    ASSUME SyncInv, QuerySnapshot
    PROVE  SyncInv'
<1>1. /\ reader.stage = "snapshot"
      /\ reader' = [reader EXCEPT !.stage = "attach", !.rows = Content(reader.c, Clock),
                      !.sub = SubFor(reader.base, Content(reader.c, Clock), TRUE,
                                     [compact |-> FALSE, rows |-> {}])]
      /\ UNCHANGED <<databaseVars, listenVars, subs, marks, inbox, out, online, opened, client, faults>>
  BY DEF QuerySnapshot
<1>2. Types /\ DatabaseOK /\ ServerOK /\ WireOK /\ SubsHonest /\ ReaderHonest
  BY DEF SyncInv, BasicInv, Types
<1>3. UNCHANGED <<log, notes, events, listening, connected, online, opened, client>>
  BY <1>1 DEF databaseVars, listenVars
<1>4. DatabaseOK'
  BY <1>1, <1>2, SameDatabase
<1>5. online /\ reader # Idle /\ reader \in ReaderType
  BY <1>1, AtStage
<1>6. PICK c \in Collection : c = reader.c
  BY <1>5 DEF ReaderType
<1>7. Content(c, Clock) \in Rows /\ Clock \in Nat
  BY <1>2, LatestIs, ContentIs
<1>8. reader.base \in Cursor /\ reader.base.rev \in Nat /\ reader.base.rev <= Clock
  BY <1>2, <1>5, ConstantTypes DEF ReaderHonest, ReaderType, Cursor, Revision
<1>9. PICK s \in SubType :
          /\ s = SubFor(reader.base, Content(c, Clock), TRUE, [compact |-> FALSE, rows |-> {}])
          /\ s.latest = NoCursor /\ s.cur = reader.base /\ s.seen = Content(c, Clock)
  BY <1>7, <1>8, SnapshotIs
<1>10. Honest(c, s)
  <2>1. s.cur.rev = reader.base.rev /\ s.latest.rev = 0 /\ s.seen = Content(c, Clock)
    BY <1>9, ConstantTypes, Zenon
  <2>2. Clock \in s.cur.rev .. Clock /\ s.latest.rev <= Clock
    BY <1>7, <1>8, <2>1
  <2> QED
    BY <2>1, <2>2 DEF Honest
<1>11. reader' = [reader EXCEPT !.stage = "attach", !.rows = Content(c, Clock), !.sub = s]
  BY <1>1, <1>6, <1>9
<1>12. reader' \in ReaderType
  BY <1>5, <1>7, <1>11 DEF ReaderType
<1>13. reader'.c = c /\ reader'.sub = s /\ reader'.base = reader.base /\ reader'.stage = "attach"
  BY <1>5, <1>6, <1>11 DEF ReaderType
<1>14. ReaderHonest'
  BY <1>3, <1>8, <1>10, <1>13 DEF ReaderHonest, Honest, Clock, Content
<1>15. subs' \in [Collection -> {NoSub} \cup SubType] /\ inbox' \in Seq(OpenType) /\ SubsHonest'
  BY <1>1, <1>2, <1>3 DEF ServerOK, WireOK, SubsHonest, IsOn, Honest, Clock, Content
<1>16. \A d \in Collection : Heard(d) => Heard(d)'
  BY <1>1, <1>3, <1>6, <1>13 DEF Heard, Opening, InHand, IsOn, Idle
<1> QED
  BY <1>1, <1>3, <1>4, <1>5, <1>12, <1>14, <1>15, <1>16, ReaderWrites

\* Attach keeps the invariant.
LEMMA AttachKeeps ==
    ASSUME SyncInv, Attach
    PROVE  SyncInv'
<1>1. /\ reader.stage = "attach" /\ connected
      /\ subs' = [subs EXCEPT ![reader.c] = reader.sub]
      /\ reader' = [reader EXCEPT !.stage = IF reader.resume THEN "deliver" ELSE "attached"]
      /\ UNCHANGED <<databaseVars, listenVars, marks, inbox, out, online, opened, client, faults>>
  BY DEF Attach
<1>2. Types /\ DatabaseOK /\ ServerOK /\ WireOK /\ SubsHonest /\ ReaderHonest
  BY DEF SyncInv, BasicInv, Types
<1>3. UNCHANGED <<log, notes, events, listening, connected, online, opened, client>>
  BY <1>1 DEF databaseVars, listenVars
<1>4. DatabaseOK'
  BY <1>1, <1>2, SameDatabase
<1>5. online /\ reader # Idle /\ reader \in ReaderType
  BY <1>1, AtStage
<1>6. PICK c \in Collection, s \in SubType : c = reader.c /\ s = reader.sub /\ Honest(c, s)
  BY <1>2, <1>5 DEF ReaderType, ReaderHonest
<1>7. PICK o \in {"deliver", "attached"} : reader' = [reader EXCEPT !.stage = o]
  BY <1>1
<1>8. reader' \in ReaderType
  BY <1>5, <1>7 DEF ReaderType
<1>9. /\ reader'.c = reader.c /\ reader'.sub = reader.sub /\ reader'.base = reader.base
      /\ reader'.stage = o
  BY <1>5, <1>7 DEF ReaderType
<1>10. ReaderHonest'
  BY <1>2, <1>3, <1>5, <1>9 DEF ReaderHonest, Honest, Clock, Content
<1>11. /\ subs' \in [Collection -> {NoSub} \cup SubType] /\ SubsHonest'
       /\ \A d \in Collection \ {c} : IsOn(d)' <=> IsOn(d)
       /\ IsOn(c)'
  <2>1. subs' = [subs EXCEPT ![c] = s] /\ s # NoSub
    BY <1>1, <1>6, OnMeansSub
  <2> QED
    BY <1>2, <1>3, <1>6, <2>1, SubsStep
<1>12. inbox' \in Seq(OpenType)
  BY <1>1, <1>2 DEF WireOK
<1>13. \A d \in Collection : Heard(d) => Heard(d)'
  BY <1>1, <1>3, <1>6, <1>11 DEF Heard, Opening, InHand
<1> QED
  BY <1>1, <1>3, <1>4, <1>5, <1>8, <1>10, <1>11, <1>12, <1>13, ReaderWrites

\* The read loop writes a frame for its collection and is done, or goes on.
LEMMA ReaderMoves ==
    ASSUME SyncInv, DatabaseOK', reader \in ReaderType, online,
           UNCHANGED <<log, listenVars, subs, inbox, online, opened, client>>,
           \/ reader' = Idle
           \/ reader.stage = "attached" /\ reader' = [reader EXCEPT !.stage = "deliver"],
           \/ UNCHANGED <<marks, out>> /\ ~InHand(reader.c)
           \/ \E fs \in Seq(Messages), ms \in Seq(Mark) :
                  /\ Send(fs, ms) /\ \A i \in 1 .. Len(fs) : fs[i].type # "ready"
                  /\ InHand(reader.c) => \E i \in 1 .. Len(fs) : Ends(fs[i], reader.c)
    PROVE  SyncInv'
<1>1. Types /\ ServerOK /\ WireOK /\ SubsHonest /\ ReaderHonest
  BY DEF SyncInv, BasicInv, Types
<1>2. UNCHANGED <<log, notes, events, listening, connected, online, opened, client>>
  BY DEF listenVars
<1>3. reader # Idle
  BY DEF Idle, ReaderType
<1>4. reader' = Idle \/ (/\ reader' \in ReaderType /\ reader'.c = reader.c /\ reader'.sub = reader.sub
                         /\ reader'.base = reader.base)
  BY DEF ReaderType
<1>5. reader' \in {Idle} \cup ReaderType /\ ReaderHonest'
  BY <1>1, <1>2, <1>3, <1>4 DEF ReaderHonest, Honest, Clock, Content
<1>6. subs' \in [Collection -> {NoSub} \cup SubType] /\ SubsHonest' /\ inbox' \in Seq(OpenType)
  BY <1>1, <1>2 DEF ServerOK, WireOK, SubsHonest, IsOn, Honest, Clock, Content
<1>7. \A d \in Collection : Heard(d) => Heard(d)' \/ (InHand(d) /\ d = reader.c)
  BY <1>2 DEF Heard, Opening, InHand, IsOn
<1>8. CASE UNCHANGED <<marks, out>> /\ ~InHand(reader.c)
  <2>1. \A d \in Collection : Heard(d) => Heard(d)'
    BY <1>7, <1>8
  <2> QED
    BY <1>2, <1>5, <1>6, <1>8, <2>1, ReaderWrites
<1>9. CASE \E fs \in Seq(Messages), ms \in Seq(Mark) :
                  /\ Send(fs, ms) /\ \A i \in 1 .. Len(fs) : fs[i].type # "ready"
                  /\ InHand(reader.c) => \E i \in 1 .. Len(fs) : Ends(fs[i], reader.c)
  <2>1. \E fs \in Seq(Messages), ms \in Seq(Mark) :
                  /\ Send(fs, ms) /\ \A i \in 1 .. Len(fs) : fs[i].type # "ready"
                  /\ \A c \in Collection :
                        Heard(c) => Heard(c)' \/ \E i \in 1 .. Len(fs) : Ends(fs[i], c)
    BY <1>7, <1>9
  <2> QED
    BY <1>2, <1>5, <1>6, <2>1, ReaderWrites
<1> QED
  BY <1>8, <1>9

\* WriteSnapshot keeps the invariant.
LEMMA WriteSnapshotKeeps ==
    ASSUME SyncInv, WriteSnapshot
    PROVE  SyncInv'
<1>1. /\ reader.stage = "attached" /\ reader' = [reader EXCEPT !.stage = "deliver"]
      /\ Send(<<SnapshotFrame(reader.c, reader.base, reader.rows)>>, marks)
      /\ UNCHANGED <<databaseVars, listenVars, subs, inbox, online, opened, client, faults>>
  BY DEF WriteSnapshot
<1>2. Types /\ DatabaseOK /\ marks \in Seq(Mark)
  BY DEF SyncInv, BasicInv, Types, ServerOK
<1>3. online /\ reader \in ReaderType
  BY <1>1, AtStage
<1>4. DatabaseOK' /\ UNCHANGED log
  BY <1>1, <1>2, SameDatabase DEF databaseVars
<1> DEFINE M == Messages
           f == SnapshotFrame(reader.c, reader.base, reader.rows)
<1>5. f \in M /\ f.type # "ready"
  BY <1>3 DEF SnapshotFrame, Messages, ReaderType
<1> HIDE DEF M, f
<1>6. <<f>> \in Seq(M) /\ Len(<<f>>) = 1 /\ <<f>>[1] = f
  BY <1>5
<1>7. \A i \in 1 .. Len(<<f>>) : <<f>>[i].type # "ready"
  BY <1>5, <1>6
<1>8. ~InHand(reader.c)
  BY <1>1 DEF InHand
<1>9. \E fs \in Seq(Messages), ms \in Seq(Mark) :
                  /\ Send(fs, ms) /\ \A i \in 1 .. Len(fs) : fs[i].type # "ready"
                  /\ InHand(reader.c) => \E i \in 1 .. Len(fs) : Ends(fs[i], reader.c)
  <2>1. Send(<<f>>, marks)
    BY <1>1 DEF f
  <2> QED
    BY <1>2, <1>6, <1>7, <1>8, <2>1 DEF M
<1> QED
  BY <1>1, <1>3, <1>4, <1>9, ReaderMoves

\* Gone keeps the invariant.
LEMMA GoneKeeps ==
    ASSUME SyncInv, ReaderFindsItGone
    PROVE  SyncInv'
<1>1. /\ reader.stage = "deliver" /\ reader' = Idle
      /\ UNCHANGED <<databaseVars, listenVars, subs, marks, inbox, out, online, opened, client, faults>>
  BY DEF ReaderFindsItGone, Idle
<1>2. DatabaseOK
  BY DEF SyncInv, BasicInv, Types
<1>3. online /\ reader \in ReaderType
  BY <1>1, AtStage
<1>4. DatabaseOK' /\ UNCHANGED log
  BY <1>1, <1>2, SameDatabase DEF databaseVars
<1>5. UNCHANGED <<marks, out>> /\ ~InHand(reader.c)
  BY <1>1 DEF InHand
<1> QED
  BY <1>1, <1>3, <1>4, <1>5, ReaderMoves

\* OpenFails keeps the invariant.
LEMMA OpenFailsKeeps ==
    ASSUME SyncInv, AttachTimesOut \/ SnapshotFails
    PROVE  SyncInv'
<1>1. /\ reader.stage \in {"attach", "snapshot"} /\ reader' = Idle
      /\ May("query") /\ Count("query") /\ SendFinal("error", reader.c)
      /\ UNCHANGED <<databaseVars, listenVars, subs, inbox, online, opened, client>>
  BY DEF AttachTimesOut, SnapshotFails, Idle
<1>2. DatabaseOK /\ marks \in Seq(Mark)
  BY DEF SyncInv, BasicInv, Types, ServerOK
<1>3. online /\ reader \in ReaderType
  BY <1>1, AtStage
<1>4. DatabaseOK' /\ UNCHANGED log
  <2>1. \E f \in Fault \ {"redefine"} : May(f) /\ Count(f)
    BY <1>1 DEF Fault
  <2> QED
    BY <1>1, <1>2, <2>1, SameDatabase DEF databaseVars
<1>5. \E fs \in Seq(Messages), ms \in Seq(Mark) :
                  /\ Send(fs, ms) /\ \A i \in 1 .. Len(fs) : fs[i].type # "ready"
                  /\ InHand(reader.c) => \E i \in 1 .. Len(fs) : Ends(fs[i], reader.c)
  <2>1. PICK c \in Collection : c = reader.c
    BY <1>3 DEF ReaderType
  <2>2. Send(<<Frame("error", c)>>, Resolve(marks, c, MaxRevision))
    BY <1>1, <2>1 DEF SendFinal
  <2>3. Resolve(marks, c, MaxRevision) \in Seq(Mark)
    BY <1>2, ResolveIs
  <2>4. \E fs \in Seq(Messages), ms \in Seq(Mark) :
            /\ Send(fs, ms) /\ \E i \in 1 .. Len(fs) : Ends(fs[i], c)
            /\ \A i \in 1 .. Len(fs) : fs[i].type # "ready"
    BY <2>2, <2>3, FinalSent
  <2> QED
    BY <2>1, <2>4
<1> QED
  BY <1>1, <1>3, <1>4, <1>5, ReaderMoves

-----------------------------------------------------------------------------
(* Steps of the tab and of its socket.                                     *)

\* The tab changes one collection, which does not become fresh by it.
LEMMA TabKeeps ==
    ASSUME SyncInv, NEW c \in Collection, NEW k \in ClientType, Moved(c, k),
           Fr(k) => Fresh(c), online \/ UNCHANGED inbox,
           UNCHANGED <<databaseVars, listenVars, serverVars, out, online, opened, faults>>
    PROVE  SyncInv'
<1>1. Types /\ DatabaseOK /\ FreshIsHeard /\ Offline
  BY DEF SyncInv, BasicInv, Types
<1>2. PICK u \in ClientType :
          /\ client' = [client EXCEPT ![c] = u] /\ (Fr(u) => Fr(k))
          /\ inbox' \in Seq(OpenType)
          /\ \A d \in Collection : (\E i \in 1 .. Len(inbox) : inbox[i].c = d)
                                       => \E i \in 1 .. Len(inbox') : inbox'[i].c = d
  BY DEF Moved
<1>3. client' \in [Collection -> ClientType] /\ \A d \in Collection : Fresh(d)' => Fresh(d)
  <2>1. client \in [Collection -> ClientType]
    BY <1>1 DEF Types, TabOK
  <2>2. /\ client' \in [Collection -> ClientType] /\ client'[c] = u
        /\ \A d \in Collection \ {c} : client'[d] = client[d]
    BY <1>2, <2>1
  <2>3. Fresh(c)' => Fresh(c)
    BY <1>2, <2>2 DEF Fresh, Fr
  <2>4. \A d \in Collection \ {c} : Fresh(d)' => Fresh(d)
    BY <2>2 DEF Fresh
  <2> QED
    BY <2>2, <2>3, <2>4
<1>4. DatabaseOK' /\ UNCHANGED <<log, subs, reader>>
  BY <1>1, SameDatabase DEF databaseVars, serverVars
<1>5. Types'
  BY <1>1, <1>2, <1>3, <1>4
     DEF Types, ListenerOK, ServerOK, WireOK, TabOK, Clock, listenVars, serverVars
<1>6. SubsHonest' /\ ReaderHonest'
  BY <1>4, SameHonest
<1>7. \A d \in Collection : Heard(d) => Heard(d)'
  <2>1. UNCHANGED connected
    BY DEF listenVars
  <2> QED
    BY <1>2, <1>4, <2>1 DEF Heard, Opening, InHand, IsOn
<1>8. FreshIsHeard'
  BY <1>1, <1>3, <1>7, QuietHears
<1>9. Offline'
  BY <1>1, <1>3 DEF Offline, serverVars
<1> QED
  BY <1>5, <1>6, <1>8, <1>9 DEF SyncInv, BasicInv

\* What Client is.
LEMMA ClientIs ==
    ASSUME SyncInv, NEW c \in Collection
    PROVE  /\ client[c] \in ClientType /\ (Fr(client[c]) <=> Fresh(c)) /\ WireOK
           /\ ~online => ~Fresh(c)
  BY DEF SyncInv, BasicInv, Types, TabOK, Fr, Fresh, Offline

\* Verified keeps the invariant.
LEMMA VerifiedKeeps ==
    ASSUME SyncInv, NEW c \in Collection, Verified(c)
    PROVE  SyncInv'
<1>1. /\ client[c].verifying # NoReady
      /\ UNCHANGED <<databaseVars, listenVars, serverVars, out, online, opened, faults>>
  BY DEF Verified
<1>2. PICK k \in ClientType : k = client[c]
  BY ClientIs
<1>3. Fresh(c) /\ online /\ WireOK
  BY <1>1, ClientIs DEF Fresh
<1>4. CASE k.rows = k.verifying.rows
  <2>1. PICK a \in ClientType : a = Accepted(k, k.verifying)
    <3>1. k.verifying.cur \in Cursor
      BY DEF ClientType
    <3> QED
      BY <3>1, AcceptedIs
  <2>2. Keep(c, a)
    BY <1>2, <1>4, <2>1 DEF Verified
  <2>3. Moved(c, a)
    BY <1>3, <2>2, KeepIs
  <2> QED
    BY <1>1, <1>3, <2>3, TabKeeps
<1>5. CASE k.rows # k.verifying.rows
  <2>1. PICK a \in ClientType : a = Emptied(k) /\ ~Fr(a)
    BY EmptiedIs
  <2>2. SendOpen(c, a)
    BY <1>2, <1>5, <2>1 DEF Verified
  <2>3. Moved(c, a)
    BY <1>3, <2>2, SendOpenIs
  <2> QED
    BY <1>1, <1>3, <2>1, <2>3, TabKeeps
<1> QED
  BY <1>4, <1>5

\* Hashed keeps the invariant.
LEMMA HashedKeeps ==
    ASSUME SyncInv, NEW c \in Collection, HashedForOpen(c)
    PROVE  SyncInv'
<1>1. /\ online /\ SendOpen(c, [client[c] EXCEPT !.hashed = TRUE, !.opening = "no"])
      /\ UNCHANGED <<databaseVars, listenVars, serverVars, out, online, opened, faults>>
  BY DEF HashedForOpen
<1>2. PICK k \in ClientType : k = client[c]
  BY ClientIs
<1> DEFINE a == [k EXCEPT !.hashed = TRUE, !.opening = "no"]
<1>3. a \in ClientType /\ a.upToDate = k.upToDate /\ a.verifying = k.verifying
  BY DEF ClientType
<1>4. SendOpen(c, a)
  BY <1>1, <1>2
<1> HIDE DEF a
<1>5. Moved(c, a) /\ (Fr(a) => Fresh(c))
  BY <1>2, <1>3, <1>4, ClientIs, SendOpenIs DEF Fr
<1> QED
  BY <1>1, <1>3, <1>5, TabKeeps

\* Retry keeps the invariant.
LEMMA RetryKeeps ==
    ASSUME SyncInv, NEW c \in Collection, Retry(c)
    PROVE  SyncInv'
<1>1. UNCHANGED <<databaseVars, listenVars, serverVars, out, online, opened, faults>>
  BY DEF Retry
<1>2. PICK k \in ClientType : k = client[c]
  BY ClientIs
<1> DEFINE a == [k EXCEPT !.retry = FALSE]
           b == [a EXCEPT !.opening = "no"]
<1>3. /\ a \in ClientType /\ a.upToDate = k.upToDate /\ a.verifying = k.verifying
      /\ b \in ClientType /\ b.upToDate = k.upToDate /\ b.verifying = k.verifying
  BY DEF ClientType
<1>4. IF online THEN SendOpen(c, b) ELSE Keep(c, a)
  BY <1>2 DEF Retry
<1> HIDE DEF a, b
<1>5. (Fr(a) => Fresh(c)) /\ (Fr(b) => Fresh(c)) /\ WireOK
  BY <1>2, <1>3, ClientIs DEF Fr
<1>6. CASE online
  BY <1>1, <1>3, <1>4, <1>5, <1>6, SendOpenIs, TabKeeps
<1>7. CASE ~online
  <2>1. UNCHANGED inbox
    BY <1>4, <1>7 DEF Keep
  <2> QED
    BY <1>1, <1>3, <1>4, <1>5, <1>7, <2>1, KeepIs, TabKeeps
<1> QED
  BY <1>6, <1>7

\* Once the socket is closed nothing is heard of and nothing counts as up to date.
LEMMA ClosedKeeps ==
    ASSUME SyncInv, Disconnected, DatabaseOK',
           UNCHANGED <<log, notes, events, listening, connected, opened>>,
           client' \in [Collection -> ClientType], \A c \in Collection : ~Fr(client'[c])
    PROVE  SyncInv'
<1>1. /\ online' = FALSE /\ inbox' = <<>> /\ out' = <<>>
      /\ subs' = [c \in Collection |-> NoSub] /\ reader' = Idle /\ marks' = <<>>
  BY DEF Disconnected, Idle
<1>2. ServerOK'
  <2>1. marks' \in Seq(Mark)
    BY <1>1
  <2> QED
    BY <1>1, <2>1 DEF ServerOK
<1>3. WireOK'
  <2>1. inbox' \in Seq(OpenType) /\ out' \in Seq(Messages)
    <3> HIDE DEF Messages, OpenType
    <3> QED
      BY <1>1
  <2> QED
    BY <1>1, <2>1 DEF SyncInv, BasicInv, Types, WireOK
<1>4. Types'
  BY <1>2, <1>3 DEF SyncInv, BasicInv, Types, ListenerOK, TabOK, Clock
<1>5. \A c \in Collection : ~Fresh(c)' /\ subs'[c] = NoSub
  BY <1>1 DEF Fresh, Fr
<1>6. SubsHonest'
  <2>1. \A c \in Collection : ~IsOn(c)'
    BY <1>5, OnMeansSub DEF IsOn
  <2> QED
    BY <2>1 DEF SubsHonest
<1>7. ReaderHonest'
  BY <1>1 DEF ReaderHonest
<1>8. FreshIsHeard'
  <2>1. 1 .. Len(out') = {}
    BY <1>1
  <2> QED
    BY <1>5, <2>1 DEF FreshIsHeard
<1>9. Offline'
  BY <1>1, <1>5 DEF Offline
<1> QED
  BY <1>4, <1>6, <1>7, <1>8, <1>9 DEF SyncInv, BasicInv

\* SocketCloses keeps the invariant.
LEMMA SocketClosesKeeps ==
    ASSUME SyncInv, SocketCloses
    PROVE  SyncInv'
<1>1. /\ May("socket") /\ Count("socket") /\ Disconnected
      /\ client' = [c \in Collection |-> Unverified(client[c])]
      /\ UNCHANGED <<databaseVars, listenVars, opened>>
  BY DEF SocketCloses
<1>2. DatabaseOK
  BY DEF SyncInv, BasicInv, Types
<1>3. DatabaseOK'
  <2>1. \E f \in Fault \ {"redefine"} : May(f) /\ Count(f)
    BY <1>1 DEF Fault
  <2> QED
    BY <1>1, <1>2, <2>1, SameDatabase
<1>4. UNCHANGED <<log, notes, events, listening, connected, opened>>
  BY <1>1 DEF databaseVars, listenVars
<1>5. \A c \in Collection : Unverified(client[c]) \in ClientType /\ ~Fr(Unverified(client[c]))
  BY ClientIs, UnverifiedIs
<1>6. client' \in [Collection -> ClientType] /\ \A c \in Collection : ~Fr(client'[c])
  BY <1>1, <1>5
<1> QED
  BY <1>1, <1>3, <1>4, <1>6, ClosedKeeps

\* What Fresh0 is.
LEMMA Fresh0Is ==
    Fresh0 \in ClientType /\ ~Fr(Fresh0)
<1>1. NoReady \in [cur : Cursor, rows : Rows] /\ {} \in SUBSET Nat
  BY ConstantTypes DEF NoReady
<1>2. Fresh0 \in ClientType
  BY <1>1, ConstantTypes DEF Fresh0, ClientType
<1>3. ~Fr(Fresh0)
  BY DEF Fresh0, Fr
<1> QED
  BY <1>2, <1>3

\* Reload keeps the invariant.
LEMMA ReloadKeeps ==
    ASSUME SyncInv, Reload
    PROVE  SyncInv'
<1>1. /\ May("reload") /\ Count("reload") /\ Disconnected /\ UNCHANGED <<databaseVars, listenVars, opened>>
  BY DEF Reload
<1>2. DatabaseOK
  BY DEF SyncInv, BasicInv, Types
<1>3. DatabaseOK'
  <2>1. \E f \in Fault \ {"redefine"} : May(f) /\ Count(f)
    BY <1>1 DEF Fault
  <2> QED
    BY <1>1, <1>2, <2>1, SameDatabase
<1>4. UNCHANGED <<log, notes, events, listening, connected, opened>>
  BY <1>1 DEF databaseVars, listenVars
<1>5. PICK c \in opened, rows \in SUBSET (1 .. Clock), r \in 0 .. Clock, e \in {0} \cup 1 .. epoch :
        client' = [d \in Collection |->
            IF d # c \/ e = 0 THEN Fresh0
            ELSE [Fresh0 EXCEPT !.cur = IF e = 0 THEN NoCursor ELSE [ep |-> e, rev |-> r], !.rows = rows,
                                !.floor = IF e = 0 THEN NoCursor ELSE [ep |-> e, rev |-> r]]]
  BY DEF Reload
<1>6. /\ Clock \in Nat /\ Clock <= MaxRevision /\ epoch \in 1 .. 1 + FaultLimit["redefine"]
      /\ MaxRevision \in Nat /\ FaultLimit["redefine"] \in Nat
  BY <1>2, LatestIs, ConstantTypes DEF DatabaseOK
<1>7. PICK cur \in Cursor : cur = IF e = 0 THEN NoCursor ELSE [ep |-> e, rev |-> r]
  <2>1. CASE e = 0
    BY <2>1, ConstantTypes
  <2>2. CASE e # 0
    <3>1. e \in 0 .. 1 + FaultLimit["redefine"] /\ r \in 0 .. MaxRevision
      BY <1>6, <2>2
    <3> QED
      BY <2>2, <3>1 DEF Cursor, Revision
  <2> QED
    BY <2>1, <2>2
<1>8. rows \in Rows
  BY <1>6 DEF Rows
<1> DEFINE k == [Fresh0 EXCEPT !.cur = cur, !.rows = rows, !.floor = cur]
<1>9. k \in ClientType
  BY <1>8, Fresh0Is DEF ClientType
<1>10. ~Fr(k)
  <2>1. k.upToDate = Fresh0.upToDate /\ k.verifying = Fresh0.verifying
    BY DEF Fresh0
  <2> QED
    BY <2>1, Fresh0Is DEF Fr
<1>11. client' = [d \in Collection |-> IF d # c \/ e = 0 THEN Fresh0 ELSE k]
  BY <1>5, <1>7
<1> HIDE DEF k
<1>12. client' \in [Collection -> ClientType] /\ \A d \in Collection : ~Fr(client'[d])
  BY <1>9, <1>10, <1>11, Fresh0Is
<1> QED
  BY <1>1, <1>3, <1>4, <1>12, ClosedKeeps

\* Reconnect keeps the invariant.
LEMMA ReconnectKeeps ==
    ASSUME SyncInv, Reconnect
    PROVE  SyncInv'
<1> DEFINE again == [c \in Collection |-> [client[c] EXCEPT !.retry = FALSE, !.opening = "no"]]
           S == {c \in opened : ~MustHash(client[c])}
           order == SetToSeq(S)
           O == OpenType
<1>1. /\ ~online /\ online' = TRUE
      /\ client' = [c \in Collection |-> IF c \in opened THEN Asked(again[c]) ELSE client[c]]
      /\ inbox' = [i \in 1 .. Len(order) |-> OpenFrame(order[i], again[order[i]])]
      /\ UNCHANGED <<databaseVars, listenVars, serverVars, out, opened, faults>>
  BY DEF Reconnect
<1>2. Types /\ DatabaseOK /\ Offline /\ opened \subseteq Collection
  BY DEF SyncInv, BasicInv, Types, WireOK
<1>3. DatabaseOK' /\ UNCHANGED <<log, subs, reader>>
  BY <1>1, <1>2, SameDatabase DEF databaseVars, serverVars
<1>4. \A c \in Collection : again[c] \in ClientType /\ (Fr(again[c]) <=> Fresh(c))
  <2> SUFFICES ASSUME NEW c \in Collection
               PROVE  again[c] \in ClientType /\ (Fr(again[c]) <=> Fresh(c))
    OBVIOUS
  <2>1. PICK k \in ClientType : k = client[c] /\ (Fr(k) <=> Fresh(c))
    BY ClientIs
  <2>2. again[c] = [k EXCEPT !.retry = FALSE, !.opening = "no"]
    BY <2>1
  <2> HIDE DEF again
  <2>3. again[c] \in ClientType /\ again[c].upToDate = k.upToDate /\ again[c].verifying = k.verifying
    BY <2>2 DEF ClientType
  <2> QED
    BY <2>1, <2>3 DEF Fr
<1> HIDE DEF again
<1>5. \A c \in Collection : client'[c] \in ClientType /\ ~Fr(client'[c])
  <2> SUFFICES ASSUME NEW c \in Collection PROVE client'[c] \in ClientType /\ ~Fr(client'[c])
    OBVIOUS
  <2>1. ~Fresh(c)
    BY <1>1, <1>2 DEF Offline
  <2>2. CASE c \in opened
    <3>1. client'[c] = Asked(again[c])
      BY <1>1, <2>2
    <3> QED
      BY <1>4, <2>1, <3>1, AskedIs
  <2>3. CASE c \notin opened
    <3>1. client'[c] = client[c]
      BY <1>1, <2>3
    <3> QED
      BY <2>1, <3>1, ClientIs
  <2> QED
    BY <2>2, <2>3
<1>6. TabOK'
  <2>1. client' = [c \in Collection |-> client'[c]]
    BY <1>1
  <2> QED
    BY <1>5, <2>1 DEF TabOK
<1>7. inbox' \in Seq(O)
  <2>1. IsFiniteSet(S)
    BY <1>2, ConstantTypes, FS_Subset
  <2>2. S \subseteq Collection
    BY <1>2
  <2> HIDE DEF S
  <2>3. order \in Seq(S) /\ Len(order) \in Nat
    BY <2>1, SetToSeqIs
  <2> HIDE DEF order
  <2>4. \A i \in 1 .. Len(order) : order[i] \in Collection
    BY <2>2, <2>3, ElementOfSeq
  <2>5. \A i \in 1 .. Len(order) : OpenFrame(order[i], again[order[i]]) \in O
    BY <1>4, <2>4, OpenFrameIs
  <2> HIDE DEF O
  <2> QED
    BY <1>1, <2>3, <2>5
<1>8. Types'
  BY <1>1, <1>2, <1>3, <1>6, <1>7
     DEF Types, ListenerOK, ServerOK, WireOK, Clock, listenVars, serverVars
<1>9. SubsHonest' /\ ReaderHonest'
  BY <1>3, SameHonest
<1>10. FreshIsHeard'
  <2>1. \A c \in Collection : ~Fresh(c)'
    BY <1>5 DEF Fresh, Fr
  <2>2. 1 .. Len(out') = {}
    BY <1>1, <1>2 DEF Offline
  <2> QED
    BY <2>1, <2>2 DEF FreshIsHeard
<1>11. Offline'
  BY <1>1 DEF Offline
<1> QED
  BY <1>8, <1>9, <1>10, <1>11 DEF SyncInv, BasicInv

\* The first frame is read.
LEMMA ReceiveKeepsWhen ==
    ASSUME SyncInv, out # <<>>, out' = Tail(out),
           UNCHANGED <<databaseVars, listenVars, serverVars, online, opened, faults>>,
           client' \in [Collection -> ClientType], inbox' \in Seq(OpenType),
           \A d \in Collection : (\E i \in 1 .. Len(inbox) : inbox[i].c = d)
                                     => \E i \in 1 .. Len(inbox') : inbox'[i].c = d,
           \A d \in Collection : Fresh(d)' =>
               \/ Fresh(d) /\ ~Ends(Head(out), d)
               \/ Head(out).type = "ready" /\ Head(out).c = d
    PROVE  SyncInv'
<1>1. Types /\ DatabaseOK /\ WireOK /\ FreshIsHeard /\ Offline
  BY DEF SyncInv, BasicInv, Types
<1>2. DatabaseOK' /\ UNCHANGED <<log, subs, reader>>
  BY <1>1, SameDatabase DEF databaseVars, serverVars
<1>3. out' \in Seq(Messages)
  <2> HIDE DEF Messages
  <2> QED
    BY <1>1, HeadTailProperties DEF WireOK
<1>4. Types'
  BY <1>1, <1>2, <1>3
     DEF Types, ListenerOK, ServerOK, WireOK, TabOK, Clock, listenVars, serverVars
<1>5. SubsHonest' /\ ReaderHonest'
  BY <1>2, SameHonest
<1>6. \A d \in Collection : Heard(d) => Heard(d)'
  <2>1. UNCHANGED connected
    BY DEF listenVars
  <2> QED
    BY <1>2, <2>1 DEF Heard, Opening, InHand, IsOn
<1>7. FreshIsHeard'
  BY <1>1, <1>6, ReadHears
<1>8. Offline'
  BY <1>1 DEF Offline
<1> QED
  BY <1>4, <1>5, <1>7, <1>8 DEF SyncInv, BasicInv

\* The first frame is about one collection.
LEMMA ReadsOne ==
    ASSUME SyncInv, out # <<>>, out' = Tail(out),
           UNCHANGED <<databaseVars, listenVars, serverVars, online, opened, faults>>,
           NEW c \in Collection, Head(out).c = c, NEW k \in ClientType, Moved(c, k),
           \/ ~Fr(k)
           \/ (Fr(k) => Fresh(c)) /\ Head(out).type \in {"snapshot", "delta"}
           \/ Head(out).type = "ready"
    PROVE  SyncInv'
<1>1. PICK u \in ClientType :
          /\ client' = [client EXCEPT ![c] = u] /\ (Fr(u) => Fr(k))
          /\ inbox' \in Seq(OpenType)
          /\ \A d \in Collection : (\E i \in 1 .. Len(inbox) : inbox[i].c = d)
                                       => \E i \in 1 .. Len(inbox') : inbox'[i].c = d
  BY DEF Moved
<1>2. client \in [Collection -> ClientType]
  BY DEF SyncInv, BasicInv, Types, TabOK
<1>3. /\ client' \in [Collection -> ClientType] /\ client'[c] = u
      /\ \A d \in Collection \ {c} : client'[d] = client[d]
  BY <1>1, <1>2
<1>4. ASSUME NEW d \in Collection, Fresh(d)'
      PROVE  \/ Fresh(d) /\ ~Ends(Head(out), d)
             \/ Head(out).type = "ready" /\ Head(out).c = d
  <2>1. CASE d = c
    <3>1. Fr(k)
      BY <1>1, <1>3, <1>4, <2>1 DEF Fresh, Fr
    <3> QED
      BY <2>1, <3>1 DEF Ends
  <2>2. CASE d # c
    BY <1>3, <1>4, <2>2 DEF Fresh, Ends
  <2> QED
    BY <2>1, <2>2
<1> QED
  BY <1>1, <1>3, <1>4, ReceiveKeepsWhen

\* Receive keeps the invariant.
LEMMA ReceiveKeeps ==
    ASSUME SyncInv, Receive
    PROVE  SyncInv'
<1> DEFINE m == Head(out)
<1>1. /\ out # <<>> /\ out' = Tail(out)
      /\ UNCHANGED <<databaseVars, listenVars, serverVars, online, opened, faults>>
  BY DEF Receive
<1>2. m \in Messages
  <2>1. out \in Seq(Messages)
    BY DEF SyncInv, BasicInv, Types, WireOK
  <2> HIDE DEF Messages
  <2> QED
    BY <1>1, <2>1, HeadTailProperties
<1>3. PICK f \in Messages : f = m
  BY <1>2
<1>4. WireOK /\ client \in [Collection -> ClientType]
  BY DEF SyncInv, BasicInv, Types, TabOK
<1>5. CASE f \in [type : {"watermark"}, rev : Revision]
  <2>1. f.type = "watermark" /\ f.rev \in Revision
    BY <1>5
  <2>2. OnWatermark(f.rev)
    BY <1>3, <2>1 DEF Receive
  <2>3. ASSUME NEW c \in Collection PROVE client'[c] \in ClientType /\ (Fresh(c)' <=> Fresh(c))
    <3>1. PICK k \in ClientType : k = client[c]
      BY <1>4
    <3>2. PICK cur \in Cursor : cur = [k.cur EXCEPT !.rev = f.rev]
      BY <2>1 DEF ClientType, Cursor
    <3> DEFINE a == [k EXCEPT !.cur = cur]
    <3>3. a \in ClientType /\ a.upToDate = k.upToDate /\ a.verifying = k.verifying
      BY DEF ClientType
    <3>4. client'[c] = Raise(a, cur) \/ client'[c] = k
      BY <2>2, <3>1, <3>2 DEF OnWatermark
    <3> HIDE DEF a
    <3>5. /\ Raise(a, cur) \in ClientType
          /\ Raise(a, cur).upToDate = k.upToDate /\ Raise(a, cur).verifying = k.verifying
      BY <3>3, RaiseIs
    <3>6. client'[c] \in ClientType /\ client'[c].upToDate = k.upToDate
          /\ client'[c].verifying = k.verifying
      BY <3>4, <3>5
    <3> QED
      BY <3>1, <3>6 DEF Fresh
  <2>4. client' \in [Collection -> ClientType] /\ UNCHANGED inbox
    <3>1. client' = [c \in Collection |-> client'[c]] /\ UNCHANGED inbox
      BY <2>2 DEF OnWatermark
    <3> QED
      BY <2>3, <3>1
  <2>5. \A d \in Collection : ~Ends(Head(out), d)
    BY <1>3, <2>1 DEF Ends
  <2> QED
    BY <1>1, <1>4, <2>3, <2>4, <2>5, ReceiveKeepsWhen DEF WireOK
<1>6. CASE f \notin [type : {"watermark"}, rev : Revision]
  <2>1. f.c \in Collection /\ f.type # "watermark"
    BY <1>6 DEF Messages, Cast
  <2>2. PICK c \in Collection : c = f.c
    BY <2>1
  <2>3. PICK k \in ClientType : k = client[c]
    BY <1>4
  <2>4. (Fr(k) <=> Fresh(c)) /\ Head(out).c = c
    BY <1>3, <2>2, <2>3, ClientIs
  <2>5. CASE f \in Cast
    <3>1. PICK u \in ClientType : u = Unverified(k) /\ ~Fr(u)
      BY UnverifiedIs
    <3>2. PICK e \in ClientType : e = Emptied(k) /\ ~Fr(e)
      BY EmptiedIs
    <3> DEFINE h == [u EXCEPT !.opening = "no", !.force = TRUE]
               w == [u EXCEPT !.opening = "no", !.retry = TRUE]
    <3>3. /\ h \in ClientType /\ h.upToDate = u.upToDate /\ h.verifying = u.verifying
          /\ w \in ClientType /\ w.upToDate = u.upToDate /\ w.verifying = u.verifying
      BY DEF ClientType
    <3>4. f.type \in {"syncing", "reset", "error", "needHashes"}
      BY <2>5 DEF Cast
    <3>5. SendOpen(c, e) \/ Keep(c, u) \/ SendOpen(c, h) \/ Keep(c, w)
      <4>1. CASE f.type = "reset"
        BY <1>3, <2>2, <2>3, <3>2, <4>1 DEF Receive
      <4>2. CASE f.type = "syncing"
        BY <1>3, <2>2, <2>3, <3>1, <4>2 DEF Receive
      <4>3. CASE f.type = "needHashes"
        BY <1>3, <2>2, <2>3, <3>1, <4>3 DEF Receive
      <4>4. CASE f.type = "error"
        BY <1>3, <2>2, <2>3, <3>1, <4>4 DEF Receive
      <4> QED
        BY <3>4, <4>1, <4>2, <4>3, <4>4
    <3> HIDE DEF h, w
    <3>6. ~Fr(h) /\ ~Fr(w)
      BY <3>1, <3>3 DEF Fr
    <3>7. \E v \in ClientType : Moved(c, v) /\ ~Fr(v)
      BY <1>4, <3>1, <3>2, <3>3, <3>5, <3>6, KeepIs, SendOpenIs
    <3> QED
      BY <1>1, <2>4, <3>7, ReadsOne
  <2>6. CASE f.type = "snapshot"
    <3>1. f.cur \in Cursor /\ f.rows \in Rows
      BY <1>6, <2>6 DEF Messages, Cast
    <3>2. PICK u \in ClientType : u = Replaced(k, f.cur, f.rows) /\ ~Fr(u)
      BY <3>1, ReplacedIs
    <3> DEFINE v == [u EXCEPT !.opening = "no"]
    <3>3. v \in ClientType /\ v.upToDate = u.upToDate /\ v.verifying = u.verifying
      BY DEF ClientType
    <3>4. OnSnapshot(c, f)
      BY <1>3, <2>2, <2>6 DEF Receive
    <3>5. Keep(c, k) \/ Keep(c, v)
      BY <2>3, <3>2, <3>4 DEF OnSnapshot
    <3> HIDE DEF v
    <3>6. ~Fr(v)
      BY <3>2, <3>3 DEF Fr
    <3>7. \E x \in ClientType : Moved(c, x) /\ (Fr(x) => Fresh(c))
      BY <1>4, <2>4, <3>3, <3>5, <3>6, KeepIs
    <3> QED
      BY <1>1, <1>3, <2>4, <2>6, <3>7, ReadsOne
  <2>7. CASE f.type = "delta"
    <3>1. f.cur \in Cursor /\ f.ups \in Rows /\ f.del \in Rows
      BY <1>6, <2>7 DEF Messages, Cast
    <3>2. (k.rows \ f.del) \cup f.ups \in Rows
      BY <3>1 DEF ClientType, Rows
    <3>3. PICK u \in ClientType : u = Replaced(k, f.cur, (k.rows \ f.del) \cup f.ups) /\ ~Fr(u)
      BY <3>1, <3>2, ReplacedIs
    <3>4. OnDelta(c, f)
      BY <1>3, <2>2, <2>7 DEF Receive
    <3>5. Keep(c, k) \/ Keep(c, u)
      BY <2>3, <3>3, <3>4 DEF OnDelta
    <3>6. \E x \in ClientType : Moved(c, x) /\ (Fr(x) => Fresh(c))
      BY <1>4, <2>4, <3>3, <3>5, KeepIs
    <3> QED
      BY <1>1, <1>3, <2>4, <2>7, <3>6, ReadsOne
  <2>8. CASE f.type = "ready"
    <3>1. f.cur \in Cursor /\ f.rows \in Rows
      BY <1>6, <2>8 DEF Messages, Cast
    <3>2. PICK u \in ClientType : u = Accepted(k, f)
      BY <3>1, AcceptedIs
    <3> DEFINE v == [k EXCEPT !.verifying = [cur |-> f.cur, rows |-> f.rows]]
    <3>3. v \in ClientType
      BY <3>1 DEF ClientType
    <3>4. OnReady(c, f)
      BY <1>3, <2>2, <2>8 DEF Receive
    <3>5. Keep(c, k) \/ Keep(c, u) \/ Keep(c, v)
      BY <2>3, <3>2, <3>4 DEF OnReady
    <3> HIDE DEF v
    <3>6. \E x \in ClientType : Moved(c, x)
      BY <1>4, <3>3, <3>5, KeepIs
    <3> QED
      BY <1>1, <1>3, <2>4, <2>8, <3>6, ReadsOne
  <2>9. f \in Cast \/ f.type \in {"snapshot", "delta", "ready"}
    BY <1>6 DEF Messages
  <2> QED
    BY <2>5, <2>6, <2>7, <2>8, <2>9
<1> QED
  BY <1>5, <1>6

-----------------------------------------------------------------------------
(* The invariant.                                                          *)

\* A server that has sent nothing.
LEMMA QuietIs ==
    ASSUME Quiet
    PROVE  /\ DatabaseOK /\ ListenerOK /\ Clock = 0 /\ marks \in Seq(Mark)
           /\ inbox \in Seq(OpenType) /\ out \in Seq(Messages) /\ 1 .. Len(out) = {}
           /\ reader = Idle /\ connected
<1>1. log \in Seq(Table) /\ Clock = 0
  BY DEF Quiet, Clock
<1>2. /\ faults \in [Fault -> Nat] /\ \A f \in Fault : faults[f] <= FaultLimit[f]
      /\ epoch = 1 + faults["redefine"]
  <2>1. faults = [f \in Fault |-> 0] /\ "redefine" \in Fault /\ epoch = 1
    BY DEF Quiet, Fault
  <2> QED
    BY <2>1, ConstantTypes
<1>3. DatabaseOK
  BY <1>1, <1>2, ConstantTypes DEF DatabaseOK, Quiet
<1>4. ListenerOK
  <2>1. notes \in Seq(Nat) /\ 1 .. Len(notes) = {}
    BY DEF Quiet
  <2> QED
    BY <2>1 DEF ListenerOK, Quiet
<1>5. marks \in Seq(Mark) /\ inbox \in Seq(OpenType) /\ out \in Seq(Messages) /\ 1 .. Len(out) = {}
  <2> HIDE DEF Mark, OpenType, Messages
  <2> QED
    BY DEF Quiet
<1> QED
  BY <1>1, <1>3, <1>4, <1>5 DEF Quiet, Idle

\* Nothing is sent at the start.
LEMMA SyncInitial ==
    SyncInit => SyncInv
<1> SUFFICES ASSUME SyncInit PROVE SyncInv
  OBVIOUS
<1>1. /\ Quiet /\ online = FALSE /\ opened \in SUBSET Collection
      /\ subs = [c \in Collection |-> NoSub] /\ client = [c \in Collection |-> Fresh0]
  BY DEF SyncInit
<1>2. /\ DatabaseOK /\ ListenerOK /\ Clock = 0 /\ marks \in Seq(Mark)
      /\ inbox \in Seq(OpenType) /\ out \in Seq(Messages) /\ 1 .. Len(out) = {} /\ reader = Idle
  BY <1>1, QuietIs
<1>3. Types
  BY <1>1, <1>2, Fresh0Is DEF Types, ServerOK, WireOK, TabOK
<1>4. \A c \in Collection : subs[c] = NoSub /\ ~IsOn(c) /\ ~Fresh(c)
  <2>1. \A c \in Collection : subs[c] = NoSub /\ client[c] = Fresh0
    BY <1>1
  <2> QED
    BY <2>1, OnMeansSub, Fresh0Is DEF IsOn, Fresh, Fr
<1>5. SubsHonest /\ ReaderHonest /\ FreshIsHeard
  BY <1>2, <1>4 DEF SubsHonest, ReaderHonest, FreshIsHeard
<1>6. Offline
  BY <1>1, <1>2, <1>4 DEF Offline, Quiet
<1> QED
  BY <1>3, <1>5, <1>6 DEF SyncInv, BasicInv

\* The state in which a tab is up to date is one of the invariant.
LEMMA UpToDateInitial ==
    UpToDate => SyncInv
<1> SUFFICES ASSUME UpToDate PROVE SyncInv
  OBVIOUS
<1> DEFINE first == [ep |-> 1, rev |-> 0]
<1>1. /\ Quiet /\ online = TRUE /\ opened = Collection
      /\ subs = [c \in Collection |-> SubFor(first, {}, TRUE, [compact |-> FALSE, rows |-> {}])]
      /\ client = [c \in Collection |-> Accepted(Fresh0, [cur |-> first])]
  BY DEF UpToDate
<1>2. /\ DatabaseOK /\ ListenerOK /\ Clock = 0 /\ marks \in Seq(Mark)
      /\ inbox \in Seq(OpenType) /\ out \in Seq(Messages) /\ 1 .. Len(out) = {}
      /\ reader = Idle /\ connected
  BY <1>1, QuietIs
<1>3. first \in Cursor /\ first.rev = 0
  BY ConstantTypes DEF Cursor, Revision
<1> HIDE DEF first
<1>4. PICK s \in SubType : /\ s = SubFor(first, {}, TRUE, [compact |-> FALSE, rows |-> {}])
                           /\ s.latest = NoCursor /\ s.cur = first /\ s.seen = {}
  BY <1>3, SnapshotIs, ConstantTypes
<1>5. PICK k \in ClientType : k = Accepted(Fresh0, [cur |-> first])
  <2>1. [cur |-> first].cur = first
    OBVIOUS
  <2> QED
    BY <1>3, <2>1, Fresh0Is, AcceptedIs
<1>6. subs = [c \in Collection |-> s] /\ client = [c \in Collection |-> k]
  BY <1>1, <1>4, <1>5
<1>7. Types
  BY <1>1, <1>2, <1>6 DEF Types, ServerOK, WireOK, TabOK
<1>8. \A c \in Collection : IsOn(c) /\ subs[c] = s
  BY <1>6, OnMeansSub DEF IsOn
<1>9. \A c \in Collection : Honest(c, s)
  <2>1. s.cur.rev = 0 /\ s.latest.rev = 0 /\ s.seen = {}
    BY <1>3, <1>4, ConstantTypes, Zenon
  <2>2. \A c \in Collection : Content(c, 0) = {}
    BY DEF Content
  <2> QED
    BY <1>2, <2>1, <2>2 DEF Honest
<1>10. SubsHonest /\ ReaderHonest /\ FreshIsHeard /\ Offline
  BY <1>1, <1>2, <1>8, <1>9 DEF SubsHonest, ReaderHonest, FreshIsHeard, Heard, Offline
<1> QED
  BY <1>7, <1>10 DEF SyncInv, BasicInv

\* Every step keeps the invariant.
LEMMA SyncStep ==
    SyncInv /\ [SyncNext]_syncVars => SyncInv'
<1> SUFFICES ASSUME SyncInv, [SyncNext]_syncVars PROVE SyncInv'
  OBVIOUS
<1>1. CASE Commit
  BY <1>1, CommitKeeps
<1>2. CASE Failure
  <2>1. CASE ReaderFails
    <3>1. reader.stage = "deliver" /\ DeliverFails(reader.c, "reader")
      BY <2>1 DEF ReaderFails
    <3>2. reader.c \in Collection
      BY <3>1, AtStage DEF ReaderType
    <3> QED
      BY <3>1, <3>2, FailsKeeps
  <2>2. ASSUME NEW c \in Collection, WorkerFails(c) PROVE SyncInv'
    BY <2>2, FailsKeeps DEF WorkerFails
  <2> QED
    BY <1>2, <2>1, <2>2, PruneKeeps, RedefineKeeps, BreaksKeeps, SocketClosesKeeps, ReloadKeeps,
       OpenFailsKeeps DEF Failure
<1>3. CASE Progress
  <2>1. CASE ReaderStep
    <3>1. ASSUME ReaderDelivers \/ ReaderReconciles PROVE SyncInv'
      <4>1. reader.stage = "deliver" /\ (Deliver(reader.c, "reader") \/ Reconcile(reader.c, "reader"))
        BY <3>1 DEF ReaderDelivers, ReaderReconciles
      <4>2. reader.c \in Collection
        BY <4>1, AtStage DEF ReaderType
      <4> QED
        BY <4>1, <4>2, DeliverKeeps, ReconcileKeeps
    <3> QED
      BY <2>1, <3>1, ReadOpenKeeps, SnapshotKeeps, AttachKeeps, WriteSnapshotKeeps, GoneKeeps
         DEF ReaderStep
  <2>2. ASSUME NEW c \in Collection, WorkerStep(c) PROVE SyncInv'
    BY <2>2, DeliverKeeps, ReconcileKeeps, FinishesKeeps
       DEF WorkerStep, WorkerDelivers, WorkerReconciles
  <2>3. ASSUME NEW c \in Collection, TabStep(c) \/ VisibilityChange(c) PROVE SyncInv'
    BY <2>3, VerifiedKeeps, HashedKeeps, RetryKeeps, VisibilityKeeps DEF TabStep
  <2> QED
    BY <1>3, <2>1, <2>2, <2>3, NotifyKeeps, DisconnectKeeps, RelistenKeeps, ReceiveKeeps,
       ReconnectKeeps DEF Progress
<1>4. CASE UNCHANGED syncVars
  <2>1. /\ UNCHANGED <<log, retained, epoch, notes, events, listening, connected>>
        /\ UNCHANGED <<subs, reader, marks, inbox, out, online, opened, client, faults>>
    BY <1>4 DEF syncVars
  <2>2. DatabaseOK' /\ ListenerOK'
    BY <2>1 DEF SyncInv, BasicInv, Types, DatabaseOK, ListenerOK, Clock
  <2>3. SubsHonest' /\ ReaderHonest'
    BY <2>1, SameHonest
  <2> QED
    BY <2>1, <2>2, <2>3, ElsewhereKeeps DEF serverVars
<1> QED
  BY <1>1, <1>2, <1>3, <1>4 DEF SyncNext

\* The invariant makes the cursors honest.
LEMMA InvIsHonest ==
    SyncInv => CursorsHonest
<1> SUFFICES ASSUME SyncInv PROVE CursorsHonest
  OBVIOUS
<1>1. Types /\ DatabaseOK /\ ListenerOK /\ ServerOK /\ WireOK /\ SubsHonest /\ FreshIsHeard
  BY DEF SyncInv, BasicInv, Types
<1>2. ASSUME NEW c \in Attached
      PROVE  c \in Collection /\ IsOn(c) /\ subs[c] \in SubType /\ Honest(c, subs[c])
  BY <1>1, OnIsSub DEF Attached, SubsHonest
<1>3. SyncOK
  <2>1. log \in BoundedSeq(Table, MaxRevision)
    <3>1. log \in [1 .. Len(log) -> Table] /\ Len(log) \in 0 .. MaxRevision
      BY <1>1, LatestIs DEF DatabaseOK, Clock
    <3> QED
      BY <3>1 DEF BoundedSeq, SeqOf
  <2>2. retained \in 0 .. Clock /\ epoch \in Nat
    BY <1>1, LatestIs, ConstantTypes DEF DatabaseOK
  <2>3. /\ \A i \in DOMAIN notes : notes[i] \in 1 .. Clock
        /\ events \subseteq Collection /\ opened \subseteq Collection
        /\ {listening, connected, online} \subseteq BOOLEAN
    BY <1>1 DEF ListenerOK, WireOK
  <2>4. \A c \in Attached :
          /\ subs[c].cur \in Cursor /\ subs[c].seen \in Rows
          /\ subs[c].running \in {"no", "ready", "ended"}
          /\ subs[c].stage \in {"free", "worker", "reader"}
    BY <1>2 DEF SubType
  <2>5. \A c \in Collection :
          /\ client[c].cur \in Cursor /\ client[c].rows \in Rows /\ client[c].floor \in Cursor
          /\ client[c].opening \in {"no", "sent", "hashing", "lost"}
    BY <1>1 DEF Types, TabOK, ClientType
  <2> QED
    BY <2>1, <2>2, <2>3, <2>4, <2>5 DEF SyncOK
<1>4. CursorCoversSeen
  BY <1>2 DEF CursorCoversSeen, Honest
<1>5. FreshOnlyWhileListening
  <2> SUFFICES ASSUME NEW c \in Collection, client[c].upToDate, ~connected
               PROVE  \/ \E i \in DOMAIN out :
                             /\ out[i].type \in {"syncing", "reset", "error", "needHashes"}
                             /\ out[i].c = c
                      \/ reader.stage # "idle" /\ reader.c = c
                      \/ \E i \in DOMAIN inbox : inbox[i].c = c
    BY DEF FreshOnlyWhileListening
  <2>1. Opening(c) \/ Told(c, 0)
    BY <1>1 DEF FreshIsHeard, Fresh, Heard
  <2>2. DOMAIN out = 1 .. Len(out) /\ DOMAIN inbox = 1 .. Len(inbox)
    <3>1. out \in Seq(Messages) /\ inbox \in Seq(OpenType)
      BY <1>1 DEF WireOK
    <3> HIDE DEF Messages, OpenType
    <3> QED
      BY <3>1
  <2>3. CASE Told(c, 0)
    BY <2>2, <2>3 DEF Told, Ends
  <2>4. CASE Opening(c)
    BY <2>2, <2>4 DEF Opening, InHand
  <2> QED
    BY <2>1, <2>3, <2>4
<1> QED
  BY <1>3, <1>4, <1>5 DEF CursorsHonest

\* Whatever is committed, lost, redefined or reloaded: the runtime's cursors cover
\* what was delivered (deliverSync, advanceUnchangedSync, sync.go), and once it no
\* longer hears of changes no collection stays up to date without a frame or an
\* open that ends it (markTenantSyncsOutOfDate, sync.go).
THEOREM CursorsStayHonest == SyncSpec => []CursorsHonest
<1>1. (SyncInit \/ UpToDate) => SyncInv
  BY SyncInitial, UpToDateInitial
<1> QED
  BY <1>1, SyncStep, InvIsHonest, PTL DEF SyncSpec

=============================================================================
