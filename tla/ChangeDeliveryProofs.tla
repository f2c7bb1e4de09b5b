------------------------ MODULE ChangeDeliveryProofs ------------------------
(***************************************************************************)
(* What ChangeDelivery promises, for every number of tables, callers,      *)
(* commits and losses of the LISTEN connection: the query cache never      *)
(* serves a payload from before an invalidation (NoStaleHit), a quiet      *)
(* subscription shows the database (SubscriptionsEndFresh), and so does a  *)
(* quiet cache (CachesEndFresh).                                           *)
(***************************************************************************)
EXTENDS ChangeDelivery, FiniteSetTheorems, SequenceTheorems, TLAPS

Budget == [commits : 0 .. MaxCommits, calls : Int, browses : Int, cuts : Int, doubts : Int,
           clears : Int, clearing : BOOLEAN, byHand : BOOLEAN]
ListenerType == [pc : {"wait", "dial", "listen", "refresh"}, link : BOOLEAN,
                 connected : BOOLEAN, needsRecovery : BOOLEAN]
BatchType == [open : BOOLEAN, declared : SUBSET Table, observed : SUBSET TenantTable]
FlightType == [key : Key, declared : SUBSET Table, observed : SUBSET TenantTable,
               pc : {"taken", "deliver"}, tables : SUBSET Table]
Versions == [Reads -> Nat]
Kind == {"query", "rows"}
Why == {"none", "initial", "invalidate", "recover"}
EntryType == [kind : Kind, gen : Versions, val : Versions]
SubType == [want : Why, asked : SUBSET Commit, seen : Versions]
FetchType == [pc : {"idle", "lookup", "read", "check", "key", "store"}, kind : Kind,
              reason : Why, gen : Versions, val : Versions]
Message == [k : 1 .. Len(commits), t : TenantTable]

\* The variables have their types, and name commits that happened.
Types ==
    /\ commits \in Seq(Changes) /\ Len(commits) <= MaxCommits
    /\ db \in [Table -> Nat] /\ (\A t \in Table : db[t] <= Len(commits))
    /\ declaring \subseteq 1 .. Len(commits)
    /\ channel \in Seq(Message)
    /\ listener \in ListenerType
    /\ batch \in [Key -> BatchType] /\ (\A k \in Commit : batch[k].open => k <= Len(commits))
    /\ flights \subseteq FlightType
    /\ \A b \in flights : b.key \in Commit => b.key <= Len(commits)
    /\ gen \in [Table -> Nat]
    /\ entries \subseteq EntryType
    /\ sub \in SubType /\ sub.asked \subseteq 1 .. Len(commits)
    /\ fetch \in [Fetcher -> FetchType]
    /\ budget \in Budget

Written(k, t) == k \in 1 .. Len(commits) /\ t \in commits[k].writes

\* A batch that is not in tableChanges is empty; one keyed by a table holds
\* what the triggers of that table sent.
BatchesOwn ==
    /\ \A key \in Key : ~batch[key].open => batch[key] = NoBatch
    /\ \A t \in TenantTable : batch[t].declared = {} /\ batch[t].observed \subseteq {t}

\* A committed write is in the database, and a table's content is a write.
Landed ==
    /\ \A k \in Commit, t \in Table : Written(k, t) => k <= db[t]
    /\ \A t \in Table : db[t] = 0 \/ Written(db[t], t)

\* The triggers only speak of tables their commit wrote.
Truthful ==
    /\ \A i \in 1 .. Len(channel) : channel[i].t \in commits[channel[i].k].writes
    /\ \A k \in Commit, t \in TenantTable : t \in batch[k].observed => Written(k, t)
    /\ \A b \in flights, t \in TenantTable :
          b.key \in Commit /\ t \in b.observed => Written(b.key, t)

BasicInv == Types /\ BatchesOwn /\ Landed /\ Truthful

-----------------------------------------------------------------------------
\* What the constants are.
LEMMA ConstantTypes ==
    /\ TenantTable \subseteq Table /\ LandlordTable \subseteq Table /\ Reads \subseteq Table
    /\ TenantTable \cap LandlordTable = {} /\ TenantTable \cap Commit = {}
    /\ Commit \subseteq Key /\ TenantTable \subseteq Key /\ Commit \subseteq Nat
    /\ MaxCommits \in Nat /\ "run" \in Fetcher /\ "run" \notin Caller /\ Caller \subseteq Fetcher
    /\ \A n \in Nat : n <= MaxCommits => 1 .. n \subseteq Commit
    /\ \A x \in Changes : x.writes \subseteq Table /\ x.declared \subseteq Table
                          /\ x.writes \cap LandlordTable \subseteq x.declared
  BY ConstantsAssumption DEF Table, Key, Commit, Fetcher

\* What every behaviour may do at its beginning.
LEMMA BoundsType ==
    ASSUME NEW b \in Bounds
    PROVE  b \in Budget /\ (~b.byHand => b.browses = 0 /\ b.clears = 0 /\ ~b.clearing)
<1>1. b \in [commits : 0 .. MaxCommits, calls : Nat, browses : Nat, cuts : Nat,
             doubts : Nat, clears : Nat, clearing : BOOLEAN, byHand : BOOLEAN]
  BY BoundsAssumption
<1>2. b \in Budget
  BY <1>1 DEF Budget
<1> QED
  BY <1>2, BoundsAssumption

\* Init establishes BasicInv.
LEMMA InitBasic ==
    ASSUME Init
    PROVE  BasicInv
<1>1. budget \in Budget
  BY BoundsType DEF Init
<1>2. NoBatch \in BatchType /\ NoFetch \in FetchType
  BY ConstantTypes DEF NoBatch, BatchType, NoFetch, FetchType, Versions, Kind, Why
<1>3. commits = <<>> /\ Len(commits) = 0 /\ channel = <<>> /\ Len(channel) = 0
  BY DEF Init
<1>4. Types
  <2>1. /\ commits \in Seq(Changes) /\ Len(commits) <= MaxCommits
        /\ db \in [Table -> Nat] /\ (\A t \in Table : db[t] <= Len(commits))
        /\ declaring \subseteq 1 .. Len(commits) /\ gen \in [Table -> Nat]
    BY <1>3, ConstantTypes DEF Init
  <2>2. channel \in Seq(Message)
    BY <1>3
  <2>3. /\ batch \in [Key -> BatchType] /\ (\A k \in Commit : batch[k].open => k <= Len(commits))
        /\ flights = {} /\ entries = {} /\ fetch \in [Fetcher -> FetchType]
    BY <1>2, ConstantTypes DEF Init, NoBatch
  <2>4. listener \in ListenerType
    BY DEF Init, ListenerType
  <2>5. sub \in SubType /\ sub.asked \subseteq 1 .. Len(commits)
    BY ConstantTypes DEF Init, SubType, Versions, Why
  <2> QED
    BY <1>1, <2>1, <2>2, <2>3, <2>4, <2>5 DEF Types
<1>5. BatchesOwn
  BY ConstantTypes DEF Init, BatchesOwn, NoBatch
<1>6. Landed
  BY <1>3, ConstantTypes DEF Init, Landed, Written
<1>7. Truthful
  BY <1>3, ConstantTypes DEF Init, Truthful, NoBatch
<1> QED
  BY <1>4, <1>5, <1>6, <1>7 DEF BasicInv

-----------------------------------------------------------------------------
(* One lemma per group of actions: it keeps BasicInv.                       *)

\* DoCommit appends to the log and, unless nobody listens, to the channel.
LEMMA CommitAppends ==
    ASSUME Types, NEW x \in Changes, DoCommit(x)
    PROVE  LET k == Len(commits) + 1
           IN  /\ k \in Commit /\ Len(commits) \in Nat /\ k <= MaxCommits
               /\ commits' \in Seq(Changes) /\ Len(commits') = k /\ commits'[k] = x
               /\ \A i \in 1 .. Len(commits) : commits'[i] = commits[i]
               /\ channel' \in Seq(Message')
               /\ \A i \in 1 .. Len(channel) :
                     i \in 1 .. Len(channel') /\ channel'[i] = channel[i]
               /\ \A t \in x.writes \cap TenantTable : Hears =>
                     \E i \in 1 .. Len(channel') : channel'[i].k = k /\ channel'[i].t = t
               /\ \A i \in 1 .. Len(channel') :
                     \/ i \in 1 .. Len(channel) /\ channel'[i] = channel[i]
                     \/ channel'[i].k = k /\ channel'[i].t \in x.writes
<1> DEFINE k == Len(commits) + 1
           tables == x.writes \cap TenantTable
           Msg == Message'
<1>1. /\ commits \in Seq(Changes) /\ Len(commits) \in Nat /\ k <= MaxCommits /\ k \in Commit
      /\ channel \in Seq(Message)
  BY ConstantTypes DEF Types, Budget, DoCommit, Commit
<1>2. /\ commits' \in Seq(Changes) /\ Len(commits') = k /\ commits'[k] = x
      /\ \A i \in 1 .. Len(commits) : commits'[i] = commits[i]
  BY <1>1 DEF DoCommit
<1>3. Cardinality(tables) \in Nat
  BY ConstantsAssumption, FS_Subset, FS_CardinalityType
<1>4. PICK sent \in Notifications(k, tables) : channel' = IF Hears THEN channel \o sent ELSE channel
  BY DEF DoCommit
<1> DEFINE n == Cardinality(tables)
<1>5. /\ sent \in [1 .. n -> [k : {k}, t : tables]]
      /\ \A t \in tables : \E i \in 1 .. n : sent[i].t = t
  BY <1>4 DEF Notifications
<1>6. channel \in Seq(Msg)
  <2>1. Message \subseteq Msg
    BY <1>1, <1>2 DEF Message
  <2> HIDE DEF Msg
  <2> QED
    BY <1>1, <2>1, SeqMonotonic
<1>7. sent \in Seq(Msg) /\ Len(sent) = n
  <2>1. [k : {k}, t : tables] \subseteq Msg
    BY <1>1, <1>2 DEF Message
  <2> HIDE DEF Msg, tables, k, n
  <2>2. sent \in [1 .. n -> Msg] /\ n \in Nat
    BY <1>3, <1>5, <2>1 DEF n
  <2> QED
    BY <2>2
<1>8. \A i \in 1 .. n : sent[i].k = k /\ sent[i].t \in tables
  BY <1>5
<1> HIDE DEF Msg, tables, k, n
<1>9. Len(channel) \in Nat /\ n \in Nat
  BY <1>3, <1>6 DEF n
<1>10. Hears => /\ channel' \in Seq(Msg) /\ Len(channel') = Len(channel) + n
                /\ \A i \in 1 .. Len(channel) : channel'[i] = channel[i]
                /\ \A i \in 1 .. n : channel'[Len(channel) + i] = sent[i]
  <2>1. /\ channel \o sent \in Seq(Msg) /\ Len(channel \o sent) = Len(channel) + n
        /\ \A i \in 1 .. Len(channel) + n :
              (channel \o sent)[i] = IF i <= Len(channel) THEN channel[i]
                                    ELSE sent[i - Len(channel)]
    BY <1>6, <1>7, ConcatProperties
  <2>2. \A i \in 1 .. Len(channel) : (channel \o sent)[i] = channel[i]
    BY <1>9, <2>1
  <2>3. ASSUME NEW i \in 1 .. n
        PROVE  (channel \o sent)[Len(channel) + i] = sent[i]
    <3>1. Len(channel) + i \in 1 .. Len(channel) + n /\ ~(Len(channel) + i <= Len(channel))
          /\ (Len(channel) + i) - Len(channel) = i
      BY <1>9
    <3> QED
      BY <2>1, <3>1
  <2> QED
    BY <1>4, <2>1, <2>2, <2>3
<1>11. channel' \in Seq(Msg)
  BY <1>4, <1>6, <1>10
<1>12. \A i \in 1 .. Len(channel) : i \in 1 .. Len(channel') /\ channel'[i] = channel[i]
  BY <1>4, <1>9, <1>10
<1>13. \A t \in tables : Hears =>
           \E i \in 1 .. Len(channel') : channel'[i].k = k /\ channel'[i].t = t
  <2> SUFFICES ASSUME NEW t \in tables, Hears
               PROVE  \E i \in 1 .. Len(channel') : channel'[i].k = k /\ channel'[i].t = t
    OBVIOUS
  <2>1. PICK i \in 1 .. n : sent[i].t = t
    BY <1>5
  <2>2. Len(channel) + i \in 1 .. Len(channel') /\ channel'[Len(channel) + i] = sent[i]
    BY <1>9, <1>10
  <2> QED
    BY <1>8, <2>1, <2>2
<1>14. \A i \in 1 .. Len(channel') :
           \/ i \in 1 .. Len(channel) /\ channel'[i] = channel[i]
           \/ channel'[i].k = k /\ channel'[i].t \in x.writes
  <2> SUFFICES ASSUME NEW i \in 1 .. Len(channel'), i \notin 1 .. Len(channel)
               PROVE  channel'[i].k = k /\ channel'[i].t \in x.writes
    BY <1>4, <1>12
  <2>1. Hears
    BY <1>4
  <2>2. i - Len(channel) \in 1 .. n /\ Len(channel) + (i - Len(channel)) = i
    BY <1>9, <1>10, <2>1
  <2>3. channel'[i] = sent[i - Len(channel)]
    BY <1>10, <2>1, <2>2
  <2> QED
    BY <1>8, <2>2, <2>3 DEF tables
<1> QED
  BY <1>1, <1>2, <1>11, <1>12, <1>13, <1>14 DEF k, tables, Msg

\* What is written stays written.
LEMMA WrittenGrows ==
    ASSUME Types, NEW x \in Changes, DoCommit(x)
    PROVE  /\ \A k, t : Written(k, t) => Written(k, t)'
           /\ \A k, t : Written(k, t)' => Written(k, t) \/ (k = Len(commits) + 1 /\ t \in x.writes)
<1> DEFINE n == Len(commits) + 1
<1>1. /\ Len(commits) \in Nat /\ Len(commits') = n /\ commits'[n] = x
      /\ \A i \in 1 .. Len(commits) : commits'[i] = commits[i]
  BY CommitAppends
<1>2. \A k, t : Written(k, t) => Written(k, t)'
  <2> SUFFICES ASSUME NEW k, NEW t, Written(k, t)
               PROVE  Written(k, t)'
    OBVIOUS
  <2>1. k \in 1 .. Len(commits) /\ commits'[k] = commits[k] /\ t \in commits[k].writes
    BY <1>1 DEF Written
  <2>2. k \in 1 .. Len(commits')
    BY <1>1, <2>1
  <2> QED
    BY <2>1, <2>2 DEF Written
<1>3. \A k, t : Written(k, t)' => Written(k, t) \/ (k = n /\ t \in x.writes)
  <2> SUFFICES ASSUME NEW k, NEW t, Written(k, t)', k # n
               PROVE  Written(k, t)
    BY <1>1 DEF Written
  <2>1. k \in 1 .. Len(commits') /\ t \in commits'[k].writes
    BY DEF Written
  <2>2. k \in 1 .. Len(commits)
    BY <1>1, <2>1
  <2> QED
    BY <1>1, <2>1, <2>2 DEF Written
<1> QED
  BY <1>2, <1>3

\* A commit keeps the types and the order of what is on its way.
LEMMA CommitBasic ==
    ASSUME BasicInv, NEW x \in Changes, DoCommit(x)
    PROVE  BasicInv'
<1> DEFINE k == Len(commits) + 1
<1>0. Types
  BY DEF BasicInv
<1>1. /\ k \in Commit /\ Len(commits) \in Nat /\ k <= MaxCommits
      /\ commits' \in Seq(Changes) /\ Len(commits') = k /\ commits'[k] = x
      /\ \A i \in 1 .. Len(commits) : commits'[i] = commits[i]
      /\ channel' \in Seq(Message')
      /\ \A i \in 1 .. Len(channel') :
            \/ i \in 1 .. Len(channel) /\ channel'[i] = channel[i]
            \/ channel'[i].k = k /\ channel'[i].t \in x.writes
  BY <1>0, CommitAppends
<1>2. /\ UNCHANGED <<listener, batch, flights, gen, entries, applied, sub, fetch, budget>>
      /\ db' = [t \in Table |-> IF t \in x.writes THEN k ELSE db[t]]
      /\ declaring' \subseteq declaring \cup {k}
  BY DEF DoCommit
<1>3. /\ \A c, t : Written(c, t) => Written(c, t)'
      /\ \A c, t : Written(c, t)' => Written(c, t) \/ (c = k /\ t \in x.writes)
  BY <1>0, WrittenGrows
<1>4. /\ db' \in [Table -> Nat] /\ (\A t \in Table : db'[t] <= Len(commits'))
      /\ \A t \in Table : db[t] <= db'[t]
      /\ \A t \in x.writes : t \in Table => db'[t] = k
  BY <1>0, <1>1, <1>2 DEF Types
<1>5. Types'
  <2>1. declaring' \subseteq 1 .. Len(commits')
    <3>1. 1 .. Len(commits) \subseteq 1 .. k /\ k \in 1 .. k
      BY <1>1
    <3>2. declaring \subseteq 1 .. Len(commits)
      BY <1>0 DEF Types
    <3> HIDE DEF k
    <3> QED
      BY <1>1, <1>2, <3>1, <3>2
  <2>2. \A c \in Commit : batch'[c].open => c <= Len(commits')
    BY <1>0, <1>1, <1>2, ConstantTypes DEF Types
  <2>3. \A b \in flights' : b.key \in Commit => b.key <= Len(commits')
    <3>1. \A b \in flights : b.key \in Commit => b.key <= Len(commits)
      BY <1>0 DEF Types
    <3>2. \A n \in Commit : n <= Len(commits) => n <= Len(commits')
      BY <1>1, ConstantTypes
    <3> QED
      BY <1>2, <3>1, <3>2
  <2>4. sub'.asked \subseteq 1 .. Len(commits')
    <3>1. 1 .. Len(commits) \subseteq 1 .. k
      BY <1>1
    <3>2. sub.asked \subseteq 1 .. Len(commits)
      BY <1>0 DEF Types
    <3> QED
      BY <1>1, <1>2, <3>1, <3>2
  <2> HIDE DEF k
  <2> QED
    BY <1>0, <1>1, <1>2, <1>4, <2>1, <2>2, <2>3, <2>4 DEF Types
<1>6. BatchesOwn'
  BY <1>2 DEF BasicInv, BatchesOwn
<1>7. Landed'
  <2>1. ASSUME NEW c \in Commit, NEW t \in Table, Written(c, t)'
        PROVE  c <= db'[t]
    <3>1. CASE Written(c, t)
      <4>1. c <= db[t] /\ db[t] <= db'[t]
        BY <1>4, <3>1 DEF BasicInv, Landed
      <4>2. c \in Nat /\ db[t] \in Nat /\ db'[t] \in Nat
        BY <1>0, <1>4, ConstantTypes DEF Types
      <4> QED
        BY <4>1, <4>2
    <3>2. CASE c = k /\ t \in x.writes
      BY <1>1, <1>4, <3>2
    <3> QED
      BY <1>3, <2>1, <3>1, <3>2
  <2>2. ASSUME NEW t \in Table
        PROVE  db'[t] = 0 \/ Written(db[t], t)'
    <3>1. CASE t \in x.writes
      <4>1. db'[t] = k /\ k \in 1 .. Len(commits') /\ commits'[k] = x
        BY <1>1, <1>4, <3>1
      <4> HIDE DEF k
      <4> QED
        BY <3>1, <4>1 DEF Written
    <3>2. CASE t \notin x.writes
      <4>1. db'[t] = db[t]
        BY <1>2, <3>2
      <4> QED
        BY <1>3, <4>1 DEF BasicInv, Landed
    <3> QED
      BY <3>1, <3>2
  <2> QED
    BY <2>1, <2>2 DEF Landed
<1>8. Truthful'
  <2>1. ASSUME NEW i \in 1 .. Len(channel')
        PROVE  channel'[i].t \in commits'[channel'[i].k].writes
    <3>1. CASE i \in 1 .. Len(channel) /\ channel'[i] = channel[i]
      <4>1. channel[i].k \in 1 .. Len(commits)
        <5> HIDE DEF k
        <5>1. channel[i] \in Message
          BY <1>0, <3>1, ElementOfSeq DEF Types
        <5> QED
          BY <5>1 DEF Message
      <4>2. channel[i].t \in commits[channel[i].k].writes
        BY <3>1 DEF BasicInv, Truthful
      <4> QED
        BY <1>1, <3>1, <4>1, <4>2
    <3>2. CASE channel'[i].k = k /\ channel'[i].t \in x.writes
      BY <1>1, <3>2
    <3> QED
      BY <1>1, <3>1, <3>2
  <2> QED
    BY <1>2, <1>3, <2>1 DEF BasicInv, Truthful
<1> QED
  BY <1>5, <1>6, <1>7, <1>8 DEF BasicInv

\* Broadcast: the declaration joins the batch of its commit.
LEMMA BroadcastBasic ==
    ASSUME BasicInv, NEW k \in Commit, Broadcast(k)
    PROVE  /\ BasicInv'
           /\ k \in 1 .. Len(commits) /\ commits[k] \in Changes
           /\ \E new \in BatchType :
                 /\ batch' = [batch EXCEPT ![k] = new]
                 /\ new.open /\ new.declared = commits[k].declared
                 /\ new.observed = batch[k].observed
<1>0. Types /\ batch \in [Key -> BatchType] /\ k \in Key /\ Len(commits) \in Nat
  BY ConstantTypes DEF BasicInv, Types
<1>1. k \in 1 .. Len(commits) /\ commits[k] \in Changes
  <2>1. k \in 1 .. Len(commits)
    BY <1>0 DEF Broadcast, Types
  <2> QED
    BY <1>0, <2>1 DEF Types
<1>2. commits[k].declared \in SUBSET Table
  BY <1>1, ConstantTypes
<1>3. PICK new \in BatchType :
          /\ batch' = [batch EXCEPT ![k] = new]
          /\ new.open /\ new.declared = commits[k].declared
          /\ new.observed = batch[k].observed
  <2> DEFINE u == [batch[k] EXCEPT !.open = TRUE, !.declared = commits[k].declared]
  <2>1. batch' = [batch EXCEPT ![k] = u]
    BY DEF Broadcast
  <2>2. u \in BatchType /\ u.open /\ u.declared = commits[k].declared
        /\ u.observed = batch[k].observed
    BY <1>0, <1>2 DEF BatchType
  <2> HIDE DEF u
  <2> QED
    BY <2>1, <2>2
<1>4. UNCHANGED <<db, commits, channel, listener, flights, gen, entries, applied, sub, fetch,
                  budget>>
      /\ declaring' \subseteq declaring
  BY DEF Broadcast
<1>5. \A key \in Key : batch'[key] = IF key = k THEN new ELSE batch[key]
  BY <1>0, <1>3
<1>6. Types'
  <2>1. batch' \in [Key -> BatchType]
    BY <1>0, <1>3
  <2>2. \A c \in Commit : batch'[c].open => c <= Len(commits)
    BY <1>0, <1>1, <1>5, ConstantTypes DEF Types
  <2>3. channel' \in Seq(Message') /\ Message' = Message
    BY <1>0, <1>4 DEF Types, Message
  <2> QED
    BY <1>0, <1>4, <2>1, <2>2, <2>3 DEF Types
<1>7. BatchesOwn'
  <2>1. \A t \in TenantTable : batch'[t] = batch[t]
    BY <1>5, ConstantTypes
  <2> QED
    BY <1>3, <1>5, <2>1 DEF BasicInv, BatchesOwn
<1>8. Landed' /\ Truthful'
  <2>1. \A c, t : Written(c, t)' <=> Written(c, t)
    BY <1>4 DEF Written
  <2>2. \A c \in Commit : batch'[c].observed = batch[c].observed
    BY <1>3, <1>5, ConstantTypes
  <2> QED
    BY <1>4, <2>1, <2>2 DEF BasicInv, Landed, Truthful
<1> QED
  BY <1>1, <1>3, <1>6, <1>7, <1>8 DEF BasicInv

\* Observe: the next notification leaves the channel for its batch.
LEMMA ObserveBasic ==
    ASSUME BasicInv, Observe
    PROVE  /\ BasicInv'
           /\ \E k \in Commit : \E t \in TenantTable : \E key \in Key : \E new \in BatchType :
                 /\ Written(k, t) /\ (key = k \/ key = t)
                 /\ channel # <<>> /\ channel[1].k = k /\ channel[1].t = t
                 /\ Len(channel') = Len(channel) - 1
                 /\ \A i \in 1 .. Len(channel') : channel'[i] = channel[i + 1]
                 /\ Invalidate({t}, k)
                 /\ batch' = [batch EXCEPT ![key] = new]
                 /\ new.open /\ new.declared = batch[key].declared
                 /\ new.observed = batch[key].observed \cup {t}
<1> DEFINE n == Head(channel)
           key == IF commits[n.k].named THEN n.k ELSE n.t
<1>0. Types /\ batch \in [Key -> BatchType] /\ Len(commits) \in Nat /\ Len(commits) <= MaxCommits
  BY DEF BasicInv, Types
<1>1. /\ n \in Message /\ channel' \in Seq(Message) /\ channel # <<>> /\ channel[1] = n
      /\ Len(channel) \in Nat /\ Len(channel) > 0 /\ Len(channel') = Len(channel) - 1
      /\ \A i \in 1 .. Len(channel') : channel'[i] = channel[i + 1]
  <2> DEFINE M == Message
  <2>1. channel \in Seq(M) /\ channel # <<>> /\ channel' = Tail(channel)
    BY <1>0 DEF Types, Observe
  <2> HIDE DEF M
  <2>2. /\ n \in M /\ channel' \in Seq(M) /\ channel[1] = n
        /\ Len(channel) \in Nat /\ Len(channel) > 0 /\ Len(channel') = Len(channel) - 1
    BY <2>1, HeadTailProperties
  <2>3. \A i \in 1 .. Len(channel') : channel'[i] = channel[i + 1]
    BY <2>1
  <2> QED
    BY <2>1, <2>2, <2>3 DEF M
<1>2. n.k \in 1 .. Len(commits) /\ n.t \in TenantTable /\ n.k \in Commit
  <2>1. n.k \in 1 .. Len(commits) /\ n.t \in TenantTable
    BY <1>1 DEF Message
  <2> HIDE DEF n
  <2> QED
    BY <1>0, <2>1, ConstantTypes
<1>3. Written(n.k, n.t)
  <2>1. 1 \in 1 .. Len(channel)
    BY <1>1
  <2> QED
    BY <1>1, <1>2, <2>1 DEF BasicInv, Truthful, Written
<1>4. /\ UNCHANGED <<db, commits, declaring, listener, flights, entries, sub, fetch, budget>>
      /\ Invalidate({n.t}, n.k)
      /\ batch' = [batch EXCEPT ![key].open = TRUE, ![key].observed = @ \cup {n.t}]
  BY DEF Observe
<1>5. key \in Key /\ (key = n.k \/ key = n.t)
  BY <1>2, ConstantTypes
<1>6. PICK k \in Commit, t \in TenantTable : k = n.k /\ t = n.t
  BY <1>2
<1>7. PICK w \in Key : w = key
  BY <1>5
<1>8. PICK new \in BatchType :
          /\ batch' = [batch EXCEPT ![w] = new]
          /\ new.open /\ new.declared = batch[w].declared
          /\ new.observed = batch[w].observed \cup {t}
  <2> DEFINE u == [batch[w] EXCEPT !.open = TRUE, !.observed = @ \cup {t}]
  <2> HIDE DEF key
  <2>1. batch' = [batch EXCEPT ![w] = u]
    BY <1>0, <1>4, <1>6, <1>7
  <2>2. u \in BatchType /\ u.open /\ u.declared = batch[w].declared
        /\ u.observed = batch[w].observed \cup {t}
    BY <1>0 DEF BatchType
  <2> HIDE DEF u
  <2> QED
    BY <2>1, <2>2
<1>9. /\ k \in 1 .. Len(commits) /\ Written(k, t) /\ (w = k \/ w = t) /\ Invalidate({t}, k)
      /\ channel[1].k = k /\ channel[1].t = t
  BY <1>1, <1>2, <1>3, <1>4, <1>5, <1>6, <1>7
<1> HIDE DEF key, n
<1>10. \A c \in Key : batch'[c] = IF c = w THEN new ELSE batch[c]
  BY <1>0, <1>8
<1>11. \A c, u : Written(c, u)' <=> Written(c, u)
  BY <1>4 DEF Written
<1>12. Types'
  <2>1. batch' \in [Key -> BatchType]
    BY <1>0, <1>8
  <2>2. \A c \in Commit : batch'[c].open => c <= Len(commits)
    <3>1. w \in Commit => w <= Len(commits)
      BY <1>0, <1>9, ConstantTypes
    <3> QED
      BY <1>0, <1>10, <3>1, ConstantTypes DEF Types
  <2>3. channel' \in Seq(Message') /\ Message' = Message
    BY <1>1, <1>4 DEF Message
  <2>4. gen' \in [Table -> Nat]
    BY <1>0, <1>9 DEF Invalidate, Types
  <2> QED
    BY <1>0, <1>4, <2>1, <2>2, <2>3, <2>4 DEF Types
<1>13. BatchesOwn'
  <2>1. \A c \in Key : ~batch'[c].open => batch'[c] = NoBatch
    BY <1>8, <1>10 DEF BasicInv, BatchesOwn
  <2>2. \A u \in TenantTable : batch'[u].declared = {} /\ batch'[u].observed \subseteq {u}
    <3>1. \A u \in TenantTable : u = w => w = t
      BY <1>9, ConstantTypes
    <3>2. \A u \in TenantTable : batch[u].declared = {} /\ batch[u].observed \subseteq {u}
      BY DEF BasicInv, BatchesOwn
    <3> QED
      BY <1>8, <1>10, <3>1, <3>2, ConstantTypes
  <2> QED
    BY <2>1, <2>2 DEF BatchesOwn
<1>14. Landed'
  BY <1>4, <1>11 DEF BasicInv, Landed
<1>15. Truthful'
  <2>1. ASSUME NEW i \in 1 .. Len(channel')
        PROVE  channel'[i].t \in commits'[channel'[i].k].writes
    <3>1. i + 1 \in 1 .. Len(channel) /\ channel'[i] = channel[i + 1]
      BY <1>1
    <3> QED
      BY <1>4, <3>1 DEF BasicInv, Truthful
  <2>2. ASSUME NEW c \in Commit, NEW u \in TenantTable, u \in batch'[c].observed
        PROVE  Written(c, u)
    <3>1. CASE c = w
      BY <1>8, <1>9, <1>10, <2>2, <3>1, ConstantTypes DEF BasicInv, Truthful
    <3>2. CASE c # w
      BY <1>10, <2>2, <3>2, ConstantTypes DEF BasicInv, Truthful
    <3> QED
      BY <3>1, <3>2
  <2> QED
    BY <1>4, <1>11, <2>1, <2>2 DEF BasicInv, Truthful
<1>16. \E c \in Commit : \E u \in TenantTable : \E x \in Key : \E y \in BatchType :
          /\ Written(c, u) /\ (x = c \/ x = u)
          /\ channel # <<>> /\ channel[1].k = c /\ channel[1].t = u
          /\ Len(channel') = Len(channel) - 1
          /\ \A i \in 1 .. Len(channel') : channel'[i] = channel[i + 1]
          /\ Invalidate({u}, c)
          /\ batch' = [batch EXCEPT ![x] = y]
          /\ y.open /\ y.declared = batch[x].declared
          /\ y.observed = batch[x].observed \cup {u}
  BY <1>1, <1>8, <1>9
<1> QED
  BY <1>12, <1>13, <1>14, <1>15, <1>16 DEF BasicInv

\* The listener's connection comes and goes.
LEMMA ListenerBasic ==
    ASSUME BasicInv, Listening \/ Cut \/ MarkNeedsRecovery
    PROVE  BasicInv'
<1>0. Types
  BY DEF BasicInv
<1>1. UNCHANGED <<db, commits, declaring, gen, applied, entries, fetch, batch, flights>>
  BY DEF Listening, Cut, MarkNeedsRecovery, MarkDisconnected, Listen, MarkReady, RefreshTenant
<1>2. channel' = channel \/ channel' = <<>>
  BY DEF Listening, Cut, MarkNeedsRecovery, MarkDisconnected, Listen, MarkReady, RefreshTenant
<1>3. sub' \in SubType /\ sub'.asked = sub.asked
  <2>1. sub' = sub \/ sub' = [sub EXCEPT !.want = "recover"]
    BY DEF Listening, Cut, MarkNeedsRecovery, MarkDisconnected, Listen, MarkReady, RefreshTenant
  <2>2. sub \in SubType
    BY <1>0 DEF Types
  <2> QED
    BY <2>1, <2>2 DEF SubType, Why
<1>4. budget' \in Budget
  <2>1. \/ budget' = budget \/ budget' = [budget EXCEPT !.cuts = @ - 1]
        \/ budget' = [budget EXCEPT !.doubts = @ - 1]
    BY DEF Listening, Cut, MarkNeedsRecovery, MarkDisconnected, Listen, MarkReady, RefreshTenant
  <2>2. budget \in Budget
    BY <1>0 DEF Types
  <2>3. CASE budget' = [budget EXCEPT !.cuts = @ - 1]
    BY <2>2, <2>3 DEF Budget
  <2>4. CASE budget' = [budget EXCEPT !.doubts = @ - 1]
    BY <2>2, <2>4 DEF Budget
  <2> QED
    BY <2>1, <2>2, <2>3, <2>4
<1>5. listener' \in ListenerType
  <2>1. listener \in ListenerType
    BY <1>0 DEF Types
  <2>2. CASE Listening
    BY <2>1, <2>2 DEF Listening, MarkDisconnected, Listen, MarkReady, RefreshTenant, ListenerType
  <2>3. CASE Cut \/ MarkNeedsRecovery
    BY <2>1, <2>3 DEF Cut, MarkNeedsRecovery, ListenerType
  <2> QED
    BY <2>2, <2>3
<1>6. channel' \in Seq(Message') /\ Message' = Message
  <2> DEFINE M == Message
  <2>1. channel \in Seq(M) /\ Message' = M
    BY <1>0, <1>1 DEF Types, Message
  <2> HIDE DEF M
  <2>2. channel' \in Seq(M)
    BY <1>2, <2>1, EmptySeq
  <2> QED
    BY <2>1, <2>2 DEF M
<1>7. Types'
  BY <1>0, <1>1, <1>3, <1>4, <1>5, <1>6 DEF Types
<1>8. BatchesOwn' /\ Landed' /\ Truthful'
  <2>1. \A c, t : Written(c, t)' <=> Written(c, t)
    BY <1>1 DEF Written
  <2>2. \A i \in 1 .. Len(channel') : i \in 1 .. Len(channel) /\ channel'[i] = channel[i]
    BY <1>2
  <2> QED
    BY <1>1, <2>1, <2>2 DEF BasicInv, BatchesOwn, Landed, Truthful
<1> QED
  BY <1>7, <1>8 DEF BasicInv

\* FlushTake: the batch becomes a flight.
LEMMA FlushTakeBasic ==
    ASSUME BasicInv, NEW key \in Key, FlushTake(key)
    PROVE  /\ BasicInv'
           /\ \A c \in Key : batch'[c] = IF c = key THEN NoBatch ELSE batch[c]
           /\ \E f \in FlightType :
                 /\ flights' = flights \cup {f}
                 /\ f.key = key /\ f.declared = batch[key].declared
                 /\ f.observed = batch[key].observed /\ f.pc = "taken"
<1>0. Types /\ batch \in [Key -> BatchType] /\ batch[key].open
  BY DEF BasicInv, Types, FlushTake
<1>1. /\ UNCHANGED <<db, commits, declaring, channel, listener, gen, entries, applied, sub, fetch,
                     budget>>
      /\ batch' = [batch EXCEPT ![key] = NoBatch]
  BY DEF FlushTake
<1>2. \A c \in Key : batch'[c] = IF c = key THEN NoBatch ELSE batch[c]
  BY <1>0, <1>1
<1>3. PICK f \in FlightType :
          /\ flights' = flights \cup {f}
          /\ f.key = key /\ f.declared = batch[key].declared
          /\ f.observed = batch[key].observed /\ f.pc = "taken"
  <2> DEFINE u == [key |-> key, declared |-> batch[key].declared,
                   observed |-> batch[key].observed, pc |-> "taken", tables |-> {}]
  <2>1. batch[key].declared \in SUBSET Table /\ batch[key].observed \in SUBSET TenantTable
    BY <1>0 DEF BatchType
  <2>2. u \in FlightType
    BY <2>1 DEF FlightType
  <2>3. flights' = flights \cup {u}
    BY DEF FlushTake
  <2> QED
    BY <2>2, <2>3
<1>4. Types'
  <2>1. batch' \in [Key -> BatchType] /\ \A c \in Commit : batch'[c].open => c <= Len(commits)
    <3>1. NoBatch \in BatchType /\ NoBatch.open = FALSE
      BY DEF NoBatch, BatchType
    <3> QED
      BY <1>0, <1>1, <1>2, <3>1, ConstantTypes DEF Types
  <2>2. /\ flights' \subseteq FlightType
        /\ \A b \in flights' : b.key \in Commit => b.key <= Len(commits)
    BY <1>0, <1>3 DEF Types
  <2>3. channel' \in Seq(Message') /\ Message' = Message
    BY <1>0, <1>1 DEF Types, Message
  <2> QED
    BY <1>0, <1>1, <2>1, <2>2, <2>3 DEF Types
<1>5. \A c, t : Written(c, t)' <=> Written(c, t)
  BY <1>1 DEF Written
<1>6. BatchesOwn'
  <2>1. \A c \in Key : ~batch'[c].open => batch'[c] = NoBatch
    BY <1>2 DEF BasicInv, BatchesOwn
  <2>2. \A t \in TenantTable : batch'[t].declared = {} /\ batch'[t].observed \subseteq {t}
    BY <1>2, ConstantTypes DEF BasicInv, BatchesOwn, NoBatch
  <2> QED
    BY <2>1, <2>2 DEF BatchesOwn
<1>7. Landed'
  BY <1>1, <1>5 DEF BasicInv, Landed
<1>8. Truthful'
  <2>1. \A c \in Commit, t \in TenantTable : t \in batch'[c].observed => Written(c, t)
    BY <1>2, ConstantTypes DEF BasicInv, Truthful, NoBatch
  <2>2. \A b \in flights', t \in TenantTable :
            b.key \in Commit /\ t \in b.observed => Written(b.key, t)
    BY <1>3 DEF BasicInv, Truthful
  <2> QED
    BY <1>1, <1>5, <2>1, <2>2 DEF BasicInv, Truthful
<1> QED
  BY <1>2, <1>3, <1>4, <1>6, <1>7, <1>8 DEF BasicInv

\* FlushDecide: a flight is dropped, or gets the tables it is delivered for.
LEMMA FlushDecideBasic ==
    ASSUME BasicInv, NEW b \in flights, FlushDecide(b)
    PROVE  /\ BasicInv'
           /\ b \in FlightType /\ b.pc = "taken"
           /\ NoOp(b) => flights' = flights \ {b}
           /\ ~NoOp(b) =>
                 \E f \in FlightType :
                    /\ flights' = (flights \ {b}) \cup {f}
                    /\ f.key = b.key /\ f.declared = b.declared /\ f.observed = b.observed
                    /\ f.pc = "deliver" /\ f.tables = Delivery(b)
<1>0. Types /\ b \in FlightType /\ b.pc = "taken"
  BY DEF BasicInv, Types, FlushDecide
<1>1. UNCHANGED <<db, commits, declaring, channel, listener, batch, gen, entries, applied, sub,
                  fetch, budget>>
  BY DEF FlushDecide
<1>2. NoOp(b) => flights' = flights \ {b}
  BY DEF FlushDecide
<1>3. ~NoOp(b) => \E f \in FlightType :
          /\ flights' = (flights \ {b}) \cup {f}
          /\ f.key = b.key /\ f.declared = b.declared /\ f.observed = b.observed
          /\ f.pc = "deliver" /\ f.tables = Delivery(b)
  <2> SUFFICES ASSUME ~NoOp(b)
               PROVE  \E f \in FlightType :
                         /\ flights' = (flights \ {b}) \cup {f}
                         /\ f.key = b.key /\ f.declared = b.declared /\ f.observed = b.observed
                         /\ f.pc = "deliver" /\ f.tables = Delivery(b)
    OBVIOUS
  <2> DEFINE D == Delivery(b)
             u == [b EXCEPT !.pc = "deliver", !.tables = D]
  <2>1. D \in SUBSET Table
    BY <1>0, ConstantTypes DEF FlightType, Delivery
  <2>2. flights' = (flights \ {b}) \cup {u}
    BY DEF FlushDecide
  <2> HIDE DEF D
  <2>3. /\ u \in FlightType /\ u.key = b.key /\ u.declared = b.declared /\ u.observed = b.observed
        /\ u.pc = "deliver" /\ u.tables = D
    BY <1>0, <2>1 DEF FlightType
  <2> HIDE DEF u
  <2> QED
    BY <2>2, <2>3 DEF D
<1>4. /\ flights' \subseteq FlightType
      /\ \A f \in flights' : \E c \in flights : f.key = c.key /\ f.observed = c.observed
  BY <1>0, <1>2, <1>3 DEF Types
<1>5. Types'
  <2>1. \A f \in flights' : f.key \in Commit => f.key <= Len(commits)
    BY <1>0, <1>4 DEF Types
  <2>2. channel' \in Seq(Message') /\ Message' = Message
    BY <1>0, <1>1 DEF Types, Message
  <2> QED
    BY <1>0, <1>1, <1>4, <2>1, <2>2 DEF Types
<1>6. \A c, t : Written(c, t)' <=> Written(c, t)
  BY <1>1 DEF Written
<1>7. Truthful'
  <2>1. \A f \in flights', t \in TenantTable :
            f.key \in Commit /\ t \in f.observed => Written(f.key, t)
    BY <1>4 DEF BasicInv, Truthful
  <2> QED
    BY <1>1, <1>6, <2>1 DEF BasicInv, Truthful
<1>8. BatchesOwn' /\ Landed'
  BY <1>1, <1>6 DEF BasicInv, BatchesOwn, Landed
<1> QED
  BY <1>0, <1>2, <1>3, <1>5, <1>7, <1>8 DEF BasicInv

\* FlushDeliver: the caches are invalidated, the subscription is asked to run.
LEMMA FlushDeliverBasic ==
    ASSUME BasicInv, NEW b \in flights, FlushDeliver(b)
    PROVE  /\ BasicInv'
           /\ b \in FlightType /\ (b.key \in Commit => b.key \in 1 .. Len(commits))
           /\ sub'.seen = sub.seen
           /\ \/ b.tables \cap Reads = {} /\ sub' = sub
              \/ b.key \in sub.asked /\ sub' = sub
              \/ /\ sub'.want = "invalidate"
                 /\ sub'.asked = IF b.key \in Commit THEN sub.asked \cup {b.key} ELSE sub.asked
<1>0. Types /\ b \in FlightType /\ sub \in SubType /\ Len(commits) \in Nat
  BY DEF BasicInv, Types
<1>1. /\ UNCHANGED <<db, commits, declaring, channel, listener, batch, entries, fetch, budget>>
      /\ flights' = flights \ {b}
  BY DEF FlushDeliver
<1>2. b.key \in Commit => b.key \in 1 .. Len(commits)
  <2>1. b.key \in Commit => b.key <= Len(commits)
    BY <1>0 DEF Types
  <2> QED
    BY <1>0, <2>1, ConstantsAssumption DEF Commit
<1>3. /\ sub' \in SubType /\ sub'.seen = sub.seen /\ sub'.asked \subseteq 1 .. Len(commits)
      /\ \/ b.tables \cap Reads = {} /\ sub' = sub
         \/ b.key \in sub.asked /\ sub' = sub
         \/ /\ sub'.want = "invalidate"
            /\ sub'.asked = IF b.key \in Commit THEN sub.asked \cup {b.key} ELSE sub.asked
  <2> DEFINE A == IF b.key \in Commit THEN sub.asked \cup {b.key} ELSE sub.asked
             u == [sub EXCEPT !.want = "invalidate", !.asked = A]
  <2>1. sub.asked \subseteq 1 .. Len(commits) /\ sub.asked \subseteq Commit
    BY <1>0 DEF Types, SubType
  <2>2. A \subseteq 1 .. Len(commits) /\ A \subseteq Commit
    BY <1>2, <2>1
  <2>3. IF b.tables \cap Reads = {} \/ b.key \in sub.asked THEN sub' = sub ELSE sub' = u
    BY DEF FlushDeliver
  <2>4. u \in SubType /\ u.want = "invalidate" /\ u.asked = A /\ u.seen = sub.seen
    <3> HIDE DEF A
    <3> QED
      BY <1>0, <2>2 DEF SubType, Why
  <2>5. CASE b.tables \cap Reads = {} \/ b.key \in sub.asked
    BY <1>0, <2>1, <2>3, <2>5
  <2>6. CASE ~(b.tables \cap Reads = {} \/ b.key \in sub.asked)
    <3>1. sub' = u
      BY <2>3, <2>6
    <3> HIDE DEF u
    <3> QED
      BY <2>2, <2>4, <3>1
  <2> QED
    BY <2>5, <2>6
<1>4. gen' \in [Table -> Nat]
  <2>1. gen \in [Table -> Nat]
    BY <1>0 DEF Types
  <2>2. gen' = gen \/ gen' = [t \in Table |-> IF t \in b.tables \ b.observed THEN gen[t] + 1
                                            ELSE gen[t]]
    BY DEF FlushDeliver, Invalidate
  <2> QED
    BY <2>1, <2>2
<1>5. Types'
  <2>1. /\ flights' \subseteq FlightType
        /\ \A f \in flights' : f.key \in Commit => f.key <= Len(commits)
    BY <1>0, <1>1 DEF Types
  <2>2. channel' \in Seq(Message') /\ Message' = Message
    BY <1>0, <1>1 DEF Types, Message
  <2> QED
    BY <1>0, <1>1, <1>3, <1>4, <2>1, <2>2 DEF Types
<1>6. \A c, t : Written(c, t)' <=> Written(c, t)
  BY <1>1 DEF Written
<1>7. BatchesOwn' /\ Landed' /\ Truthful'
  BY <1>1, <1>6 DEF BasicInv, BatchesOwn, Landed, Truthful
<1> QED
  BY <1>0, <1>2, <1>3, <1>5, <1>7 DEF BasicInv

-----------------------------------------------------------------------------
(* Executions.                                                              *)

\* Begin: an execution starts with the generation of that moment.
LEMMA BeginBasic ==
    ASSUME BasicInv, BeginRun \/ \E c \in Caller : BeginCall(c)
    PROVE  /\ BasicInv'
           /\ UNCHANGED <<db, commits, declaring, channel, listener, batch, flights, gen, entries,
                          applied>>
           /\ sub'.seen = sub.seen /\ sub'.asked = sub.asked
           /\ \E f \in Fetcher : \E r \in FetchType :
                 /\ fetch' = [fetch EXCEPT ![f] = r] /\ r.gen = Generation
                 /\ r.pc \in {"read", "lookup"} /\ (f = "run" /\ ~Cached => r.pc = "read")
                 /\ r.kind = "query" \/ budget.browses > 0
                 /\ f # "run" => sub' = sub
<1>0. Types /\ sub \in SubType /\ budget \in Budget /\ gen \in [Table -> Nat]
  BY DEF BasicInv, Types
<1>1. UNCHANGED <<db, commits, declaring, channel, listener, batch, flights, gen, entries, applied>>
  BY DEF BeginRun, BeginCall
<1>2. sub' \in SubType /\ sub'.seen = sub.seen /\ sub'.asked = sub.asked
  <2>1. sub' = sub \/ sub' = [sub EXCEPT !.want = "none"]
    BY DEF BeginRun, BeginCall
  <2> QED
    BY <1>0, <2>1 DEF SubType, Why
<1>3. budget' \in Budget
  <2>1. \/ budget' = budget \/ budget' = [budget EXCEPT !.calls = @ - 1]
        \/ budget' = [budget EXCEPT !.browses = @ - 1]
    BY DEF BeginRun, BeginCall
  <2>2. CASE budget' = [budget EXCEPT !.calls = @ - 1]
    BY <1>0, <2>2 DEF Budget
  <2>3. CASE budget' = [budget EXCEPT !.browses = @ - 1]
    BY <1>0, <2>3 DEF Budget
  <2> QED
    BY <1>0, <2>1, <2>2, <2>3
<1>4. PICK f \in Fetcher, kind \in Kind, why \in Why :
          /\ Begin(f, kind, why) /\ (kind = "query" \/ budget.browses > 0)
          /\ f # "run" => sub' = sub
  <2>1. sub.want \in Why
    BY <1>0 DEF SubType
  <2>2. CASE BeginRun
    BY <2>1, <2>2, ConstantTypes DEF BeginRun, Kind
  <2>3. CASE \E c \in Caller : BeginCall(c)
    BY <2>3, ConstantTypes DEF BeginCall, Kind, Why
  <2> QED
    BY <2>2, <2>3
<1>5. PICK r \in FetchType : /\ fetch' = [fetch EXCEPT ![f] = r] /\ r.gen = Generation
                             /\ r.pc \in {"read", "lookup"}
                             /\ (f = "run" /\ ~Cached => r.pc = "read") /\ r.kind = kind
  <2> DEFINE u == [pc |-> IF why = "invalidate" \/ (f = "run" /\ ~Cached) THEN "read" ELSE "lookup",
                   kind |-> kind, reason |-> why,
                   gen |-> Generation, val |-> [t \in Reads |-> 0]]
  <2>1. Generation \in Versions /\ [t \in Reads |-> 0] \in Versions
    BY <1>0, ConstantTypes DEF Generation, Versions
  <2>2. u \in FetchType
    BY <2>1 DEF FetchType
  <2>3. fetch' = [fetch EXCEPT ![f] = u]
    BY <1>4 DEF Begin
  <2> QED
    BY <2>2, <2>3
<1>6. Types'
  <2>1. fetch' \in [Fetcher -> FetchType]
    BY <1>0, <1>5 DEF Types
  <2>2. channel' \in Seq(Message') /\ Message' = Message
    BY <1>0, <1>1 DEF Types, Message
  <2> QED
    BY <1>0, <1>1, <1>2, <1>3, <2>1, <2>2 DEF Types
<1>7. \A c, t : Written(c, t)' <=> Written(c, t)
  BY <1>1 DEF Written
<1>8. BatchesOwn' /\ Landed' /\ Truthful'
  BY <1>1, <1>7 DEF BasicInv, BatchesOwn, Landed, Truthful
<1>9. \E g \in Fetcher : \E s \in FetchType :
          /\ fetch' = [fetch EXCEPT ![g] = s] /\ s.gen = Generation
          /\ s.pc \in {"read", "lookup"} /\ (g = "run" /\ ~Cached => s.pc = "read")
          /\ s.kind = "query" \/ budget.browses > 0
          /\ g # "run" => sub' = sub
  BY <1>4, <1>5
<1> QED
  BY <1>1, <1>2, <1>6, <1>8, <1>9 DEF BasicInv

\* Execute: an execution goes on to r, or ends with a result.
LEMMA ExecuteBasic ==
    ASSUME BasicInv, NEW f \in Fetcher, Execute(f)
    PROVE  /\ BasicInv'
           /\ UNCHANGED <<db, commits, declaring, channel, listener, batch, flights, gen, applied,
                          budget>>
           /\ fetch[f] \in FetchType /\ fetch[f].pc # "idle"
           /\ sub'.want = sub.want /\ sub'.asked = sub.asked /\ (f # "run" => sub' = sub)
           /\ \E r \in FetchType :
                 /\ fetch' = [fetch EXCEPT ![f] = r]
                 /\ \/ r = NoFetch
                    \/ r.kind = fetch[f].kind /\ r.gen = fetch[f].gen /\ r.pc = "read"
                       /\ fetch[f].pc = "lookup"
                    \/ /\ r.kind = fetch[f].kind /\ r.gen = fetch[f].gen /\ r.val = Now
                       /\ fetch[f].pc = "read" /\ (f # "run" \/ Cached)
                       /\ r.pc = IF r.kind = "query" THEN "check" ELSE "key"
                    \/ r.kind = fetch[f].kind /\ r.gen = fetch[f].gen /\ r.val = fetch[f].val
                       /\ fetch[f].pc = "check" /\ r.pc = "store"
                    \/ r.kind = fetch[f].kind /\ r.val = fetch[f].val
                       /\ fetch[f].pc = "key" /\ r.pc = "store"
           /\ \/ entries' = entries
              \/ \E e \in EntryType : /\ entries' \subseteq entries \cup {e}
                                      /\ e.kind = fetch[f].kind /\ e.gen = fetch[f].gen
                                      /\ e.val = fetch[f].val /\ fetch[f].pc = "store"
           /\ f = "run" /\ fetch[f].pc = "read" /\ ~Cached =>
                 sub'.seen = Now /\ fetch' = [fetch EXCEPT ![f] = NoFetch]
<1> DEFINE x == fetch[f]
           Goes(r) ==
              \/ r = NoFetch
              \/ r.kind = x.kind /\ r.gen = x.gen /\ r.pc = "read" /\ x.pc = "lookup"
              \/ /\ r.kind = x.kind /\ r.gen = x.gen /\ r.val = Now
                 /\ x.pc = "read" /\ (f # "run" \/ Cached)
                 /\ r.pc = IF r.kind = "query" THEN "check" ELSE "key"
              \/ r.kind = x.kind /\ r.gen = x.gen /\ r.val = x.val /\ x.pc = "check" /\ r.pc = "store"
              \/ r.kind = x.kind /\ r.val = x.val /\ x.pc = "key" /\ r.pc = "store"
           Sub == sub' \in SubType /\ sub'.want = sub.want /\ sub'.asked = sub.asked
                  /\ (f # "run" => sub' = sub)
<1>0. /\ Types /\ x \in FetchType /\ fetch \in [Fetcher -> FetchType] /\ sub \in SubType
      /\ entries \subseteq EntryType /\ gen \in [Table -> Nat] /\ db \in [Table -> Nat]
  BY DEF BasicInv, Types
<1>1. /\ UNCHANGED <<db, commits, declaring, channel, listener, batch, flights, gen, applied, budget>>
      /\ x.pc # "idle"
  BY DEF Execute, Lookup, ReadDatabase, CheckGeneration, RowsKey, Store
<1>2. Now \in Versions /\ Generation \in Versions /\ NoFetch \in FetchType
  BY <1>0, ConstantTypes DEF Now, Generation, Versions, NoFetch, FetchType, Kind, Why
<1>3. \A v \in Versions : Finished(f, v) =>
          Sub /\ fetch' = [fetch EXCEPT ![f] = NoFetch] /\ (f = "run" => sub'.seen = v)
  BY <1>0 DEF Finished, SubType
<1>4. UNCHANGED sub => Sub
  BY <1>0
<1>5. x.val \in Versions /\ \A e \in entries : e.val \in Versions
  BY <1>0 DEF FetchType, EntryType
<1> HIDE DEF Sub
<1>6. Sub /\ \E r \in FetchType : fetch' = [fetch EXCEPT ![f] = r] /\ Goes(r)
  <2>1. CASE \E v \in Versions : Finished(f, v)
    BY <1>2, <1>3, <2>1
  <2>2. CASE Lookup(f)
    <3>1. CASE \E e \in entries : Finished(f, e.val)
      BY <1>5, <2>1, <3>1
    <3>2. CASE fetch' = [fetch EXCEPT ![f].pc = "read"] /\ UNCHANGED sub
      <4> DEFINE u == [x EXCEPT !.pc = "read"]
      <4>1. u \in FetchType /\ u.kind = x.kind /\ u.gen = x.gen /\ u.pc = "read"
        BY <1>0 DEF FetchType
      <4>2. fetch' = [fetch EXCEPT ![f] = u] /\ x.pc = "lookup"
        BY <1>0, <2>2, <3>2 DEF Lookup
      <4> HIDE DEF u
      <4> QED
        BY <1>4, <3>2, <4>1, <4>2
    <3> QED
      BY <2>2, <3>1, <3>2 DEF Lookup
  <2>3. CASE ReadDatabase(f)
    <3> DEFINE step == IF x.kind = "query" THEN "check" ELSE "key"
    <3>1. CASE Finished(f, Now)
      BY <1>2, <2>1, <3>1
    <3>2. CASE ~(x.reason = "invalidate" \/ (f = "run" /\ ~Cached))
      <4> DEFINE u == [x EXCEPT !.val = Now, !.pc = step]
      <4>1. u \in FetchType /\ u.kind = x.kind /\ u.gen = x.gen /\ u.pc = step /\ u.val = Now
        BY <1>0, <1>2 DEF FetchType
      <4>2. fetch' = [fetch EXCEPT ![f] = u] /\ x.pc = "read" /\ UNCHANGED sub
        BY <1>0, <2>3, <3>2 DEF ReadDatabase
      <4>3. f # "run" \/ Cached
        BY <3>2
      <4> HIDE DEF u
      <4>4. Goes(u)
        BY <4>1, <4>2, <4>3
      <4> QED
        BY <1>4, <4>1, <4>2, <4>4
    <3> QED
      BY <2>3, <3>1, <3>2 DEF ReadDatabase
  <2>4. CASE CheckGeneration(f)
    <3>1. CASE Finished(f, x.val)
      BY <1>5, <2>1, <3>1
    <3>2. CASE fetch' = [fetch EXCEPT ![f].pc = "store"] /\ UNCHANGED sub
      <4> DEFINE u == [x EXCEPT !.pc = "store"]
      <4>1. u \in FetchType /\ u.kind = x.kind /\ u.gen = x.gen /\ u.pc = "store" /\ u.val = x.val
        BY <1>0 DEF FetchType
      <4>2. fetch' = [fetch EXCEPT ![f] = u] /\ x.pc = "check"
        BY <1>0, <2>4, <3>2 DEF CheckGeneration
      <4> HIDE DEF u
      <4> QED
        BY <1>4, <3>2, <4>1, <4>2
    <3> QED
      BY <2>4, <3>1, <3>2 DEF CheckGeneration
  <2>5. CASE RowsKey(f)
    <3> DEFINE u == [x EXCEPT !.gen = Generation, !.pc = "store"]
    <3>1. u \in FetchType /\ u.kind = x.kind /\ u.pc = "store" /\ u.val = x.val
      BY <1>0, <1>2 DEF FetchType
    <3>2. fetch' = [fetch EXCEPT ![f] = u] /\ x.pc = "key" /\ UNCHANGED sub
      BY <1>0, <2>5 DEF RowsKey
    <3> HIDE DEF u
    <3> QED
      BY <1>4, <3>1, <3>2
  <2>6. CASE Store(f)
    <3>1. Finished(f, x.val)
      BY <2>6 DEF Store
    <3> QED
      BY <1>5, <2>1, <3>1
  <2> QED
    BY <2>2, <2>3, <2>4, <2>5, <2>6 DEF Execute
<1>7. PICK r \in FetchType : fetch' = [fetch EXCEPT ![f] = r] /\ Goes(r)
  BY <1>6
<1>8. \/ entries' = entries
      \/ \E e \in EntryType : /\ entries' \subseteq entries \cup {e}
                              /\ e.kind = x.kind /\ e.gen = x.gen /\ e.val = x.val /\ x.pc = "store"
  <2>1. CASE Store(f)
    <3> DEFINE e == [kind |-> x.kind, gen |-> x.gen, val |-> x.val]
    <3>1. e \in EntryType
      BY <1>0 DEF FetchType, EntryType
    <3>2. entries' \subseteq entries \cup {e} /\ x.pc = "store"
      BY <2>1 DEF Store
    <3> QED
      BY <3>1, <3>2
  <2> QED
    BY <2>1 DEF Execute, Lookup, ReadDatabase, CheckGeneration, RowsKey
<1>9. ASSUME f = "run", x.pc = "read", ~Cached
      PROVE  sub'.seen = Now /\ fetch' = [fetch EXCEPT ![f] = NoFetch]
  <2>1. Finished(f, Now)
    BY <1>9 DEF Execute, Lookup, ReadDatabase, CheckGeneration, RowsKey, Store
  <2> QED
    BY <1>2, <1>3, <1>9, <2>1
<1>10. Types'
  <2>1. fetch' \in [Fetcher -> FetchType]
    BY <1>0, <1>7
  <2>2. entries' \subseteq EntryType
    BY <1>0, <1>8
  <2>3. channel' \in Seq(Message') /\ Message' = Message
    BY <1>0, <1>1 DEF Types, Message
  <2>4. sub' \in SubType /\ sub'.asked = sub.asked
    BY <1>6 DEF Sub
  <2> HIDE DEF x, Goes
  <2> QED
    BY <1>0, <1>1, <2>1, <2>2, <2>3, <2>4 DEF Types
<1>11. \A c, t : Written(c, t)' <=> Written(c, t)
  BY <1>1 DEF Written
<1>12. BatchesOwn' /\ Landed' /\ Truthful'
  BY <1>1, <1>11 DEF BasicInv, BatchesOwn, Landed, Truthful
<1>13. BasicInv'
  BY <1>10, <1>12 DEF BasicInv
<1>14. Sub
  BY <1>6
<1> QED
  BY <1>0, <1>1, <1>7, <1>8, <1>9, <1>13, <1>14 DEF Sub

\* ClearEntries and ClearGenerations.
LEMMA ClearBasic ==
    ASSUME BasicInv, ClearEntries \/ ClearGenerations
    PROVE  /\ BasicInv'
           /\ UNCHANGED <<db, commits, declaring, channel, listener, batch, flights, applied, sub,
                          fetch>>
<1>0. Types /\ budget \in Budget /\ entries \subseteq EntryType
  BY DEF BasicInv, Types
<1>1. UNCHANGED <<db, commits, declaring, channel, listener, batch, flights, applied, sub, fetch>>
  BY DEF ClearEntries, ClearGenerations
<1>2. budget' \in Budget
  <2>1. CASE ClearEntries
    <3>1. budget.clears - 1 \in Int
      BY <1>0 DEF Budget
    <3>2. PICK n \in Int : n = budget.clears - 1
      BY <3>1
    <3>3. budget' = [budget EXCEPT !.clears = n, !.clearing = TRUE]
      BY <2>1, <3>2 DEF ClearEntries
    <3> QED
      BY <1>0, <3>3 DEF Budget
  <2>2. CASE ClearGenerations
    BY <1>0, <2>2 DEF ClearGenerations, Budget
  <2> QED
    BY <2>1, <2>2
<1>3. gen' \in [Table -> Nat] /\ entries' \subseteq EntryType
  BY <1>0 DEF ClearEntries, ClearGenerations, Types
<1>4. channel' \in Seq(Message') /\ Message' = Message
  BY <1>0, <1>1 DEF Types, Message
<1>5. Types'
  BY <1>0, <1>1, <1>2, <1>3, <1>4 DEF Types
<1>6. \A c, t : Written(c, t)' <=> Written(c, t)
  BY <1>1 DEF Written
<1>7. BatchesOwn' /\ Landed' /\ Truthful'
  BY <1>1, <1>6 DEF BasicInv, BatchesOwn, Landed, Truthful
<1> QED
  BY <1>1, <1>5, <1>7 DEF BasicInv

\* Nothing happens.
LEMMA StutterBasic ==
    ASSUME BasicInv, UNCHANGED vars
    PROVE  BasicInv'
<1>1. Types'
  <2>1. channel' \in Seq(Message') /\ Message' = Message
    BY DEF BasicInv, Types, Message, vars
  <2> QED
    BY <2>1 DEF BasicInv, Types, vars
<1>2. \A c, t : Written(c, t)' <=> Written(c, t)
  BY DEF Written, vars
<1> QED
  BY <1>1, <1>2 DEF BasicInv, BatchesOwn, Landed, Truthful, vars

\* The basic invariant holds in every behaviour.
LEMMA BasicInvariance == Spec => []BasicInv
<1>1. BasicInv /\ [Next]_vars => BasicInv'
  <2> SUFFICES ASSUME BasicInv, [Next]_vars PROVE BasicInv'
    OBVIOUS
  <2>1. CASE \E x \in Changes : DoCommit(x)
    BY <2>1, CommitBasic
  <2>2. CASE Announce
    BY <2>2, ObserveBasic, BroadcastBasic DEF Announce
  <2>3. CASE Flush
    BY <2>3, FlushTakeBasic, FlushDecideBasic, FlushDeliverBasic DEF Flush
  <2>4. CASE Listening \/ Cut \/ MarkNeedsRecovery
    BY <2>4, ListenerBasic
  <2>5. CASE BeginRun \/ \E c \in Caller : BeginCall(c)
    BY <2>5, BeginBasic
  <2>6. CASE \E f \in Fetcher : Execute(f)
    BY <2>6, ExecuteBasic
  <2>7. CASE ClearEntries \/ ClearGenerations
    BY <2>7, ClearBasic
  <2>8. CASE UNCHANGED vars
    BY <2>8, StutterBasic
  <2> QED
    BY <2>1, <2>2, <2>3, <2>4, <2>5, <2>6, <2>7, <2>8 DEF Next
<1> QED
  BY <1>1, InitBasic, PTL DEF Spec

-----------------------------------------------------------------------------
(* The cache.                                                               *)

\* Only queries use the cache, and nobody clears it: browsing tables and
\* clearing the cache are the two uses that break it.
QueriesOnly ==
    /\ ~budget.byHand /\ budget.browses = 0 /\ budget.clears = 0 /\ ~budget.clearing
    /\ \A f \in Fetcher : fetch[f].kind = "query" /\ fetch[f].pc # "key"

\* The caches are only invalidated for commits that are in the database.
AppliedLanded == \A k \in Commit, t \in Table : <<k, t>> \in applied => k <= db[t]

\* A generation that was read is not ahead of the counters.
Behind(x) == \A t \in Reads : x.gen[t] <= gen[t]

\* A payload whose generation is current contains every commit the caches
\* were invalidated for.
Covers(x) ==
    (\A t \in Reads : x.gen[t] = gen[t]) =>
        \A k \in Commit, t \in Reads : <<k, t>> \in applied => k <= x.val[t]

EntriesCover == \A e \in entries : Behind(e) /\ Covers(e)

FetchesCover ==
    \A f \in Fetcher : /\ Behind(fetch[f])
                       /\ fetch[f].pc \in {"check", "store"} => Covers(fetch[f])

CacheInv == BasicInv /\ QueriesOnly /\ AppliedLanded /\ EntriesCover /\ FetchesCover

\* Init establishes the invariant.
LEMMA CacheInit ==
    ASSUME Init, ~budget.byHand
    PROVE  CacheInv
<1>1. BasicInv
  BY InitBasic
<1>2. QueriesOnly
  BY BoundsType DEF Init, QueriesOnly, NoFetch
<1>3. AppliedLanded /\ EntriesCover
  BY DEF Init, AppliedLanded, EntriesCover
<1>4. FetchesCover
  BY ConstantTypes DEF Init, FetchesCover, Behind, NoFetch
<1> QED
  BY <1>1, <1>2, <1>3, <1>4 DEF CacheInv

\* DoCommit: the new commit is in the database before anything is said of it.
LEMMA CommitInv ==
    ASSUME CacheInv, NEW x \in Changes, DoCommit(x)
    PROVE  CacheInv'
<1>0. Types /\ Types'
  BY CommitBasic DEF CacheInv, BasicInv
<1>1. \A t \in Table : db[t] <= db'[t]
  BY <1>0 DEF DoCommit, Types
<1>2. UNCHANGED <<gen, entries, applied, fetch, budget>>
  BY DEF DoCommit
<1>3. AppliedLanded'
  <2> SUFFICES ASSUME NEW c \in Commit, NEW t \in Table, <<c, t>> \in applied
               PROVE  c <= db'[t]
    BY <1>2 DEF AppliedLanded
  <2>1. c <= db[t] /\ db[t] <= db'[t]
    BY <1>1 DEF CacheInv, AppliedLanded
  <2>2. c \in Nat /\ db[t] \in Nat /\ db'[t] \in Nat
    BY <1>0, ConstantTypes DEF Types
  <2> QED
    BY <2>1, <2>2
<1>4. QueriesOnly' /\ EntriesCover' /\ FetchesCover'
  BY <1>2 DEF CacheInv, QueriesOnly, EntriesCover, FetchesCover, Behind, Covers
<1> QED
  BY <1>3, <1>4, CommitBasic DEF CacheInv

\* Invalidate: the generation of every invalidated table moves away from
\* whatever was read before.
LEMMA InvalidateInv ==
    ASSUME CacheInv, NEW tables \in SUBSET Table, NEW k \in Commit, k \in 1 .. Len(commits),
           Invalidate(tables, k), UNCHANGED <<db, commits, entries, fetch>>
    PROVE  AppliedLanded' /\ EntriesCover' /\ FetchesCover'
<1>0. /\ gen \in [Table -> Nat] /\ entries \subseteq EntryType /\ fetch \in [Fetcher -> FetchType]
      /\ BasicInv
  BY DEF CacheInv, BasicInv, Types
<1>1. /\ gen' \in [Table -> Nat]
      /\ \A t \in Table : gen[t] <= gen'[t] /\ (t \in tables => gen[t] < gen'[t])
      /\ \A c, t : <<c, t>> \in applied' =>
            <<c, t>> \in applied \/ (c = k /\ t \in tables /\ t \in commits[k].writes)
  BY <1>0 DEF Invalidate
<1>2. AppliedLanded'
  <2>1. \A t \in Table : t \in commits[k].writes => k <= db[t]
    BY <1>0 DEF BasicInv, Landed, Written
  <2> QED
    BY <1>1, <2>1 DEF CacheInv, AppliedLanded
<1>3. ASSUME NEW x, x.gen \in Versions, Behind(x)
      PROVE  Behind(x)' /\ (Covers(x) => Covers(x)')
  <2>1. \A t \in Reads : /\ x.gen[t] \in Nat /\ gen[t] \in Nat /\ gen'[t] \in Nat
                         /\ x.gen[t] <= gen[t] /\ gen[t] <= gen'[t]
                         /\ t \in tables => gen[t] < gen'[t]
    BY <1>0, <1>1, <1>3, ConstantTypes DEF Versions, Behind
  <2>2. Behind(x)'
    BY <2>1 DEF Behind
  <2>3. ASSUME Covers(x), \A t \in Reads : x.gen[t] = gen'[t]
        PROVE  \A c \in Commit, t \in Reads : <<c, t>> \in applied' => c <= x.val[t]
    <3>1. \A t \in Reads : x.gen[t] = gen[t] /\ t \notin tables
      BY <2>1, <2>3
    <3> QED
      BY <1>1, <2>3, <3>1 DEF Covers
  <2> QED
    BY <2>2, <2>3 DEF Covers
<1>4. EntriesCover'
  BY <1>0, <1>3 DEF CacheInv, EntriesCover, EntryType
<1>5. FetchesCover'
  BY <1>0, <1>3 DEF CacheInv, FetchesCover, FetchType
<1> QED
  BY <1>2, <1>4, <1>5

\* What does not touch the cache keeps what is known of it.
LEMMA SameCache ==
    ASSUME CacheInv, UNCHANGED <<db, gen, applied, entries, fetch>>
    PROVE  AppliedLanded' /\ EntriesCover' /\ FetchesCover'
  BY DEF CacheInv, AppliedLanded, EntriesCover, FetchesCover, Behind, Covers

\* Broadcast and Observe.
LEMMA AnnounceInv ==
    ASSUME CacheInv, Announce
    PROVE  CacheInv'
<1>0. BasicInv
  BY DEF CacheInv
<1>1. CASE \E k \in Commit : Broadcast(k)
  <2>1. PICK k \in Commit : Broadcast(k)
    BY <1>1
  <2>2. BasicInv' /\ QueriesOnly'
    BY <1>0, <2>1, BroadcastBasic DEF Broadcast, CacheInv, QueriesOnly
  <2> QED
    BY <2>1, <2>2, SameCache DEF Broadcast, CacheInv
<1>2. CASE Observe
  <2>1. PICK k \in Commit, t \in TenantTable : Written(k, t) /\ Invalidate({t}, k)
    BY <1>0, <1>2, ObserveBasic
  <2>2. {t} \in SUBSET Table /\ k \in 1 .. Len(commits)
    BY <2>1, ConstantTypes DEF Written
  <2>3. UNCHANGED <<db, commits, entries, fetch, budget>>
    BY <1>2 DEF Observe
  <2>4. AppliedLanded' /\ EntriesCover' /\ FetchesCover'
    BY <2>1, <2>2, <2>3, InvalidateInv
  <2>5. BasicInv' /\ QueriesOnly'
    BY <1>0, <1>2, <2>3, ObserveBasic DEF CacheInv, QueriesOnly
  <2> QED
    BY <2>4, <2>5 DEF CacheInv
<1> QED
  BY <1>1, <1>2 DEF Announce

\* The listener's goroutine does not touch the cache.
LEMMA ListenerInv ==
    ASSUME CacheInv, Listening \/ Cut \/ MarkNeedsRecovery
    PROVE  CacheInv'
<1>0. BasicInv /\ budget \in Budget
  BY DEF CacheInv, BasicInv, Types
<1>1. UNCHANGED <<db, gen, applied, entries, fetch>>
  BY DEF Listening, Cut, MarkNeedsRecovery, MarkDisconnected, Listen, MarkReady, RefreshTenant
<1>2. /\ budget'.byHand = budget.byHand /\ budget'.browses = budget.browses
      /\ budget'.clears = budget.clears /\ budget'.clearing = budget.clearing
  <2>1. \/ budget' = budget \/ budget' = [budget EXCEPT !.cuts = @ - 1]
        \/ budget' = [budget EXCEPT !.doubts = @ - 1]
    BY DEF Listening, Cut, MarkNeedsRecovery, MarkDisconnected, Listen, MarkReady, RefreshTenant
  <2> QED
    BY <1>0, <2>1 DEF Budget
<1>3. QueriesOnly'
  BY <1>1, <1>2 DEF CacheInv, QueriesOnly
<1> QED
  BY <1>0, <1>1, <1>3, ListenerBasic, SameCache DEF CacheInv

\* A flush invalidates what the triggers have not.
LEMMA FlushInv ==
    ASSUME CacheInv, Flush
    PROVE  CacheInv'
<1>0. BasicInv
  BY DEF CacheInv
<1>1. ASSUME NEW key \in Key, FlushTake(key)
      PROVE  CacheInv'
  BY <1>0, <1>1, FlushTakeBasic, SameCache DEF FlushTake, CacheInv, QueriesOnly
<1>2. ASSUME NEW b \in flights, FlushDecide(b)
      PROVE  CacheInv'
  BY <1>0, <1>2, FlushDecideBasic, SameCache DEF FlushDecide, CacheInv, QueriesOnly
<1>3. ASSUME NEW b \in flights, FlushDeliver(b)
      PROVE  CacheInv'
  <2>1. /\ BasicInv' /\ b \in FlightType /\ (b.key \in Commit => b.key \in 1 .. Len(commits))
        /\ UNCHANGED <<db, commits, entries, fetch, budget>>
    BY <1>0, <1>3, FlushDeliverBasic DEF FlushDeliver
  <2>2. AppliedLanded' /\ EntriesCover' /\ FetchesCover'
    <3>1. CASE b.key \in Commit
      <4>1. b.tables \ b.observed \in SUBSET Table
        BY <2>1 DEF FlightType
      <4>2. Invalidate(b.tables \ b.observed, b.key)
        BY <1>3, <3>1 DEF FlushDeliver
      <4> QED
        BY <2>1, <3>1, <4>1, <4>2, InvalidateInv
    <3>2. CASE b.key \notin Commit
      <4>1. UNCHANGED <<gen, applied>>
        BY <1>3, <3>2 DEF FlushDeliver
      <4> QED
        BY <2>1, <4>1, SameCache
    <3> QED
      BY <3>1, <3>2
  <2> QED
    BY <2>1, <2>2 DEF CacheInv, QueriesOnly
<1> QED
  BY <1>1, <1>2, <1>3 DEF Flush

\* Begin: an execution starts with the generation of that moment.
LEMMA BeginInv ==
    ASSUME CacheInv, BeginRun \/ \E c \in Caller : BeginCall(c)
    PROVE  CacheInv'
<1>0. /\ BasicInv /\ fetch \in [Fetcher -> FetchType] /\ budget \in Budget /\ budget.browses = 0
      /\ gen \in [Table -> Nat]
  BY DEF CacheInv, BasicInv, Types, QueriesOnly
<1>1. PICK f \in Fetcher, r \in FetchType :
          /\ fetch' = [fetch EXCEPT ![f] = r] /\ r.gen = Generation
          /\ r.pc \in {"read", "lookup"} /\ r.kind = "query"
  BY <1>0, BeginBasic
<1>2. UNCHANGED <<db, gen, entries, applied>>
  BY DEF BeginRun, BeginCall
<1>3. \A g \in Fetcher : fetch'[g] = IF g = f THEN r ELSE fetch[g]
  BY <1>0, <1>1
<1>4. QueriesOnly'
  <2>1. /\ budget'.byHand = budget.byHand /\ budget'.browses = budget.browses
        /\ budget'.clears = budget.clears /\ budget'.clearing = budget.clearing
    <3>1. budget' = budget \/ budget' = [budget EXCEPT !.calls = @ - 1]
      BY <1>0 DEF BeginRun, BeginCall
    <3> QED
      BY <1>0, <3>1 DEF Budget
  <2> QED
    BY <1>1, <1>3, <2>1 DEF CacheInv, QueriesOnly
<1>5. FetchesCover'
  <2> SUFFICES ASSUME NEW g \in Fetcher
               PROVE  Behind(fetch[g])' /\ (fetch'[g].pc \in {"check", "store"} => Covers(fetch[g])')
    BY DEF FetchesCover
  <2>1. CASE g = f
    <3>1. \A t \in Reads : r.gen[t] = gen[t] /\ gen[t] \in Nat
      BY <1>0, <1>1, ConstantTypes DEF Generation
    <3> QED
      BY <1>1, <1>2, <1>3, <2>1, <3>1 DEF Behind
  <2>2. CASE g # f
    BY <1>2, <1>3, <2>2 DEF CacheInv, FetchesCover, Behind, Covers
  <2> QED
    BY <2>1, <2>2
<1>6. AppliedLanded' /\ EntriesCover'
  BY <1>2 DEF CacheInv, AppliedLanded, EntriesCover, Behind, Covers
<1> QED
  BY <1>0, <1>4, <1>5, <1>6, BeginBasic DEF CacheInv

\* An execution reads the database after its generation, so while the
\* generation is current its payload contains what was invalidated for.
LEMMA ExecuteInv ==
    ASSUME CacheInv, NEW f \in Fetcher, Execute(f)
    PROVE  CacheInv'
<1> DEFINE x == fetch[f]
<1>0. /\ BasicInv /\ fetch \in [Fetcher -> FetchType] /\ gen \in [Table -> Nat]
      /\ db \in [Table -> Nat] /\ x \in FetchType /\ x.kind = "query" /\ x.pc # "key"
      /\ Behind(x) /\ (x.pc \in {"check", "store"} => Covers(x))
  BY DEF CacheInv, BasicInv, Types, FetchesCover, QueriesOnly
<1>1. UNCHANGED <<db, gen, applied, budget>> /\ BasicInv'
  BY <1>0, ExecuteBasic
<1>2. PICK r \in FetchType :
          /\ fetch' = [fetch EXCEPT ![f] = r]
          /\ \/ r = NoFetch
             \/ r.kind = x.kind /\ r.gen = x.gen /\ r.pc = "read"
             \/ r.kind = x.kind /\ r.gen = x.gen /\ r.val = Now /\ r.pc = "check"
             \/ r.kind = x.kind /\ r.gen = x.gen /\ r.val = x.val /\ x.pc = "check"
                /\ r.pc = "store"
  <2>1. PICK r \in FetchType :
            /\ fetch' = [fetch EXCEPT ![f] = r]
            /\ \/ r = NoFetch
               \/ r.kind = fetch[f].kind /\ r.gen = fetch[f].gen /\ r.pc = "read"
                  /\ fetch[f].pc = "lookup"
               \/ /\ r.kind = fetch[f].kind /\ r.gen = fetch[f].gen /\ r.val = Now
                  /\ fetch[f].pc = "read" /\ (f # "run" \/ Cached)
                  /\ r.pc = IF r.kind = "query" THEN "check" ELSE "key"
               \/ r.kind = fetch[f].kind /\ r.gen = fetch[f].gen /\ r.val = fetch[f].val
                  /\ fetch[f].pc = "check" /\ r.pc = "store"
               \/ r.kind = fetch[f].kind /\ r.val = fetch[f].val
                  /\ fetch[f].pc = "key" /\ r.pc = "store"
    BY <1>0, ExecuteBasic
  <2> QED
    BY <1>0, <2>1
<1>3. \A t \in Reads : Now[t] = db[t] /\ t \in Table
  BY ConstantTypes DEF Now
<1>4. NoFetch.pc = "idle" /\ NoFetch.kind = "query" /\ Behind(NoFetch)
  <2>1. \A t \in Reads : NoFetch.gen[t] = 0 /\ gen[t] \in Nat
    BY <1>0, ConstantTypes DEF NoFetch
  <2> QED
    BY <2>1 DEF NoFetch, Behind
<1>5. /\ r.kind = "query" /\ r.pc # "key" /\ Behind(r)
      /\ r.pc \in {"check", "store"} => Covers(r)
  <2>1. r.val = Now => Covers(r)
    BY <1>3 DEF Covers, CacheInv, AppliedLanded
  <2>2. r.gen = x.gen => Behind(r)
    BY <1>0 DEF Behind
  <2>3. r.gen = x.gen /\ r.val = x.val /\ x.pc = "check" => Covers(r)
    BY <1>0 DEF Covers
  <2> HIDE DEF x
  <2> QED
    BY <1>0, <1>2, <1>4, <2>1, <2>2, <2>3
<1>6. \A g \in Fetcher : fetch'[g] = IF g = f THEN r ELSE fetch[g]
  BY <1>0, <1>2
<1>7. QueriesOnly'
  BY <1>1, <1>5, <1>6 DEF CacheInv, QueriesOnly
<1>8. FetchesCover'
  <2> SUFFICES ASSUME NEW g \in Fetcher
               PROVE  Behind(fetch[g])' /\ (fetch'[g].pc \in {"check", "store"} => Covers(fetch[g])')
    BY DEF FetchesCover
  <2>1. CASE g = f
    BY <1>1, <1>5, <1>6, <2>1 DEF Behind, Covers
  <2>2. CASE g # f
    BY <1>1, <1>6, <2>2 DEF Behind, Covers, CacheInv, FetchesCover
  <2> QED
    BY <2>1, <2>2
<1>9. EntriesCover'
  <2>1. CASE entries' = entries
    BY <1>1, <2>1 DEF CacheInv, EntriesCover, Behind, Covers
  <2>2. CASE \E e \in EntryType : /\ entries' \subseteq entries \cup {e}
                                  /\ e.kind = x.kind /\ e.gen = x.gen
                                  /\ e.val = x.val /\ x.pc = "store"
    <3>1. PICK e \in EntryType : /\ entries' \subseteq entries \cup {e}
                                 /\ e.gen = x.gen /\ e.val = x.val /\ x.pc = "store"
      BY <2>2
    <3>2. Behind(e) /\ Covers(e)
      BY <1>0, <3>1 DEF Behind, Covers
    <3>3. \A d \in entries' : Behind(d) /\ Covers(d)
      BY <3>1, <3>2 DEF CacheInv, EntriesCover
    <3> QED
      BY <1>1, <3>3 DEF EntriesCover, Behind, Covers
  <2> QED
    BY <1>0, <2>1, <2>2, ExecuteBasic
<1>10. AppliedLanded'
  BY <1>1 DEF CacheInv, AppliedLanded
<1> QED
  BY <1>1, <1>7, <1>8, <1>9, <1>10 DEF CacheInv

\* No step makes a behaviour one of the other kind.
LEMMA KindKept ==
    ASSUME BasicInv, [Next]_vars
    PROVE  budget'.byHand = budget.byHand
<1>0. budget \in Budget
  BY DEF BasicInv, Types
<1>1. \/ budget' = budget
      \/ budget' = [budget EXCEPT !.calls = @ - 1]
      \/ budget' = [budget EXCEPT !.browses = @ - 1]
      \/ budget' = [budget EXCEPT !.cuts = @ - 1]
      \/ budget' = [budget EXCEPT !.doubts = @ - 1]
      \/ budget' = [budget EXCEPT !.clears = @ - 1, !.clearing = TRUE]
      \/ budget' = [budget EXCEPT !.clearing = FALSE]
  BY DEF Next, vars, DoCommit, Announce, Observe, Broadcast, Flush, FlushTake, FlushDecide,
         FlushDeliver, Listening, MarkDisconnected, Listen, MarkReady, RefreshTenant, Cut,
         MarkNeedsRecovery, BeginRun, BeginCall, Execute, Lookup, ReadDatabase, CheckGeneration,
         RowsKey, Store, ClearEntries, ClearGenerations
<1> QED
  BY <1>0, <1>1 DEF Budget

\* CacheInv is an invariant of the behaviours in which only queries use the
\* cache and nobody clears it.
LEMMA CacheStep ==
    ASSUME CacheInv, [Next]_vars
    PROVE  CacheInv'
<1>1. CASE \E x \in Changes : DoCommit(x)
  BY <1>1, CommitInv
<1>2. CASE Announce
  BY <1>2, AnnounceInv
<1>3. CASE Flush
  BY <1>3, FlushInv
<1>4. CASE Listening \/ Cut \/ MarkNeedsRecovery
  BY <1>4, ListenerInv
<1>5. CASE BeginRun \/ \E c \in Caller : BeginCall(c)
  BY <1>5, BeginInv
<1>6. CASE \E f \in Fetcher : Execute(f)
  BY <1>6, ExecuteInv
<1>7. CASE ClearEntries \/ ClearGenerations
  <2>1. budget \in Budget /\ budget.clears = 0 /\ ~budget.clearing
    BY DEF CacheInv, QueriesOnly, BasicInv, Types
  <2> QED
    BY <1>7, <2>1 DEF ClearEntries, ClearGenerations
<1>8. CASE UNCHANGED vars
  <2>1. QueriesOnly'
    BY <1>8 DEF vars, CacheInv, QueriesOnly
  <2> QED
    BY <1>8, <2>1, StutterBasic, SameCache DEF vars, CacheInv
<1> QED
  BY <1>1, <1>2, <1>3, <1>4, <1>5, <1>6, <1>7, <1>8 DEF Next

\* The types always hold, and while nobody invalidates by hand the cache's invariant does.
LEMMA CacheInvariance == Spec => [](BasicInv /\ (~budget.byHand => CacheInv))
<1>1. BasicInv /\ (~budget.byHand => CacheInv) /\ [Next]_vars => (~budget.byHand => CacheInv)'
  BY KindKept, CacheStep
<1>2. Init => BasicInv /\ (~budget.byHand => CacheInv)
  BY InitBasic, CacheInit
<1> QED
  BY <1>1, <1>2, BasicInvariance, PTL DEF Spec

\* "so a query cannot reuse pre-commit cache entries during the delivery
\* batch": whatever commits, notifications, batches, reconnects and
\* concurrent executions do, no query is served a payload from before a
\* commit the caches were invalidated for.
THEOREM NoStaleHit == Spec => []NoPreCommitHit
<1>1. (~budget.byHand => CacheInv) => NoPreCommitHit
  <2> SUFFICES ASSUME CacheInv, NEW e \in Servable, NEW k \in Commit, NEW t \in Reads,
                      <<k, t>> \in applied
               PROVE  e.val[t] >= k
    BY DEF NoPreCommitHit
  <2>1. e \in entries /\ \A r \in Reads : e.gen[r] = gen[r]
    BY DEF Servable, Generation
  <2>2. k <= e.val[t] /\ e.val[t] \in Nat /\ k \in Nat
    BY <2>1, ConstantTypes DEF CacheInv, BasicInv, Types, EntryType, EntriesCover, Covers, Versions
  <2> QED
    BY <2>2
<1> QED
  BY <1>1, CacheInvariance, PTL

-----------------------------------------------------------------------------
(* What is announced arrives.                                               *)

\* A change writes to one database.
OneDatabase ==
    \A x \in Changes : x.writes \cap LandlordTable = {} \/ x.writes \cap TenantTable = {}

\* A batch, pending or in flight, knows of a write: a trigger told it, or the
\* mutation declared a table that no trigger speaks of.
Holds(b, t) == t \in b.observed \/ (t \in LandlordTable /\ t \in b.declared)

Carried(key, t) ==
    \/ batch[key].open /\ Holds(batch[key], t)
    \/ \E b \in flights : b.key = key /\ Holds(b, t) /\ (b.pc = "deliver" => t \in b.tables)

\* Notifications without a commit ID travel in the batch of their table.
KeyOf(k, t, key) == key = k \/ (t \in TenantTable /\ key = t)

InChannel(k, t) == \E i \in 1 .. Len(channel) : channel[i].k = k /\ channel[i].t = t

Coming(k, t) ==
    \/ InChannel(k, t)
    \/ t \in LandlordTable /\ k \in declaring
    \/ \E key \in Key : KeyOf(k, t, key) /\ Carried(key, t)

\* A flight keeps what it holds, whatever the listener's health.
LEMMA DecideCarries ==
    ASSUME BasicInv, OneDatabase, NEW b \in flights, FlushDecide(b), NEW k \in Commit,
           NEW t \in Table, Written(k, t), NEW key \in Key, KeyOf(k, t, key), Carried(key, t)
    PROVE  Carried(key, t)'
<1>1. /\ b \in FlightType /\ batch' = batch
      /\ b.pc = "taken"
      /\ NoOp(b) => flights' = flights \ {b}
      /\ ~NoOp(b) =>
            \E f \in FlightType :
               /\ flights' = (flights \ {b}) \cup {f}
               /\ f.key = b.key /\ f.declared = b.declared /\ f.observed = b.observed
               /\ f.pc = "deliver" /\ f.tables = Delivery(b)
  BY FlushDecideBasic DEF FlushDecide
<1>2. CASE batch[key].open /\ Holds(batch[key], t)
  BY <1>1, <1>2 DEF Carried, Holds
<1>3. CASE \E f \in flights : f # b /\ f.key = key /\ Holds(f, t) /\ (f.pc = "deliver" => t \in f.tables)
  BY <1>1, <1>3 DEF Carried, Holds
<1>4. CASE b.key = key /\ Holds(b, t)
  <2>1. ~NoOp(b)
    BY <1>4 DEF NoOp, Holds
  <2>2. PICK f \in FlightType :
            /\ flights' = (flights \ {b}) \cup {f}
            /\ f.key = b.key /\ f.declared = b.declared /\ f.observed = b.observed
            /\ f.pc = "deliver" /\ f.tables = Delivery(b)
    BY <1>1, <2>1
  <2>3. t \in Delivery(b)
    <3>1. CASE t \in b.observed
      BY <3>1 DEF Delivery
    <3>2. CASE t \in LandlordTable /\ t \in b.declared
      <4>1. key = k
        BY <3>2, ConstantTypes DEF KeyOf
      <4>2. commits[k] \in Changes /\ t \in commits[k].writes
        BY DEF Written, BasicInv, Types
      <4>3. \A u \in b.observed : u \in TenantTable /\ u \in commits[k].writes
        BY <1>1, <1>4, <4>1 DEF BasicInv, Truthful, Written, FlightType
      <4>4. b.observed = {}
        BY <3>2, <4>2, <4>3 DEF OneDatabase
      <4> QED
        BY <3>2, <4>4 DEF Delivery
    <3> QED
      BY <1>4, <3>1, <3>2 DEF Holds
  <2>4. f \in flights' /\ f.key = key /\ Holds(f, t) /\ t \in f.tables
    BY <1>4, <2>2, <2>3 DEF Holds
  <2> QED
    BY <2>4 DEF Carried, Holds
<1> QED
  BY <1>2, <1>3, <1>4 DEF Carried

\* What carries a commit to a result still does after a flush has taken its batch.
LEMMA TakeCarries ==
    ASSUME BasicInv, NEW c \in Key, FlushTake(c), NEW key \in Key, NEW t, Carried(key, t)
    PROVE  Carried(key, t)'
<1>1. PICK f \in FlightType :
          /\ flights' = flights \cup {f}
          /\ f.key = c /\ f.declared = batch[c].declared
          /\ f.observed = batch[c].observed /\ f.pc = "taken"
  BY FlushTakeBasic
<1>2. \A d \in Key : batch'[d] = IF d = c THEN NoBatch ELSE batch[d]
  BY FlushTakeBasic
<1>3. CASE batch[key].open /\ Holds(batch[key], t)
  <2>1. CASE key = c
    <3>1. f \in flights' /\ f.key = key /\ Holds(f, t) /\ f.pc # "deliver"
      BY <1>1, <1>3, <2>1 DEF Holds
    <3> QED
      BY <3>1 DEF Carried, Holds
  <2>2. CASE key # c
    BY <1>2, <1>3, <2>2 DEF Carried, Holds
  <2> QED
    BY <2>1, <2>2
<1>4. CASE \E b \in flights : b.key = key /\ Holds(b, t) /\ (b.pc = "deliver" => t \in b.tables)
  BY <1>1, <1>4 DEF Carried, Holds
<1> QED
  BY <1>3, <1>4 DEF Carried

\* An announcement adds to a batch.
LEMMA AnnounceCarries ==
    ASSUME BasicInv, NEW c \in Key, NEW new \in BatchType, batch' = [batch EXCEPT ![c] = new],
           new.open, flights' = flights, NEW key \in Key, NEW t,
           key = c => (Holds(batch[c], t) => Holds(new, t)), Carried(key, t)
    PROVE  Carried(key, t)'
<1>1. \A d \in Key : batch'[d] = IF d = c THEN new ELSE batch[d]
  BY DEF BasicInv, Types
<1>2. CASE batch[key].open /\ Holds(batch[key], t)
  <2>1. batch'[key].open /\ Holds(batch'[key], t)
    BY <1>1, <1>2
  <2> QED
    BY <2>1 DEF Carried, Holds
<1>3. CASE \E b \in flights : b.key = key /\ Holds(b, t) /\ (b.pc = "deliver" => t \in b.tables)
  BY <1>3 DEF Carried, Holds
<1> QED
  BY <1>2, <1>3 DEF Carried

\* What is on its way stays on its way until it is delivered.
LEMMA StillComing ==
    ASSUME BasicInv, OneDatabase, NEW k \in Commit, NEW t \in Table, Written(k, t), Coming(k, t),
           \/ \E x \in Changes : DoCommit(x)
           \/ \E c \in Commit : Broadcast(c)
           \/ Observe
           \/ \E c \in Key : FlushTake(c)
           \/ \E b \in flights : FlushDecide(b)
           \/ UNCHANGED <<channel, declaring, batch, flights>>
    PROVE  Coming(k, t)'
<1>0. Types /\ batch \in [Key -> BatchType]
  BY DEF BasicInv, Types
<1>1. CASE \E x \in Changes : DoCommit(x)
  <2>1. PICK x \in Changes : DoCommit(x)
    BY <1>1
  <2>2. /\ \A i \in 1 .. Len(channel) : i \in 1 .. Len(channel') /\ channel'[i] = channel[i]
        /\ declaring \subseteq declaring' /\ UNCHANGED <<batch, flights>>
    BY <1>0, <2>1, CommitAppends DEF DoCommit
  <2> QED
    BY <2>2 DEF Coming, InChannel, Carried, Holds, KeyOf
<1>2. CASE \E c \in Commit : Broadcast(c)
  <2>1. PICK c \in Commit : Broadcast(c)
    BY <1>2
  <2>2. PICK new \in BatchType :
            /\ batch' = [batch EXCEPT ![c] = new]
            /\ new.open /\ new.declared = commits[c].declared
            /\ new.observed = batch[c].observed
    BY <2>1, BroadcastBasic
  <2>3. UNCHANGED <<channel, flights>> /\ declaring' = declaring \ {c} /\ c \in Key
        /\ commits[c] \in Changes
    BY <2>1, BroadcastBasic, ConstantTypes DEF Broadcast
  <2>4. t \in LandlordTable /\ c = k => t \in new.declared
    BY <2>2, <2>3, ConstantTypes DEF Written
  <2>5. CASE InChannel(k, t)
    BY <2>3, <2>5 DEF Coming, InChannel
  <2>6. CASE t \in LandlordTable /\ k \in declaring
    <3>1. CASE k = c
      <4>1. batch'[k] = new
        BY <1>0, <2>2, <2>3, <3>1
      <4>2. Carried(k, t)'
        BY <2>2, <2>4, <2>6, <3>1, <4>1 DEF Carried, Holds
      <4>3. k \in Key /\ KeyOf(k, t, k)
        BY ConstantTypes DEF KeyOf
      <4> QED
        BY <4>2, <4>3 DEF Coming
    <3>2. CASE k # c
      BY <2>3, <2>6, <3>2 DEF Coming
    <3> QED
      BY <3>1, <3>2
  <2>7. CASE \E key \in Key : KeyOf(k, t, key) /\ Carried(key, t)
    <3>1. PICK key \in Key : KeyOf(k, t, key) /\ Carried(key, t)
      BY <2>7
    <3>2. key = c => (Holds(batch[c], t) => Holds(new, t))
      <4>1. key = c => key = k
        BY <3>1, ConstantTypes DEF KeyOf
      <4> QED
        BY <2>2, <2>4, <4>1 DEF Holds
    <3>3. Carried(key, t)'
      BY <2>2, <2>3, <3>1, <3>2, AnnounceCarries
    <3> QED
      BY <3>1, <3>3 DEF Coming, KeyOf
  <2> QED
    BY <2>5, <2>6, <2>7 DEF Coming
<1>3. CASE Observe
  <2>1. PICK c \in Commit, u \in TenantTable, w \in Key, new \in BatchType :
            /\ (w = c \/ w = u)
            /\ channel # <<>> /\ channel[1].k = c /\ channel[1].t = u
            /\ Len(channel') = Len(channel) - 1
            /\ \A i \in 1 .. Len(channel') : channel'[i] = channel[i + 1]
            /\ batch' = [batch EXCEPT ![w] = new]
            /\ new.open /\ new.declared = batch[w].declared
            /\ new.observed = batch[w].observed \cup {u}
    BY <1>3, ObserveBasic, ZenonT(60)
  <2>2. UNCHANGED <<declaring, flights>>
    BY <1>3 DEF Observe
  <2>3. batch'[w] = new /\ Len(channel) \in Nat
    BY <1>0, <2>1 DEF Types
  <2>4. CASE InChannel(k, t)
    <3>1. PICK i \in 1 .. Len(channel) : channel[i].k = k /\ channel[i].t = t
      BY <2>4 DEF InChannel
    <3>2. CASE i = 1
      <4>1. c = k /\ u = t
        BY <2>1, <3>1, <3>2
      <4>2. KeyOf(k, t, w)
        BY <2>1, <4>1 DEF KeyOf
      <4>3. Carried(w, t)'
        BY <2>1, <2>3, <4>1 DEF Carried, Holds
      <4> QED
        BY <4>2, <4>3 DEF Coming, KeyOf
    <3>3. CASE i # 1
      <4>1. i - 1 \in 1 .. Len(channel') /\ (i - 1) + 1 = i
        BY <2>1, <2>3, <3>3
      <4>2. channel'[i - 1] = channel[i]
        BY <2>1, <4>1
      <4> QED
        BY <3>1, <4>1, <4>2 DEF Coming, InChannel
    <3> QED
      BY <3>2, <3>3
  <2>5. CASE t \in LandlordTable /\ k \in declaring
    BY <2>2, <2>5 DEF Coming
  <2>6. CASE \E key \in Key : KeyOf(k, t, key) /\ Carried(key, t)
    <3>1. PICK key \in Key : KeyOf(k, t, key) /\ Carried(key, t)
      BY <2>6
    <3>2. Holds(batch[w], t) => Holds(new, t)
      BY <2>1 DEF Holds
    <3>3. Carried(key, t)'
      BY <2>1, <2>2, <3>1, <3>2, AnnounceCarries
    <3> QED
      BY <3>1, <3>3 DEF Coming, KeyOf
  <2> QED
    BY <2>4, <2>5, <2>6 DEF Coming
<1>4. CASE (\E c \in Key : FlushTake(c)) \/ (\E b \in flights : FlushDecide(b))
  <2>1. UNCHANGED <<channel, declaring>>
    BY <1>4 DEF FlushTake, FlushDecide
  <2>2. \A key \in Key : KeyOf(k, t, key) /\ Carried(key, t) => Carried(key, t)'
    BY <1>4, TakeCarries, DecideCarries
  <2> QED
    BY <2>1, <2>2 DEF Coming, InChannel, KeyOf
<1>5. CASE UNCHANGED <<channel, declaring, batch, flights>>
  BY <1>5 DEF Coming, InChannel, Carried, Holds, KeyOf
<1> QED
  BY <1>1, <1>2, <1>3, <1>4, <1>5

\* A delivery takes one flight away.
LEMMA DeliveredOrComing ==
    ASSUME BasicInv, NEW b \in flights, FlushDeliver(b), NEW k, NEW t, Coming(k, t)
    PROVE  \/ Coming(k, t)'
           \/ KeyOf(k, t, b.key) /\ Holds(b, t) /\ t \in b.tables
<1>1. UNCHANGED <<channel, declaring, batch>> /\ flights' = flights \ {b} /\ b.pc = "deliver"
  BY DEF FlushDeliver
<1>2. ASSUME NEW key \in Key, KeyOf(k, t, key), Carried(key, t)
      PROVE  Carried(key, t)' \/ (b.key = key /\ Holds(b, t) /\ t \in b.tables)
  BY <1>1, <1>2 DEF Carried, Holds
<1> QED
  BY <1>1, <1>2 DEF Coming, InChannel, KeyOf

\* A write is announced: its notification is in the channel or, for a table
\* that no trigger speaks of, its declaration is on its way.
Announced(k, t) == InChannel(k, t) \/ (t \in LandlordTable /\ Coming(k, t))

\* A commit is announced for every table it writes, as far as anything listens.
LEMMA NewIsAnnounced ==
    ASSUME BasicInv, NEW x \in Changes, DoCommit(x), NEW t \in Table, t \in x.writes,
           NEW k, k = Len(commits) + 1
    PROVE  Announced(k, t)' \/ ~Hears
<1>1. CASE t \in TenantTable
  <2>1. Hears => \E i \in 1 .. Len(channel') : channel'[i].k = k /\ channel'[i].t = t
    BY <1>1, CommitAppends DEF BasicInv
  <2> QED
    BY <2>1 DEF Announced, InChannel
<1>2. CASE t \in LandlordTable
  <2>1. t \in x.declared
    BY <1>2, ConstantTypes
  <2>2. k \in declaring'
    BY <2>1 DEF DoCommit
  <2> QED
    BY <1>2, <2>2 DEF Announced, Coming
<1> QED
  BY <1>1, <1>2 DEF Table

-----------------------------------------------------------------------------
(* The subscription.                                                        *)

Running == sub.want # "none" \/ fetch["run"].pc # "idle"

\* A write the subscription has not seen is on its way to it, or the listener
\* will refresh everything, or a run is due.
Due(k, t) == Running \/ ~listener.link \/ listener.pc # "wait" \/ Coming(k, t)

SeenOrDue == \A k \in Commit, t \in Reads : Written(k, t) => k <= sub.seen[t] \/ Due(k, t)

\* A commit that was asked for already is one that no batch has to ask for.
AskedServed ==
    \A k \in Commit, t \in Reads : k \in sub.asked /\ Written(k, t) => k <= sub.seen[t] \/ Running

NotAhead == \A t \in Reads : sub.seen[t] <= db[t]

\* An uncached run reads the database and ends.
RunReads == fetch["run"].pc \in {"idle", "read"}

FreshInv == BasicInv /\ SeenOrDue /\ AskedServed /\ NotAhead /\ RunReads

\* Nothing is owed at the start.
LEMMA FreshInit ==
    ASSUME Init
    PROVE  FreshInv
<1>1. BasicInv
  BY InitBasic
<1>2. Len(commits) = 0 /\ sub.asked = {} /\ fetch["run"] = NoFetch
  BY ConstantTypes DEF Init
<1>3. SeenOrDue /\ AskedServed
  BY <1>2 DEF SeenOrDue, AskedServed, Written
<1>4. NotAhead
  BY ConstantTypes DEF Init, NotAhead
<1>5. RunReads
  BY <1>2 DEF RunReads, NoFetch
<1> QED
  BY <1>1, <1>3, <1>4, <1>5 DEF FreshInv

\* What the proofs about the subscription start from.
LEMMA FreshTypes ==
    ASSUME FreshInv
    PROVE  /\ BasicInv /\ Types /\ sub \in SubType /\ sub.seen \in Versions
           /\ sub.asked \subseteq 1 .. Len(commits) /\ Len(commits) \in Nat
           /\ db \in [Table -> Nat] /\ fetch \in [Fetcher -> FetchType]
           /\ listener \in ListenerType
  BY DEF FreshInv, BasicInv, Types, SubType

\* Steps that neither run nor deliver: what was due is due.
LEMMA StillDue ==
    ASSUME FreshInv, OneDatabase, BasicInv', UNCHANGED <<db, commits, sub, fetch, listener>>,
           \/ \E c \in Commit : Broadcast(c)
           \/ Observe
           \/ \E c \in Key : FlushTake(c)
           \/ \E b \in flights : FlushDecide(b)
           \/ UNCHANGED <<channel, declaring, batch, flights>>
    PROVE  FreshInv'
<1>1. \A k, t : Written(k, t)' <=> Written(k, t)
  BY DEF Written
<1>2. \A k \in Commit, t \in Table : Written(k, t) /\ Coming(k, t) => Coming(k, t)'
  BY StillComing DEF FreshInv
<1>3. SeenOrDue'
  <2> SUFFICES ASSUME NEW k \in Commit, NEW t \in Reads, Written(k, t), ~(k <= sub.seen[t])
               PROVE  Due(k, t)'
    BY <1>1 DEF SeenOrDue
  <2>1. Due(k, t)
    BY DEF FreshInv, SeenOrDue
  <2> QED
    BY <1>2, <2>1, ConstantTypes DEF Due, Running
<1> QED
  BY <1>1, <1>3 DEF FreshInv, AskedServed, NotAhead, RunReads, Running

\* A commit is announced.
LEMMA CommitFresh ==
    ASSUME FreshInv, OneDatabase, NEW x \in Changes, DoCommit(x)
    PROVE  FreshInv'
<1> DEFINE n == Len(commits) + 1
<1>0. /\ BasicInv /\ BasicInv' /\ Types /\ Types' /\ sub.asked \subseteq 1 .. Len(commits)
      /\ Len(commits) \in Nat /\ sub.seen \in Versions /\ db \in [Table -> Nat]
      /\ db' \in [Table -> Nat]
  BY FreshTypes, CommitBasic DEF BasicInv, Types
<1>1. UNCHANGED <<listener, sub, fetch>>
  BY DEF DoCommit
<1>2. \A k, t : Written(k, t)' => Written(k, t) \/ (k = n /\ t \in x.writes)
  BY <1>0, WrittenGrows
<1>3. SeenOrDue'
  <2> SUFFICES ASSUME NEW k \in Commit, NEW t \in Reads, Written(k, t)'
               PROVE  k <= sub.seen[t] \/ Due(k, t)'
    BY <1>1 DEF SeenOrDue
  <2>1. CASE Written(k, t)
    <3>1. k <= sub.seen[t] \/ Due(k, t)
      BY <2>1 DEF FreshInv, SeenOrDue
    <3>2. Coming(k, t) => Coming(k, t)'
      BY <1>0, <2>1, StillComing, ConstantTypes
    <3> QED
      BY <1>1, <3>1, <3>2 DEF Due, Running
  <2>2. CASE k = n /\ t \in x.writes
    <3>1. Coming(k, t)' \/ ~Hears
      BY <1>0, <2>2, NewIsAnnounced, ConstantTypes DEF Announced, Coming
    <3> QED
      BY <1>1, <3>1 DEF Due, Hears
  <2> QED
    BY <1>2, <2>1, <2>2
<1>4. AskedServed'
  <2> SUFFICES ASSUME NEW k \in Commit, NEW t \in Reads, k \in sub.asked, Written(k, t)'
               PROVE  k <= sub.seen[t] \/ Running
    BY <1>1 DEF AskedServed, Running
  <2>1. k # n
    BY <1>0
  <2> QED
    BY <1>2, <2>1 DEF FreshInv, AskedServed
<1>5. NotAhead'
  <2> SUFFICES ASSUME NEW t \in Reads
               PROVE  sub.seen[t] <= db'[t]
    BY <1>1 DEF NotAhead
  <2>1. db[t] <= db'[t]
    BY <1>0, ConstantTypes DEF DoCommit, Types
  <2>2. sub.seen[t] <= db[t] /\ t \in Table
    BY ConstantTypes DEF FreshInv, NotAhead
  <2>3. sub.seen[t] \in Nat /\ db[t] \in Nat /\ db'[t] \in Nat
    BY <1>0, <2>2 DEF Versions
  <2> QED
    BY <2>1, <2>2, <2>3
<1> QED
  BY <1>0, <1>1, <1>3, <1>4, <1>5 DEF FreshInv, RunReads

\* A loss makes a refresh due, the refresh makes a run due.
LEMMA ListenerFresh ==
    ASSUME FreshInv, OneDatabase, Listening \/ Cut \/ MarkNeedsRecovery
    PROVE  FreshInv'
<1>0. BasicInv /\ BasicInv' /\ listener \in ListenerType /\ sub \in SubType
  BY FreshTypes, ListenerBasic
<1>1. UNCHANGED <<db, commits, declaring, batch, flights, fetch>>
  BY DEF Listening, Cut, MarkNeedsRecovery, MarkDisconnected, Listen, MarkReady, RefreshTenant
<1>2. \/ ~listener'.link \/ listener'.pc # "wait" \/ sub'.want # "none"
      \/ listener'.link = listener.link /\ listener'.pc = listener.pc /\ channel' = channel
  <2>1. CASE Listening
    <3>1. CASE MarkDisconnected \/ Listen \/ MarkReady
      <4>1. listener'.pc = "dial" \/ listener'.pc = "listen" \/ listener'.pc = "refresh"
        <5>1. CASE MarkDisconnected
          BY <1>0, <5>1 DEF MarkDisconnected, ListenerType
        <5>2. CASE Listen
          BY <1>0, <5>2 DEF Listen, ListenerType
        <5>3. CASE MarkReady
          BY <1>0, <5>3 DEF MarkReady, ListenerType
        <5> QED
          BY <3>1, <5>1, <5>2, <5>3
      <4> QED
        BY <4>1
    <3>2. CASE RefreshTenant
      BY <1>0, <3>2 DEF RefreshTenant, SubType
    <3> QED
      BY <2>1, <3>1, <3>2 DEF Listening
  <2>2. CASE Cut \/ MarkNeedsRecovery
    BY <1>0, <2>2 DEF Cut, MarkNeedsRecovery, ListenerType
  <2> QED
    BY <2>1, <2>2
<1>3. sub'.seen = sub.seen /\ sub'.asked = sub.asked /\ (sub'.want = sub.want \/ sub'.want # "none")
  <2>1. sub' = sub \/ sub' = [sub EXCEPT !.want = "recover"]
    BY DEF Listening, Cut, MarkNeedsRecovery, MarkDisconnected, Listen, MarkReady, RefreshTenant
  <2> QED
    BY <1>0, <2>1 DEF SubType
<1>4. (Running => Running') /\ \A k, t : Written(k, t)' <=> Written(k, t)
  BY <1>1, <1>3 DEF Running, Written
<1>5. SeenOrDue'
  <2> SUFFICES ASSUME NEW k \in Commit, NEW t \in Reads, Written(k, t), ~(k <= sub.seen[t])
               PROVE  Due(k, t)'
    BY <1>3, <1>4 DEF SeenOrDue
  <2>1. Due(k, t)
    BY DEF FreshInv, SeenOrDue
  <2>2. channel' = channel => (Coming(k, t) => Coming(k, t)')
    BY <1>1 DEF Coming, InChannel, Carried, Holds, KeyOf
  <2> QED
    BY <1>2, <1>4, <2>1, <2>2 DEF Due, Running
<1> QED
  BY <1>0, <1>1, <1>3, <1>4, <1>5 DEF FreshInv, AskedServed, NotAhead, RunReads

\* A delivery asks for a run, unless it was asked for before.
LEMMA DeliverFresh ==
    ASSUME FreshInv, NEW b \in flights, FlushDeliver(b)
    PROVE  FreshInv'
<1>0. BasicInv /\ sub \in SubType
  BY FreshTypes
<1>1. /\ BasicInv' /\ b \in FlightType
      /\ sub'.seen = sub.seen
      /\ \/ b.tables \cap Reads = {} /\ sub' = sub
         \/ b.key \in sub.asked /\ sub' = sub
         \/ /\ sub'.want = "invalidate"
            /\ sub'.asked = IF b.key \in Commit THEN sub.asked \cup {b.key} ELSE sub.asked
  BY <1>0, FlushDeliverBasic
<1>2. UNCHANGED <<db, commits, listener, fetch>>
  BY DEF FlushDeliver
<1>3. (Running => Running') /\ \A k, t : Written(k, t)' <=> Written(k, t)
  BY <1>1, <1>2 DEF Running, Written
<1>4. SeenOrDue'
  <2> SUFFICES ASSUME NEW k \in Commit, NEW t \in Reads, Written(k, t), ~(k <= sub.seen[t]),
                      ~Running'
               PROVE  Due(k, t)'
    BY <1>1, <1>3 DEF SeenOrDue, Due
  <2>1. Due(k, t) /\ ~Running
    BY <1>3 DEF FreshInv, SeenOrDue
  <2>2. CASE Coming(k, t)
    <3>1. Coming(k, t)' \/ (KeyOf(k, t, b.key) /\ t \in b.tables)
      BY <1>0, <2>2, DeliveredOrComing
    <3>2. ASSUME KeyOf(k, t, b.key), t \in b.tables
          PROVE  FALSE
      <4>1. b.key \in sub.asked
        BY <1>1, <3>2 DEF Running
      <4>2. b.key = k
        BY <1>0, <3>2, <4>1, ConstantTypes DEF KeyOf, SubType
      <4> QED
        BY <2>1, <4>1, <4>2 DEF FreshInv, AskedServed
    <3> QED
      BY <3>1, <3>2 DEF Due
  <2> QED
    BY <1>2, <2>1, <2>2 DEF Due
<1>5. AskedServed'
  <2>1. \/ sub' = sub \/ Running'
    BY <1>1 DEF Running
  <2> QED
    BY <1>1, <1>2, <1>3, <2>1 DEF FreshInv, AskedServed
<1> QED
  BY <1>1, <1>2, <1>4, <1>5 DEF FreshInv, NotAhead, RunReads

\* A run that begins is under way, and sees all that was committed.
LEMMA RunFresh ==
    ASSUME FreshInv, OneDatabase, ~Cached,
           \/ BeginRun \/ \E c \in Caller : BeginCall(c)
           \/ \E f \in Fetcher : Execute(f)
    PROVE  FreshInv'
<1>0. /\ BasicInv /\ sub \in SubType /\ fetch \in [Fetcher -> FetchType] /\ "run" \in Fetcher
      /\ db \in [Table -> Nat] /\ "run" \notin Caller /\ Reads \subseteq Table
  BY FreshTypes, ConstantTypes
<1>1. UNCHANGED <<db, commits, declaring, channel, listener, batch, flights>>
  BY DEF BeginRun, BeginCall, Execute, Lookup, ReadDatabase, CheckGeneration, RowsKey, Store
<1>2. \A k, t : (Written(k, t)' <=> Written(k, t)) /\ (Coming(k, t)' <=> Coming(k, t))
  BY <1>1 DEF Written, Coming, InChannel, Carried, Holds, KeyOf
<1>3. \/ BasicInv' /\ RunReads' /\ sub'.seen = sub.seen /\ sub'.asked = sub.asked
         /\ (Running => Running')
      \/ BasicInv' /\ RunReads' /\ sub'.seen = Now
  <2>1. CASE BeginRun \/ \E c \in Caller : BeginCall(c)
    <3>1. /\ BasicInv' /\ sub'.seen = sub.seen /\ sub'.asked = sub.asked
      BY <1>0, <2>1, BeginBasic
    <3>2. PICK f \in Fetcher, r \in FetchType :
              /\ fetch' = [fetch EXCEPT ![f] = r]
              /\ r.pc \in {"read", "lookup"} /\ (f = "run" /\ ~Cached => r.pc = "read")
              /\ f # "run" => sub' = sub
      BY <1>0, <2>1, BeginBasic
    <3>3. CASE f = "run"
      <4>1. fetch'["run"].pc = "read"
        BY <1>0, <3>2, <3>3
      <4> QED
        BY <3>1, <4>1 DEF RunReads, Running
    <3>4. CASE f # "run"
      <4>1. fetch'["run"] = fetch["run"] /\ sub' = sub
        BY <1>0, <3>2, <3>4
      <4> QED
        BY <3>1, <4>1 DEF FreshInv, RunReads, Running
    <3> QED
      BY <3>3, <3>4
  <2>2. CASE \E f \in Fetcher : Execute(f)
    <3>1. PICK f \in Fetcher : Execute(f)
      BY <2>2
    <3>2. /\ BasicInv' /\ fetch[f].pc # "idle" /\ (f # "run" => sub' = sub)
          /\ f = "run" /\ fetch[f].pc = "read" /\ ~Cached =>
                sub'.seen = Now /\ fetch' = [fetch EXCEPT ![f] = NoFetch]
          /\ \E r \in FetchType : fetch' = [fetch EXCEPT ![f] = r]
      BY <1>0, <3>1, ExecuteBasic
    <3>3. CASE f = "run"
      <4>1. fetch[f].pc = "read"
        BY <3>2, <3>3 DEF FreshInv, RunReads
      <4>2. sub'.seen = Now /\ fetch'["run"] = NoFetch
        BY <1>0, <3>2, <3>3, <4>1
      <4> QED
        BY <3>2, <4>2 DEF RunReads, NoFetch
    <3>4. CASE f # "run"
      <4>1. fetch'["run"] = fetch["run"] /\ sub' = sub
        BY <1>0, <3>2, <3>4
      <4> QED
        BY <3>2, <4>1 DEF FreshInv, RunReads, Running
    <3> QED
      BY <3>3, <3>4
  <2> QED
    BY <2>1, <2>2
<1>4. CASE BasicInv' /\ RunReads' /\ sub'.seen = sub.seen /\ sub'.asked = sub.asked
           /\ (Running => Running')
  BY <1>1, <1>2, <1>4 DEF FreshInv, SeenOrDue, AskedServed, NotAhead, Due
<1>5. CASE BasicInv' /\ RunReads' /\ sub'.seen = Now
  <2>1. \A t \in Reads : sub'.seen[t] = db[t] /\ db[t] \in Nat
    BY <1>0, <1>5 DEF Now
  <2>2. \A k \in Commit, t \in Reads : Written(k, t)' => k <= sub'.seen[t]
    BY <1>0, <1>2, <2>1 DEF BasicInv, Landed
  <2>3. NotAhead'
    BY <1>1, <2>1 DEF NotAhead
  <2> QED
    BY <1>5, <2>2, <2>3 DEF FreshInv, SeenOrDue, AskedServed
<1> QED
  BY <1>3, <1>4, <1>5

\* Without the cache and with one database, what is stale stays announced at every step.
LEMMA FreshStep ==
    ASSUME FreshInv, OneDatabase, ~Cached, [Next]_vars
    PROVE  FreshInv'
<1>0. BasicInv
  BY DEF FreshInv
<1>1. CASE \E x \in Changes : DoCommit(x)
  BY <1>1, CommitFresh
<1>2. CASE Announce
  <2>1. UNCHANGED <<db, commits, sub, fetch, listener>> /\ BasicInv'
    BY <1>0, <1>2, ObserveBasic, BroadcastBasic DEF Announce, Observe, Broadcast
  <2> QED
    BY <1>2, <2>1, StillDue DEF Announce
<1>3. CASE \E key \in Key : FlushTake(key)
  <2>1. UNCHANGED <<db, commits, sub, fetch, listener>> /\ BasicInv'
    BY <1>0, <1>3, FlushTakeBasic DEF FlushTake
  <2> QED
    BY <1>3, <2>1, StillDue
<1>4. CASE \E b \in flights : FlushDecide(b)
  <2>1. UNCHANGED <<db, commits, sub, fetch, listener>> /\ BasicInv'
    BY <1>0, <1>4, FlushDecideBasic DEF FlushDecide
  <2> QED
    BY <1>4, <2>1, StillDue
<1>5. CASE \E b \in flights : FlushDeliver(b)
  BY <1>5, DeliverFresh
<1>6. CASE Listening \/ Cut \/ MarkNeedsRecovery
  BY <1>6, ListenerFresh
<1>7. CASE BeginRun \/ (\E c \in Caller : BeginCall(c)) \/ \E f \in Fetcher : Execute(f)
  BY <1>7, RunFresh
<1>8. CASE ClearEntries \/ ClearGenerations \/ UNCHANGED vars
  <2>1. /\ UNCHANGED <<db, commits, sub, fetch, listener, channel, declaring, batch, flights>>
        /\ BasicInv'
    BY <1>0, <1>8, ClearBasic, StutterBasic DEF vars
  <2> QED
    BY <2>1, StillDue
<1> QED
  BY <1>1, <1>2, <1>3, <1>4, <1>5, <1>6, <1>7, <1>8 DEF Next, Flush

\* In a quiet system nothing is due.
LEMMA QuietIsServed ==
    ASSUME BasicInv, Quiet, NEW k \in Commit, NEW t \in Reads
    PROVE  ~Due(k, t)
<1>1. ~Running /\ listener.link /\ listener.pc = "wait"
  BY DEF Quiet, Running
<1>2. ~Coming(k, t)
  BY DEF Quiet, Coming, InChannel, Carried
<1> QED
  BY <1>1, <1>2 DEF Due

\* In a quiet system a subscription whose runs are not cached shows the
\* database, however batches were merged, dropped or narrowed and whatever the
\* listener missed, as long as no change writes to both databases: of such a
\* change only the observed tables are delivered while the listener is healthy.
THEOREM SubscriptionsEndFresh ==
    ASSUME OneDatabase, ~Cached
    PROVE  Spec => []SubscriptionFresh
<1>1. FreshInv => SubscriptionFresh
  <2> SUFFICES ASSUME FreshInv, Quiet
               PROVE  sub.seen = Now
    BY DEF SubscriptionFresh
  <2>0. sub.seen \in Versions /\ db \in [Table -> Nat] /\ BasicInv /\ Types
    BY FreshTypes
  <2>1. ASSUME NEW t \in Reads
        PROVE  sub.seen[t] = db[t]
    <3>1. t \in Table /\ sub.seen[t] \in Nat /\ db[t] \in Nat /\ sub.seen[t] <= db[t]
      BY <2>0, ConstantTypes DEF Versions, FreshInv, NotAhead
    <3>2. CASE db[t] = 0
      BY <3>1, <3>2
    <3>3. CASE db[t] # 0
      <4>1. Written(db[t], t)
        BY <2>0, <3>1, <3>3 DEF BasicInv, Landed
      <4>2. db[t] \in Commit
        <5>1. db[t] \in 1 .. Len(commits) /\ Len(commits) <= MaxCommits /\ Len(commits) \in Nat
          BY <2>0, <4>1 DEF Written, Types
        <5> QED
          BY <5>1, ConstantTypes
      <4>3. db[t] <= sub.seen[t]
        BY <2>0, <4>1, <4>2, QuietIsServed DEF FreshInv, SeenOrDue
      <4> QED
        BY <3>1, <4>3
    <3> QED
      BY <3>2, <3>3
  <2> QED
    BY <2>0, <2>1 DEF Versions, Now
<1>2. Init => FreshInv
  BY FreshInit
<1>3. FreshInv /\ [Next]_vars => FreshInv'
  BY FreshStep
<1> QED
  BY <1>1, <1>2, <1>3, PTL DEF Spec

-----------------------------------------------------------------------------
(* The cache at rest.                                                       *)

\* Connections are only lost in the behaviours that may break the cache anyway:
\* a commit that nobody heard of leaves its old generation in place.
NothingLost == \A b \in Bounds : b.byHand \/ b.cuts = 0

CutFree == budget.cuts = 0 /\ listener.link /\ listener.pc = "wait"

\* The caches were invalidated for a write, or will be.
AppliedOrAnnounced ==
    \A k \in Commit, t \in Table : Written(k, t) => <<k, t>> \in applied \/ Announced(k, t)

\* A payload is not ahead of the database.
PayloadsLanded ==
    /\ \A e \in entries, t \in Reads : e.val[t] <= db[t]
    /\ \A f \in Fetcher, t \in Reads :
          fetch[f].pc \in {"check", "key", "store"} => fetch[f].val[t] <= db[t]

CalmInv == CacheInv /\ CutFree /\ AppliedOrAnnounced /\ PayloadsLanded

\* Nothing is owed at the start, with the cache.
LEMMA CalmInit ==
    ASSUME Init, ~budget.byHand, NothingLost
    PROVE  CalmInv
<1>1. CacheInv
  BY CacheInit
<1>2. CutFree
  BY DEF Init, CutFree, NothingLost
<1>3. AppliedOrAnnounced
  <2>1. Len(commits) = 0
    BY DEF Init
  <2> QED
    BY <2>1 DEF AppliedOrAnnounced, Written
<1>4. PayloadsLanded
  BY DEF Init, PayloadsLanded, NoFetch
<1> QED
  BY <1>1, <1>2, <1>3, <1>4 DEF CalmInv

\* An execution's payload is the database's of its moment, or an older one's.
LEMMA PayloadsStep ==
    ASSUME BasicInv, PayloadsLanded, [Next]_vars
    PROVE  PayloadsLanded'
<1>0. /\ fetch \in [Fetcher -> FetchType] /\ entries \subseteq EntryType /\ Reads \subseteq Table
      /\ db \in [Table -> Nat]
  BY ConstantTypes DEF BasicInv, Types
<1>1. CASE \E x \in Changes : DoCommit(x)
  <2>1. PICK x \in Changes : DoCommit(x)
    BY <1>1
  <2>2. \A t \in Table : db[t] <= db'[t] /\ db[t] \in Nat /\ db'[t] \in Nat
    BY <1>0, <2>1, CommitBasic DEF DoCommit, BasicInv, Types
  <2>3. UNCHANGED <<entries, fetch>>
    BY <2>1 DEF DoCommit
  <2>4. \A e \in entries, t \in Reads : e.val[t] \in Nat
    BY <1>0 DEF EntryType, Versions
  <2>5. \A f \in Fetcher, t \in Reads : fetch[f].val[t] \in Nat
    BY <1>0 DEF FetchType, Versions
  <2>6. \A a, b, c \in Nat : a <= b /\ b <= c => a <= c
    OBVIOUS
  <2>7. \A e \in entries, t \in Reads : e.val[t] <= db'[t]
    BY <1>0, <2>2, <2>4, <2>6 DEF PayloadsLanded
  <2>8. \A f \in Fetcher, t \in Reads :
            fetch[f].pc \in {"check", "key", "store"} => fetch[f].val[t] <= db'[t]
    BY <1>0, <2>2, <2>5, <2>6 DEF PayloadsLanded
  <2> QED
    BY <2>3, <2>7, <2>8 DEF PayloadsLanded
<1>2. CASE BeginRun \/ \E c \in Caller : BeginCall(c)
  <2>1. PICK f \in Fetcher, r \in FetchType :
            fetch' = [fetch EXCEPT ![f] = r] /\ r.pc \in {"read", "lookup"}
    BY <1>2, BeginBasic
  <2>2. UNCHANGED <<db, entries>>
    BY <1>2 DEF BeginRun, BeginCall
  <2>3. \A g \in Fetcher : fetch'[g] = IF g = f THEN r ELSE fetch[g]
    BY <1>0, <2>1
  <2> QED
    BY <2>1, <2>2, <2>3 DEF PayloadsLanded
<1>3. CASE \E f \in Fetcher : Execute(f)
  <2>1. PICK f \in Fetcher : Execute(f)
    BY <1>3
  <2>2. PICK r \in FetchType :
            /\ fetch' = [fetch EXCEPT ![f] = r]
            /\ \/ r.pc \in {"idle", "read"} \/ r.val = Now
               \/ fetch[f].pc \in {"check", "key"} /\ r.val = fetch[f].val
    BY <2>1, ExecuteBasic DEF NoFetch
  <2>3. UNCHANGED db
    BY <2>1, ExecuteBasic
  <2>4. \A g \in Fetcher : fetch'[g] = IF g = f THEN r ELSE fetch[g]
    BY <1>0, <2>2
  <2>5. \A t \in Reads : Now[t] <= db[t]
    BY <1>0 DEF Now
  <2>6. \A t \in Reads : r.pc \in {"check", "key", "store"} => r.val[t] <= db[t]
    BY <2>2, <2>5 DEF PayloadsLanded
  <2>7. \A e \in entries', t \in Reads : e.val[t] <= db[t]
    <3>1. CASE entries' = entries
      BY <3>1 DEF PayloadsLanded
    <3>2. CASE \E e \in EntryType : /\ entries' \subseteq entries \cup {e}
                                    /\ e.val = fetch[f].val /\ fetch[f].pc = "store"
      BY <3>2 DEF PayloadsLanded
    <3> QED
      BY <2>1, <3>1, <3>2, ExecuteBasic
  <2> QED
    BY <2>3, <2>4, <2>6, <2>7 DEF PayloadsLanded
<1>4. CASE UNCHANGED <<db, entries, fetch>>
  BY <1>4 DEF PayloadsLanded
<1>5. CASE ClearEntries \/ ClearGenerations
  <2>1. UNCHANGED <<db, fetch>> /\ entries' \subseteq entries
    BY <1>5 DEF ClearEntries, ClearGenerations
  <2> QED
    BY <2>1 DEF PayloadsLanded
<1>6. CASE Announce \/ Flush \/ Listening \/ Cut \/ MarkNeedsRecovery \/ UNCHANGED vars
  <2>1. UNCHANGED <<db, entries, fetch>>
    BY <1>6 DEF Announce, Observe, Broadcast, Flush, FlushTake, FlushDecide, FlushDeliver,
                Listening, MarkDisconnected, Listen, MarkReady, RefreshTenant, Cut,
                MarkNeedsRecovery, vars
  <2> QED
    BY <1>4, <2>1
<1> QED
  BY <1>1, <1>2, <1>3, <1>5, <1>6 DEF Next

\* Steps after which the same writes are announced.
LEMMA StillAnnounced ==
    ASSUME BasicInv, OneDatabase, AppliedOrAnnounced, UNCHANGED commits,
           applied \subseteq applied', UNCHANGED channel,
           \/ \E c \in Commit : Broadcast(c)
           \/ \E c \in Key : FlushTake(c)
           \/ \E b \in flights : FlushDecide(b)
           \/ UNCHANGED <<channel, declaring, batch, flights>>
    PROVE  AppliedOrAnnounced'
<1> SUFFICES ASSUME NEW k \in Commit, NEW t \in Table, Written(k, t), <<k, t>> \notin applied
             PROVE  Announced(k, t)'
  BY DEF AppliedOrAnnounced, Written
<1>1. Announced(k, t)
  BY DEF AppliedOrAnnounced
<1>2. Coming(k, t) => Coming(k, t)'
  BY StillComing
<1> QED
  BY <1>1, <1>2 DEF Announced, InChannel

\* With the cache, as long as nothing is lost, what is stale stays announced at every step.
LEMMA CalmStep ==
    ASSUME CalmInv, OneDatabase, [Next]_vars
    PROVE  CalmInv'
<1>0. /\ BasicInv /\ Types /\ CacheInv' /\ PayloadsLanded' /\ CutFree /\ AppliedOrAnnounced
      /\ budget \in Budget /\ listener \in ListenerType
  BY CacheStep, PayloadsStep DEF CalmInv, CacheInv, BasicInv, Types
<1>1. CutFree'
  <2>1. CASE UNCHANGED <<budget, listener>>
    BY <1>0, <2>1 DEF CutFree
  <2>2. CASE Listening \/ Cut \/ MarkNeedsRecovery
    <3>1. MarkNeedsRecovery
      BY <1>0, <2>2 DEF CutFree, Listening, MarkDisconnected, Listen, MarkReady, RefreshTenant, Cut
    <3> QED
      BY <1>0, <3>1 DEF CutFree, MarkNeedsRecovery, ListenerType, Budget
  <2>3. CASE \E c \in Caller : BeginCall(c)
    BY <1>0, <2>3 DEF CutFree, BeginCall, Budget
  <2>4. CASE ClearEntries \/ ClearGenerations
    BY <1>0, <2>4 DEF CutFree, ClearEntries, ClearGenerations, Budget
  <2> QED
    BY <2>1, <2>2, <2>3, <2>4
       DEF Next, vars, DoCommit, Announce, Observe, Broadcast, Flush, FlushTake, FlushDecide,
           FlushDeliver, BeginRun, Execute, Lookup, ReadDatabase, CheckGeneration, RowsKey, Store
<1>2. AppliedOrAnnounced'
  <2>1. CASE \E x \in Changes : DoCommit(x)
    <3>1. PICK x \in Changes : DoCommit(x)
      BY <2>1
    <3> DEFINE n == Len(commits) + 1
    <3>2. \A k, t : Written(k, t)' => Written(k, t) \/ (k = n /\ t \in x.writes)
      BY <1>0, <3>1, WrittenGrows
    <3>3. SUFFICES ASSUME NEW k \in Commit, NEW t \in Table, Written(k, t)', <<k, t>> \notin applied
                   PROVE  Announced(k, t)'
      BY <3>1 DEF AppliedOrAnnounced, DoCommit
    <3>4. CASE Written(k, t)
      <4>1. Announced(k, t)
        BY <1>0, <3>3, <3>4 DEF AppliedOrAnnounced
      <4>2. InChannel(k, t) => InChannel(k, t)'
        BY <1>0, <3>1, CommitAppends DEF InChannel
      <4>3. Coming(k, t) => Coming(k, t)'
        BY <1>0, <2>1, <3>4, StillComing
      <4> QED
        BY <4>1, <4>2, <4>3 DEF Announced
    <3>5. CASE k = n /\ t \in x.writes
      <4>1. Hears
        BY <1>0 DEF CutFree, Hears
      <4> QED
        BY <1>0, <3>1, <3>5, <4>1, NewIsAnnounced
    <3> QED
      BY <3>2, <3>3, <3>4, <3>5
  <2>2. CASE Observe
    <3>0. /\ channel # <<>> /\ Len(channel') = Len(channel) - 1
          /\ \A i \in 1 .. Len(channel') : channel'[i] = channel[i + 1]
      BY <1>0, <2>2, ObserveBasic
    <3>1. PICK c \in Commit, u \in TenantTable :
              Written(c, u) /\ channel[1].k = c /\ channel[1].t = u /\ Invalidate({u}, c)
      BY <1>0, <2>2, ObserveBasic
    <3>2. UNCHANGED commits /\ Len(channel) \in Nat
      <4>1. UNCHANGED commits
        BY <2>2 DEF Observe
      <4>2. Len(channel) \in Nat
        BY <1>0 DEF Types
      <4> QED
        BY <4>1, <4>2
    <3>3. applied \subseteq applied' /\ <<c, u>> \in applied'
      BY <3>1 DEF Invalidate, Written
    <3>4. SUFFICES ASSUME NEW k \in Commit, NEW t \in Table, Written(k, t), <<k, t>> \notin applied'
                   PROVE  Announced(k, t)'
      BY <3>2 DEF AppliedOrAnnounced, Written
    <3>5. Announced(k, t)
      BY <1>0, <3>3, <3>4 DEF AppliedOrAnnounced
    <3>6. Coming(k, t) => Coming(k, t)'
      BY <1>0, <2>2, <3>4, StillComing
    <3>7. CASE InChannel(k, t)
      <4>1. PICK i \in 1 .. Len(channel) : channel[i].k = k /\ channel[i].t = t
        BY <3>7 DEF InChannel
      <4>2. i # 1
        BY <3>1, <3>3, <3>4, <4>1
      <4>3. i - 1 \in 1 .. Len(channel') /\ (i - 1) + 1 = i
        BY <3>0, <3>2, <4>2
      <4>4. channel'[i - 1] = channel[i]
        BY <3>0, <4>3
      <4> QED
        BY <4>1, <4>3, <4>4 DEF Announced, InChannel
    <3> QED
      BY <3>5, <3>6, <3>7 DEF Announced
  <2>3. CASE \E k \in Commit : Broadcast(k)
    <3>1. UNCHANGED <<commits, applied, channel>>
      BY <2>3 DEF Broadcast
    <3> QED
      BY <1>0, <2>3, <3>1, StillAnnounced
  <2>4. CASE (\E key \in Key : FlushTake(key)) \/ (\E b \in flights : FlushDecide(b))
    <3>1. UNCHANGED <<commits, applied, channel>>
      BY <2>4 DEF FlushTake, FlushDecide
    <3> QED
      BY <1>0, <2>4, <3>1, StillAnnounced
  <2>5. CASE \E b \in flights : FlushDeliver(b)
    <3>1. PICK b \in flights : FlushDeliver(b)
      BY <2>5
    <3>2. UNCHANGED <<commits, channel>> /\ b \in FlightType
      BY <1>0, <3>1, FlushDeliverBasic DEF FlushDeliver
    <3>3. applied \subseteq applied'
      BY <3>1 DEF FlushDeliver, Invalidate
    <3>4. SUFFICES ASSUME NEW k \in Commit, NEW t \in Table, Written(k, t), <<k, t>> \notin applied'
                   PROVE  Announced(k, t)'
      BY <3>2 DEF AppliedOrAnnounced, Written
    <3>5. Announced(k, t)
      BY <1>0, <3>3, <3>4 DEF AppliedOrAnnounced
    <3>6. CASE t \in LandlordTable /\ Coming(k, t)
      <4>1. Coming(k, t)' \/ (KeyOf(k, t, b.key) /\ t \in b.tables)
        BY <1>0, <3>1, <3>6, DeliveredOrComing
      <4>2. ASSUME KeyOf(k, t, b.key), t \in b.tables
            PROVE  <<k, t>> \in applied'
        <5>1. b.key = k
          BY <3>6, <4>2, ConstantTypes DEF KeyOf
        <5>2. t \in (b.tables \ b.observed) \cap commits[k].writes
          BY <3>2, <3>4, <3>6, <4>2, ConstantTypes DEF FlightType, Written
        <5>3. Invalidate(b.tables \ b.observed, k)
          BY <3>1, <5>1 DEF FlushDeliver
        <5> QED
          BY <5>2, <5>3 DEF Invalidate
      <4> QED
        BY <3>4, <3>6, <4>1, <4>2 DEF Announced
    <3> QED
      BY <3>2, <3>5, <3>6 DEF Announced, InChannel
  <2>6. CASE UNCHANGED <<commits, applied, channel, declaring, batch, flights>>
    BY <1>0, <2>6, StillAnnounced
  <2>7. CASE Listening \/ Cut \/ MarkNeedsRecovery
    <3>1. MarkNeedsRecovery
      BY <1>0, <2>7 DEF CutFree, Listening, MarkDisconnected, Listen, MarkReady, RefreshTenant, Cut
    <3> QED
      BY <2>6, <3>1 DEF MarkNeedsRecovery
  <2> QED
    BY <2>1, <2>2, <2>3, <2>4, <2>5, <2>6, <2>7
       DEF Next, vars, Announce, Flush, BeginRun, BeginCall, Execute, Lookup, ReadDatabase,
           CheckGeneration, RowsKey, Store, ClearEntries, ClearGenerations
<1> QED
  BY <1>0, <1>1, <1>2 DEF CalmInv

\* The variables have their types, in every behaviour.
LEMMA BasicTypes ==
    ASSUME BasicInv
    PROVE  TypeOK
<1>0. Types /\ BatchesOwn
  BY DEF BasicInv
<1>1. db \in [Table -> 0 .. Len(commits)] /\ declaring \subseteq 1 .. Len(commits)
  <2>1. db \in [Table -> Nat] /\ Len(commits) \in Nat /\ \A t \in Table : db[t] <= Len(commits)
    BY <1>0 DEF Types
  <2>2. \A t \in Table : db[t] \in 0 .. Len(commits)
    BY <2>1
  <2> QED
    BY <1>0, <2>1, <2>2 DEF Types
<1>2. \A i \in DOMAIN channel : channel[i].k \in 1 .. Len(commits) /\ channel[i].t \in TenantTable
  <2>1. \A i \in DOMAIN channel : channel[i] \in Message
    <3> DEFINE M == Message
    <3>1. channel \in Seq(M)
      BY <1>0 DEF Types
    <3> HIDE DEF M
    <3>2. \A i \in DOMAIN channel : channel[i] \in M
      BY <3>1
    <3> QED
      BY <3>2 DEF M
  <2> QED
    BY <2>1 DEF Message
<1>3. /\ listener \in [pc : {"wait", "dial", "listen", "refresh"}, link : BOOLEAN,
                       connected : BOOLEAN, needsRecovery : BOOLEAN]
      /\ gen \in [Table -> Nat]
  BY <1>0 DEF Types, ListenerType
<1>4. /\ \A key \in Key : batch[key].declared \subseteq Table
                          /\ batch[key].observed \subseteq TenantTable
                          /\ ~batch[key].open => batch[key] = NoBatch
      /\ \A t \in TenantTable : batch[t].declared = {} /\ batch[t].observed \subseteq {t}
  BY <1>0 DEF Types, BatchesOwn, BatchType
<1>5. \A b \in flights : b.key \in Key /\ b.pc \in {"taken", "deliver"} /\ b.tables \subseteq Table
  BY <1>0 DEF Types, FlightType
<1>6. \A e \in entries : e.kind \in {"query", "rows"} /\ DOMAIN e.val = Reads
  BY <1>0 DEF Types, EntryType, Kind, Versions
<1>7. sub.want \in {"none", "initial", "invalidate", "recover"} /\ sub.asked \subseteq Commit
  BY <1>0 DEF Types, SubType, Why
<1>8. \A f \in Fetcher : fetch[f].pc \in {"idle", "lookup", "read", "check", "key", "store"}
  BY <1>0 DEF Types, FetchType
<1> QED
  BY <1>1, <1>2, <1>3, <1>4, <1>5, <1>6, <1>7, <1>8 DEF TypeOK

\* "Valkey is never lastingly wrong": in a quiet system every payload that a
\* query can be served is the database's, if no connection was lost, nobody
\* browsed tables or cleared the cache, and no change wrote to both databases.
THEOREM CachesEndFresh ==
    ASSUME OneDatabase, NothingLost
    PROVE  Spec => []LastingCacheFresh
<1>1. BasicInv /\ (~budget.byHand => CalmInv) => LastingCacheFresh
  <2> SUFFICES ASSUME BasicInv, CalmInv, Quiet, NEW e \in Servable
               PROVE  e.val = Now
    BY BasicTypes DEF LastingCacheFresh, CacheFresh
  <2>0. /\ e \in entries /\ e.val \in Versions /\ db \in [Table -> Nat] /\ Types
        /\ \A t \in Reads : e.gen[t] = gen[t]
    BY DEF Servable, Generation, BasicInv, Types, EntryType
  <2>1. ASSUME NEW t \in Reads
        PROVE  e.val[t] = db[t]
    <3>1. t \in Table /\ e.val[t] \in Nat /\ db[t] \in Nat /\ e.val[t] <= db[t]
      BY <2>0, ConstantTypes DEF Versions, CalmInv, PayloadsLanded
    <3>2. CASE db[t] = 0
      BY <3>1, <3>2
    <3>3. CASE db[t] # 0
      <4>1. Written(db[t], t)
        BY <3>1, <3>3 DEF BasicInv, Landed
      <4>2. db[t] \in Commit
        <5>1. db[t] \in 1 .. Len(commits) /\ Len(commits) <= MaxCommits /\ Len(commits) \in Nat
          BY <2>0, <4>1 DEF Written, Types
        <5> QED
          BY <5>1, ConstantTypes
      <4>3. ~Announced(db[t], t)
        BY DEF Quiet, Announced, Coming, InChannel, Carried
      <4>4. <<db[t], t>> \in applied
        BY <3>1, <4>1, <4>2, <4>3 DEF CalmInv, AppliedOrAnnounced
      <4>5. db[t] <= e.val[t]
        BY <2>0, <4>2, <4>4 DEF CalmInv, CacheInv, EntriesCover, Covers
      <4> QED
        BY <3>1, <4>5
    <3> QED
      BY <3>2, <3>3
  <2> QED
    BY <2>0, <2>1 DEF Versions, Now
<1>2. Init => (~budget.byHand => CalmInv)
  BY CalmInit
<1>3. BasicInv /\ (~budget.byHand => CalmInv) /\ [Next]_vars => (~budget.byHand => CalmInv)'
  BY KindKept, CalmStep
<1> QED
  BY <1>1, <1>2, <1>3, BasicInvariance, PTL DEF Spec

=============================================================================
