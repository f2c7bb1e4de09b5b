----------------------- MODULE MutationDeliveryProofs -----------------------
(***************************************************************************)
(* For any tabs, writes, sources, connections and faults: what a caller is *)
(* told of its write is true, and the server implements the exactly-once   *)
(* register WriteOnce.                                                     *)
(***************************************************************************)
EXTENDS MutationDelivery, SequenceTheorems, WellFoundedInduction, TLAPS

-----------------------------------------------------------------------------
(***************************************************************************)
(* The inductive invariant.                                                *)
(***************************************************************************)

\* The outbox database: what is marked committed has taken effect, and a
\* queueable write stays until it has, or until it was refused.
Due(k) ==
    /\ k \in Queueable /\ outcome[k] \in {"waiting", "queued"}
    /\ effects[k] = 0 /\ k \notin refused
EntryInv ==
    \A k \in Key : /\ db[k] = "committed" => effects[k] > 0
                   /\ db[k] # "none" => k \in Managed
                   /\ Due(k) => db[k] # "none"

\* A tab: its copy of the entries, and the writes it is about to settle.
TabGood(t) ==
    /\ \A k \in Key : /\ t.mem[k] = "committed" => effects[k] > 0
                      /\ t.mem[k] # "none" => k \in Managed
    /\ t.drain \in Key => t.drain \in Managed
    /\ \A k \in Key, w \in Who :
          <<k, w>> \in t.settling => effects[k] > 0 /\ k \in Managed
TabInv == \A c \in Client : TabGood(tab[c])

ViewInv == \A c \in Client, k \in Key : overlay[c][k].state = "accepted" => effects[k] > 0

AnswerInv ==
    \A c \in Client : \A i \in DOMAIN answers[c] :
        /\ answers[c][i].ok => effects[answers[c][i].key] > 0
        /\ ~answers[c][i].ok => answers[c][i].key \in refused

\* The caller of a write waits in one tab, and was told nothing yet.
Direct(c, k) == "direct" \in waiting[c][k] \/ <<k, "direct">> \in tab[c].settling
CallInv ==
    /\ \A c \in Client, k \in Key :
          /\ "direct" \in waiting[c][k] => <<k, "direct">> \notin tab[c].settling
          /\ Direct(c, k) => outcome[k] = "waiting"
          /\ "drain" \in waiting[c][k] => k \in Managed
          /\ \A w \in Who : handler[c][k] = w => w \in waiting[c][k]
    /\ \A c, d \in Client, k \in Key : Direct(c, k) /\ Direct(d, k) => c = d

\* Success has been told of what took effect; "queued" is said of what may be.
OutcomeInv ==
    \A k \in Key : /\ outcome[k] = "ok" => effects[k] > 0
                   /\ outcome[k] = "queued" => k \in Queueable

\* A claim is held by the transaction that runs, and remembers the effect.
Runs(c, g, k) == exec[c][g].phase = "running" /\ exec[c][g].key = k
ClaimInv ==
    /\ \A k \in Key :
          /\ k \notin Managed => claims[k] = "free"
          /\ claims[k] = "committed" => effects[k] > 0
          /\ k \in Managed /\ claims[k] # "committed" /\ k \notin swept => effects[k] = 0
          /\ k \notin swept => effects[k] <= 1
    /\ \A c \in Client, g \in Gen :
          /\ exec[c][g].phase # "idle" => exec[c][g].key \in Key
          /\ exec[c][g].phase = "running" /\ exec[c][g].key \in Managed => claims[exec[c][g].key] = "held"
    /\ \A c, d \in Client, g, h \in Gen, k \in Managed :
          Runs(c, g, k) /\ Runs(d, h, k) => c = d /\ g = h

\* A write without entry is sent once: it is in one message at most, which
\* waits in the tab, travels, or is executed.
In(s, k) == \E i \in DOMAIN s : s[i] = k
Once(s, k) == \A i, j \in DOMAIN s : s[i] = k /\ s[j] = k => i = j
Unsent(c, k) == In(tab[c].unsent, k)
Travels(c, g, k) == In(wire[c][g], k)
SingleInv ==
    /\ \A k \in Key \ Managed, c, d \in Client, g, h \in Gen :
          /\ Unsent(c, k) /\ Unsent(d, k) => c = d
          /\ Unsent(c, k) => ~Travels(d, g, k) /\ ~Runs(d, g, k)
          /\ Travels(c, g, k) /\ Travels(d, h, k) => c = d /\ g = h
          /\ Travels(c, g, k) => ~Runs(d, h, k)
          /\ Runs(c, g, k) /\ Runs(d, h, k) => c = d /\ g = h
          /\ outcome[k] = "none" \/ effects[k] > 0
                => ~Unsent(c, k) /\ ~Travels(c, g, k) /\ ~Runs(c, g, k)
          /\ Once(tab[c].unsent, k) /\ Once(wire[c][g], k)
    /\ \A k \in Key \ Managed : effects[k] <= 1 /\ (effects[k] > 0 => outcome[k] # "none")

\* None of the parts is inductive alone.
DeliveryInv ==
    /\ TypeOK /\ EntryInv /\ TabInv /\ ViewInv /\ AnswerInv
    /\ CallInv /\ OutcomeInv /\ ClaimInv /\ SingleInv

-----------------------------------------------------------------------------
(***************************************************************************)
(* Sequences of writes.                                                    *)
(***************************************************************************)

\* A queue with one more has the old keys and the new one.
LEMMA AppendKeeps ==
    ASSUME NEW s \in Seq(Key), NEW j \in Key, NEW k \in Key
    PROVE  /\ In(Append(s, j), k) <=> In(s, k) \/ j = k
           /\ Once(s, k) /\ (j = k => ~In(s, k)) => Once(Append(s, j), k)
<1> DEFINE t == Append(s, j)
<1>1. /\ Len(t) = Len(s) + 1 /\ Len(s) \in Nat
      /\ DOMAIN t = 1 .. Len(s) + 1 /\ DOMAIN s = 1 .. Len(s)
      /\ \A i \in 1 .. Len(s) : t[i] = s[i]
      /\ t[Len(s) + 1] = j
  BY AppendProperties, LenProperties
<1> HIDE DEF t
<1>2. In(t, k) <=> In(s, k) \/ j = k
  <2>1. ASSUME In(t, k) PROVE In(s, k) \/ j = k
    BY <1>1, <2>1 DEF In
  <2>2. ASSUME In(s, k) PROVE In(t, k)
    BY <1>1, <2>2 DEF In
  <2>3. ASSUME j = k PROVE In(t, k)
    BY <1>1, <2>3 DEF In
  <2> QED BY <2>1, <2>2, <2>3
<1>3. ASSUME Once(s, k), j = k => ~In(s, k) PROVE Once(t, k)
  <2> SUFFICES ASSUME NEW a \in DOMAIN t, NEW b \in DOMAIN t, t[a] = k, t[b] = k PROVE a = b
    BY DEF Once
  <2>1. CASE a \in 1 .. Len(s) /\ b \in 1 .. Len(s)
    BY <2>1, <1>1, <1>3 DEF Once
  <2>2. CASE a = Len(s) + 1 /\ b \in 1 .. Len(s)
    BY <2>2, <1>1, <1>3 DEF In
  <2>3. CASE a \in 1 .. Len(s) /\ b = Len(s) + 1
    BY <2>3, <1>1, <1>3 DEF In
  <2> QED BY <1>1, <2>1, <2>2, <2>3
<1> QED BY <1>2, <1>3 DEF t

\* The rest of a queue has no key that the queue has not.
LEMMA TailKeeps ==
    ASSUME NEW s \in Seq(Key), s # << >>, NEW k \in Key
    PROVE  /\ Head(s) \in Key /\ Tail(s) \in Seq(Key)
           /\ Head(s) = k => In(s, k)
           /\ In(Tail(s), k) => In(s, k)
           /\ Once(s, k) => Once(Tail(s), k)
           /\ Once(s, k) /\ Head(s) = k => ~In(Tail(s), k)
<1> DEFINE t == Tail(s)
<1>1. /\ Len(s) \in Nat /\ Len(s) > 0 /\ DOMAIN s = 1 .. Len(s)
      /\ t \in Seq(Key) /\ Len(t) = Len(s) - 1 /\ DOMAIN t = 1 .. Len(s) - 1
      /\ \A i \in 1 .. Len(s) - 1 : t[i] = s[i + 1]
      /\ Head(s) = s[1] /\ Head(s) \in Key
  BY HeadTailProperties, LenProperties, EmptySeq
<1> HIDE DEF t
<1>2. Head(s) = k => In(s, k)
  BY <1>1 DEF In
<1>3. In(t, k) => In(s, k)
  BY <1>1 DEF In
<1>4. Once(s, k) => Once(t, k)
  <2> SUFFICES ASSUME Once(s, k), NEW a \in DOMAIN t, NEW b \in DOMAIN t, t[a] = k, t[b] = k
               PROVE  a = b
    BY DEF Once
  <2>1. a + 1 \in DOMAIN s /\ b + 1 \in DOMAIN s /\ s[a + 1] = k /\ s[b + 1] = k
    BY <1>1
  <2>2. a + 1 = b + 1
    BY <2>1 DEF Once
  <2> QED BY <2>2, <1>1
<1>5. Once(s, k) /\ Head(s) = k => ~In(t, k)
  <2> SUFFICES ASSUME Once(s, k), s[1] = k, NEW a \in DOMAIN t, t[a] = k PROVE FALSE
    BY <1>1 DEF In
  <2>1. a + 1 \in DOMAIN s /\ 1 \in DOMAIN s /\ s[a + 1] = k /\ a + 1 # 1
    BY <1>1
  <2> QED BY <2>1 DEF Once
<1> QED BY <1>1, <1>2, <1>3, <1>4, <1>5 DEF t

\* So it is with the front of a queue.
LEMMA PrefixKeeps ==
    ASSUME NEW s \in Seq(Key), NEW n \in 0 .. Len(s), NEW k \in Key
    PROVE  /\ SubSeq(s, 1, n) \in Seq(Key)
           /\ In(SubSeq(s, 1, n), k) => In(s, k)
           /\ Once(s, k) => Once(SubSeq(s, 1, n), k)
<1> DEFINE t == SubSeq(s, 1, n)
<1>1. /\ Len(s) \in Nat /\ DOMAIN s = 1 .. Len(s) /\ n \in Nat
      /\ t \in Seq(Key) /\ Len(t) = n /\ DOMAIN t = 1 .. n
      /\ \A i \in 1 .. n : t[i] = s[i]
  BY LenProperties, SubSeqProperties
<1> HIDE DEF t
<1>2. In(t, k) => In(s, k)
  BY <1>1 DEF In
<1>3. Once(s, k) => Once(t, k)
  BY <1>1 DEF Once
<1> QED BY <1>1, <1>2, <1>3 DEF t

\* No key is in an empty queue.
LEMMA EmptyHolds == \A k \in Key : ~In(<< >>, k) /\ Once(<< >>, k)
  BY EmptySeq DEF In, Once

-----------------------------------------------------------------------------
(***************************************************************************)
(* What a step that leaves some variables alone keeps.                     *)
(***************************************************************************)

\* The kinds of mutations are kinds of keys.
LEMMA WritesAreKeys == Managed \subseteq Key /\ Optimistic \subseteq Managed /\ Queueable \subseteq Managed
  BY ConstantsAssumption DEF Managed

\* Effects and refusals only become more.
Later ==
    /\ effects \in [Key -> Nat] /\ effects' \in [Key -> Nat]
    /\ \A k \in Key : effects'[k] >= effects[k]
    /\ refused \subseteq refused'

\* Effects that do not change have not become less.
LEMMA SameIsLater ==
    ASSUME effects \in [Key -> Nat], effects' = effects, refused \subseteq refused'
    PROVE  Later
<1>1. \A k \in Key : effects[k] \in Nat
  OBVIOUS
<1>2. \A k \in Key : effects[k] >= effects[k]
  BY <1>1
<1>3. \A k \in Key : effects'[k] >= effects[k]
  BY <1>2
<1> QED BY <1>3 DEF Later

\* A step that leaves the client's state alone keeps what is known of it.
LEMMA ClientFrame ==
    ASSUME DeliveryInv, Later, UNCHANGED <<db, tab, waiting, handler, overlay, outcome>>
    PROVE  EntryInv' /\ TabInv' /\ ViewInv' /\ CallInv' /\ OutcomeInv'
<1>1. \A k \in Key : /\ effects[k] \in Nat /\ effects'[k] \in Nat /\ effects'[k] >= effects[k]
                     /\ effects[k] > 0 => effects'[k] > 0
                     /\ effects'[k] = 0 => effects[k] = 0
  BY DEF Later
<1>2. \A k \in Key : Due(k)' => Due(k)
  BY <1>1 DEF Due, Later
<1>3. EntryInv'
  BY <1>1, <1>2 DEF DeliveryInv, EntryInv
<1>4. TabInv'
  BY <1>1 DEF DeliveryInv, TabInv, TabGood
<1>5. ViewInv'
  BY <1>1 DEF DeliveryInv, ViewInv
<1>6. CallInv'
  BY DEF DeliveryInv, CallInv, Direct
<1>7. OutcomeInv'
  BY <1>1 DEF DeliveryInv, OutcomeInv
<1> QED BY <1>3, <1>4, <1>5, <1>6, <1>7

\* A step that leaves the claims alone keeps what is known of them.
LEMMA ServerFrame ==
    ASSUME ClaimInv, UNCHANGED <<exec, claims, effects, swept>>
    PROVE  ClaimInv'
  BY DEF ClaimInv, Runs

\* A step that sends nothing keeps what is known of mutations that are sent once.
LEMMA SingleFrame ==
    ASSUME SingleInv, UNCHANGED <<wire, exec, effects>>,
           \A c \in Client : tab'[c].unsent = tab[c].unsent,
           \A k \in Key \ Managed : outcome'[k] = "none" => outcome[k] = "none"
    PROVE  SingleInv'
<1>1. \A c \in Client, g \in Gen, k \in Key :
         /\ Unsent(c, k)' <=> Unsent(c, k)
         /\ Travels(c, g, k)' <=> Travels(c, g, k)
         /\ Runs(c, g, k)' <=> Runs(c, g, k)
         /\ Once(tab[c].unsent, k)' <=> Once(tab[c].unsent, k)
         /\ Once(wire[c][g], k)' <=> Once(wire[c][g], k)
  BY DEF Unsent, Travels, Runs, Once, In
<1> QED BY <1>1 DEF SingleInv

\* Messages only go away, or their number stays.
LEMMA SingleShrinks ==
    ASSUME SingleInv,
           \A c \in Client, g \in Gen, k \in Key \ Managed :
              /\ Unsent(c, k)' => Unsent(c, k)
              /\ Travels(c, g, k)' => Travels(c, g, k)
              /\ Runs(c, g, k)' => Runs(c, g, k)
              /\ Once(tab[c].unsent, k) => Once(tab'[c].unsent, k)
              /\ Once(wire[c][g], k) => Once(wire'[c][g], k)
              /\ outcome'[k] = "none" => outcome[k] = "none"
              /\ effects'[k] > 0 /\ ~(effects[k] > 0)
                    => ~Unsent(c, k)' /\ ~Travels(c, g, k)' /\ ~Runs(c, g, k)',
           \A k \in Key \ Managed : effects'[k] <= 1 /\ (effects'[k] > 0 => outcome'[k] # "none")
    PROVE  SingleInv'
<1>1. \A c \in Client, g \in Gen, k \in Key \ Managed :
         /\ Once(tab[c].unsent, k)' <=> Once(tab'[c].unsent, k)
         /\ Once(wire[c][g], k)' <=> Once(wire'[c][g], k)
  BY DEF Once
<1> QED BY <1>1 DEF SingleInv

\* An answer names a key.
LEMMA AnswersName ==
    ASSUME TypeOK, NEW c \in Client, NEW i \in DOMAIN answers[c]
    PROVE  answers[c][i] \in [key : Key, ok : BOOLEAN] /\ answers[c][i].key \in Key
<1> DEFINE A == [key : Key, ok : BOOLEAN]
<1>1. answers[c] \in Seq(A)
  BY DEF TypeOK
<1>2. answers[c][i] \in A
  <2> HIDE DEF A
  <2> QED BY <1>1, LenProperties, ElementOfSeq
<1> QED BY <1>2

\* A step that answers nothing keeps what is known of the answers.
LEMMA AnswerFrame ==
    ASSUME TypeOK, AnswerInv, Later, UNCHANGED answers
    PROVE  AnswerInv'
<1>1. \A c \in Client : \A i \in DOMAIN answers[c] : answers[c][i].key \in Key
  BY AnswersName
<1>2. \A k \in Key : effects[k] > 0 => effects'[k] > 0
  BY DEF Later
<1> QED BY <1>1, <1>2 DEF AnswerInv, Later

\* The answer to write k, if it comes through, is right.
LEMMA AnswerKeeps ==
    ASSUME DeliveryInv, Later, NEW c \in Client, NEW g \in Gen, NEW k \in Key, NEW ok \in BOOLEAN,
           Answer(c, g, k, ok), ok => effects'[k] > 0
    PROVE  /\ answers' \in [Client -> Seq([key : Key, ok : BOOLEAN])] /\ AnswerInv'
           /\ exec' = [exec EXCEPT ![c][g] = Idle] /\ exec' \in [Client -> [Gen -> ExecType]]
           /\ refused' \in SUBSET Key
<1> DEFINE a == [key |-> k, ok |-> ok]
           A == [key : Key, ok : BOOLEAN]
<1>1. answers \in [Client -> Seq(A)] /\ a \in A
  BY DEF DeliveryInv, TypeOK
<1>2. exec' = [exec EXCEPT ![c][g] = Idle] /\ exec' \in [Client -> [Gen -> ExecType]]
  BY DEF Answer, Idle, DeliveryInv, TypeOK, ExecType
<1>3. refused' \in SUBSET Key /\ (~ok => k \in refused')
  BY DEF Answer, DeliveryInv, TypeOK
<1>4. CASE answers' = answers
  BY <1>1, <1>2, <1>3, <1>4, AnswerFrame DEF DeliveryInv
<1>5. CASE answers' = [answers EXCEPT ![c] = Append(@, a)]
  <2>1. Append(answers[c], a) \in Seq(A)
    BY <1>1, AppendProperties
  <2>2. answers' \in [Client -> Seq(A)]
    BY <1>1, <1>5, <2>1
  <2>3. \A i \in DOMAIN Append(answers[c], a) :
           Append(answers[c], a)[i] = a \/ (i \in DOMAIN answers[c] /\ Append(answers[c], a)[i] = answers[c][i])
    BY <1>1, AppendProperties, LenProperties
  <2>4. \A d \in Client : \A i \in DOMAIN answers'[d] :
           answers'[d][i] = a \/ (i \in DOMAIN answers[d] /\ answers'[d][i] = answers[d][i])
    BY <1>1, <1>5, <2>3
  <2>5. \A d \in Client : \A i \in DOMAIN answers[d] : answers[d][i].key \in Key
    BY AnswersName DEF DeliveryInv
  <2>6. \A j \in Key : effects[j] > 0 => effects'[j] > 0
    BY DEF Later
  <2>7. AnswerInv'
    BY <1>3, <2>4, <2>5, <2>6 DEF DeliveryInv, AnswerInv, Later
  <2> QED BY <1>2, <1>3, <2>2, <2>7
<1> QED BY <1>4, <1>5 DEF Answer

-----------------------------------------------------------------------------
(***************************************************************************)
(* The server's steps.                                                     *)
(***************************************************************************)

\* A fault leaves the bound on faults respected.
LEMMA FaultsStay ==
    ASSUME TypeOK, NEW f, Fault(f)
    PROVE  left' \in 0 .. MaxFaults
  BY ConstantsAssumption DEF TypeOK, Fault

\* What Announce adds to the news.
LEMMA AnnounceKeeps ==
    ASSUME TypeOK, NEW k \in Key, Announce(k)
    PROVE  news' \in [Client -> [Source -> SUBSET Key]]
<1>1. \A c \in Client, s \in Source :
         (IF s \in tab[c].live THEN news[c][s] \cup {k} ELSE news[c][s]) \in SUBSET Key
  BY DEF TypeOK
<1> QED BY <1>1 DEF Announce

\* Claim keeps the invariant.
LEMMA ClaimKeeps ==
    ASSUME DeliveryInv, NEW c \in Client, NEW g \in Gen, Claim(c, g)
    PROVE  DeliveryInv'
<1>0. PICK k \in Key : k = Head(wire[c][g])
  BY TailKeeps DEF DeliveryInv, TypeOK, Claim
<1>1. /\ wire[c][g] \in Seq(Key) /\ wire[c][g] # << >> /\ k \in Key
      /\ Tail(wire[c][g]) \in Seq(Key)
  BY TailKeeps DEF DeliveryInv, TypeOK, Claim
<1>2. /\ wire' = [wire EXCEPT ![c][g] = Tail(@)] /\ exec[c][g] = Idle
      /\ exec' = [exec EXCEPT ![c][g] =
             [key |-> k, phase |-> IF claims[k] = "committed" THEN "replaying" ELSE "running"]]
      /\ claims' = IF k \in Managed /\ claims[k] = "free" THEN [claims EXCEPT ![k] = "held"] ELSE claims
      /\ k \in Managed => claims[k] # "held"
      /\ UNCHANGED <<db, tab, waiting, handler, overlay, base, news, answers, effects, row, outcome,
                     refused, swept, left>>
  BY <1>0 DEF Claim
<1>3. Later
  BY <1>2 DEF Later, DeliveryInv, TypeOK
<1>4. TypeOK'
  BY <1>1, <1>2 DEF DeliveryInv, TypeOK, ExecType
<1>5. ClaimInv'
  <2>1. \A d \in Client, h \in Gen, j \in Key :
           Runs(d, h, j)' <=> IF d = c /\ h = g THEN j = k /\ claims[k] # "committed" ELSE Runs(d, h, j)
    BY <1>1, <1>2 DEF Runs, DeliveryInv, TypeOK
  <2>2. \A d \in Client, h \in Gen, j \in Managed : Runs(d, h, j) => claims[j] = "held"
    BY DEF Runs, DeliveryInv, ClaimInv
  <2>3. \A d \in Client, h \in Gen :
           exec'[d][h] = IF d = c /\ h = g
                         THEN [key |-> k, phase |-> IF claims[k] = "committed" THEN "replaying" ELSE "running"]
                         ELSE exec[d][h]
    BY <1>2 DEF DeliveryInv, TypeOK
  <2>4. \A j \in Key : claims'[j] = claims[j] \/ (j \in Managed /\ claims[j] = "free" /\ claims'[j] = "held")
    BY <1>1, <1>2 DEF DeliveryInv, TypeOK
  <2>5. k \in Managed /\ claims[k] # "committed" => claims'[k] = "held"
    BY <1>1, <1>2 DEF DeliveryInv, TypeOK
  <2>6. \A j \in Key :
          /\ j \notin Managed => claims'[j] = "free"
          /\ claims'[j] = "committed" => effects'[j] > 0
          /\ j \in Managed /\ claims'[j] # "committed" /\ j \notin swept' => effects'[j] = 0
          /\ j \notin swept' => effects'[j] <= 1
    BY <1>2, <2>4 DEF DeliveryInv, ClaimInv
  <2>7. \A d \in Client, h \in Gen :
          /\ exec'[d][h].phase # "idle" => exec'[d][h].key \in Key
          /\ exec'[d][h].phase = "running" /\ exec'[d][h].key \in Managed => claims'[exec'[d][h].key] = "held"
    BY <1>1, <2>3, <2>4, <2>5 DEF DeliveryInv, ClaimInv
  <2>8. \A d, e \in Client, h, i \in Gen, j \in Managed : Runs(d, h, j)' /\ Runs(e, i, j)' => d = e /\ h = i
    BY <1>1, <1>2, <2>1, <2>2, WritesAreKeys DEF DeliveryInv, ClaimInv
  <2> QED BY <2>6, <2>7, <2>8 DEF ClaimInv
<1>6. SingleInv'
  <2>1. \A d \in Client, h \in Gen, j \in Key :
           /\ Unsent(d, j)' <=> Unsent(d, j)
           /\ Once(tab[d].unsent, j)' <=> Once(tab[d].unsent, j)
    BY <1>2 DEF Unsent, Once, In
  <2>2. \A d \in Client, h \in Gen :
           wire'[d][h] = IF d = c /\ h = g THEN Tail(wire[c][g]) ELSE wire[d][h]
    BY <1>2 DEF DeliveryInv, TypeOK
  <2>3. \A j \in Key : /\ k = j => In(wire[c][g], j)
                       /\ In(Tail(wire[c][g]), j) => In(wire[c][g], j)
                       /\ Once(wire[c][g], j) => Once(Tail(wire[c][g]), j)
                       /\ Once(wire[c][g], j) /\ k = j => ~In(Tail(wire[c][g]), j)
    BY <1>0, <1>1, TailKeeps
  <2>4. \A d \in Client, h \in Gen, j \in Key :
           /\ Travels(d, h, j)' => Travels(d, h, j)
           /\ Once(wire[d][h], j) => Once(wire'[d][h], j)
    BY <2>2, <2>3 DEF Travels
  <2>8. Once(wire[c][g], k) => ~Travels(c, g, k)'
    BY <1>1, <2>2, <2>3 DEF Travels
  <2>5. \A d \in Client, h \in Gen, j \in Key :
           Runs(d, h, j)' => (d = c /\ h = g /\ j = k) \/ Runs(d, h, j)
    BY <1>1, <1>2 DEF Runs, DeliveryInv, TypeOK
  <2>6. Travels(c, g, k)
    BY <1>1, <2>3 DEF Travels
  <2>7. \A j \in Key, d \in Client, h \in Gen : Once(wire[d][h], j)' <=> Once(wire'[d][h], j)
    BY DEF Once
  <2> SUFFICES ASSUME k \notin Managed PROVE SingleInv'
    <3>1. ASSUME k \in Managed PROVE SingleInv'
      BY <1>1, <1>2, <2>1, <2>4, <2>5, <3>1, SingleShrinks, SMTT(30) DEF DeliveryInv, SingleInv, Once
    <3> QED BY <3>1
  <2>9. Once(wire[c][g], k) /\ \A d \in Client, h \in Gen :
           /\ ~Unsent(d, k) /\ ~Runs(d, h, k)
           /\ Travels(d, h, k) => d = c /\ h = g
    BY <1>1, <2>6 DEF DeliveryInv, SingleInv
  <2>10. \A d \in Client, h \in Gen : ~Travels(d, h, k)'
    BY <1>1, <2>4, <2>8, <2>9
  <2>11. outcome[k] # "none" /\ ~(effects[k] > 0)
    BY <1>1, <2>6 DEF DeliveryInv, SingleInv
  <2>12. \A j \in Key \ Managed, d, e \in Client, h, i \in Gen : j # k =>
          /\ Unsent(d, j)' /\ Unsent(e, j)' => d = e
          /\ Unsent(d, j)' => ~Travels(e, h, j)' /\ ~Runs(e, h, j)'
          /\ Travels(d, h, j)' /\ Travels(e, i, j)' => d = e /\ h = i
          /\ Travels(d, h, j)' => ~Runs(e, i, j)'
          /\ Runs(d, h, j)' /\ Runs(e, i, j)' => d = e /\ h = i
          /\ outcome'[j] = "none" \/ effects'[j] > 0
                => ~Unsent(d, j)' /\ ~Travels(d, h, j)' /\ ~Runs(d, h, j)'
    BY <1>2, <2>1, <2>4, <2>5 DEF DeliveryInv, SingleInv
  <2>13. \A d, e \in Client, h, i \in Gen :
          /\ ~Unsent(d, k)' /\ ~Travels(d, h, k)'
          /\ Runs(d, h, k)' /\ Runs(e, i, k)' => d = e /\ h = i
    BY <1>1, <2>1, <2>5, <2>9, <2>10
  <2>14. \A j \in Key \ Managed, d \in Client, h \in Gen :
            Once(tab[d].unsent, j)' /\ Once(wire[d][h], j)'
    BY <2>1, <2>4, <2>7 DEF DeliveryInv, SingleInv
  <2>15. \A j \in Key \ Managed : effects'[j] <= 1 /\ (effects'[j] > 0 => outcome'[j] # "none")
    BY <1>2 DEF DeliveryInv, SingleInv
  <2> QED BY <1>1, <1>2, <2>11, <2>12, <2>13, <2>14, <2>15 DEF SingleInv
<1> QED BY <1>2, <1>3, <1>4, <1>5, <1>6, ClientFrame, AnswerFrame DEF DeliveryInv

\* Replay keeps the invariant.
LEMMA ReplayKeeps ==
    ASSUME DeliveryInv, NEW c \in Client, NEW g \in Gen, Replay(c, g)
    PROVE  DeliveryInv'
<1>2. PICK k \in Key : k = exec[c][g].key
  BY DEF DeliveryInv, ClaimInv, Replay
<1>1. /\ exec[c][g].phase = "replaying" /\ Answer(c, g, k, claims[k] = "committed")
      /\ IF claims[k] = "committed" THEN Announce(k) ELSE UNCHANGED news
      /\ UNCHANGED <<db, tab, waiting, handler, overlay, base, wire, claims, effects, row, outcome,
                     swept, left>>
  BY <1>2 DEF Replay
<1>3. Later
  BY <1>1 DEF Later, DeliveryInv, TypeOK, Answer
<1>4. claims[k] = "committed" => effects'[k] > 0
  BY <1>1, <1>2 DEF DeliveryInv, ClaimInv
<1>5. /\ answers' \in [Client -> Seq([key : Key, ok : BOOLEAN])] /\ AnswerInv'
      /\ exec' = [exec EXCEPT ![c][g] = Idle] /\ exec' \in [Client -> [Gen -> ExecType]]
      /\ refused' \in SUBSET Key
  BY <1>1, <1>2, <1>3, <1>4, AnswerKeeps
<1>6. news' \in [Client -> [Source -> SUBSET Key]]
  BY <1>1, <1>2, AnnounceKeeps DEF DeliveryInv, TypeOK
<1>7. TypeOK'
  BY <1>1, <1>5, <1>6 DEF DeliveryInv, TypeOK
<1>8. \A d \in Client, h \in Gen : exec'[d][h] = IF d = c /\ h = g THEN Idle ELSE exec[d][h]
  BY <1>5 DEF DeliveryInv, TypeOK
<1>9. \A d \in Client, h \in Gen, j \in Key : Runs(d, h, j)' => Runs(d, h, j)
  BY <1>8 DEF Runs, Idle
<1>10. ClaimInv'
  BY <1>1, <1>8, <1>9, WritesAreKeys DEF DeliveryInv, ClaimInv, Idle
<1>11. SingleInv'
  <2>1. \A d \in Client, h \in Gen, j \in Key :
           (Unsent(d, j)' <=> Unsent(d, j)) /\ (Travels(d, h, j)' <=> Travels(d, h, j))
    BY <1>1 DEF Unsent, Travels, In
  <2>2. \A j \in Key \ Managed : effects'[j] <= 1 /\ (effects'[j] > 0 => outcome'[j] # "none")
    BY <1>1 DEF DeliveryInv, SingleInv
  <2> QED BY <1>1, <1>9, <2>1, <2>2, SingleShrinks DEF DeliveryInv
<1> QED BY <1>1, <1>3, <1>5, <1>7, <1>10, <1>11, ClientFrame DEF DeliveryInv

\* Commit keeps the invariant.
LEMMA CommitKeeps ==
    ASSUME DeliveryInv, NEW c \in Client, NEW g \in Gen, NEW ok \in BOOLEAN, CommitTx(c, g, ok)
    PROVE  DeliveryInv'
<1>1. PICK k \in Key : k = exec[c][g].key
  BY DEF DeliveryInv, ClaimInv, CommitTx
<1>2. /\ exec[c][g].phase = "running" /\ Runs(c, g, k)
      /\ left' \in 0 .. MaxFaults
      /\ claims' = IF k \in Managed THEN [claims EXCEPT ![k] = "committed"] ELSE claims
      /\ effects' = [effects EXCEPT ![k] = @ + 1]
      /\ row' \in Key \cup {0}
      /\ Announce(k) /\ Answer(c, g, k, ok)
      /\ UNCHANGED <<db, tab, waiting, handler, overlay, base, wire, outcome, swept>>
  <2>1. /\ exec[c][g].phase = "running"
        /\ IF ok THEN UNCHANGED left ELSE Fault("failure")
        /\ claims' = IF k \in Managed THEN [claims EXCEPT ![k] = "committed"] ELSE claims
        /\ effects' = [effects EXCEPT ![k] = @ + 1]
        /\ row' = IF k \in Optimistic THEN k ELSE row
        /\ Announce(k) /\ Answer(c, g, k, ok)
        /\ UNCHANGED <<db, tab, waiting, handler, overlay, base, wire, outcome, swept>>
    BY <1>1 DEF CommitTx
  <2>2. left' \in 0 .. MaxFaults
    BY <2>1, FaultsStay DEF DeliveryInv, TypeOK
  <2>3. row' \in Key \cup {0}
    BY <2>1 DEF DeliveryInv, TypeOK
  <2>4. Runs(c, g, k)
    BY <1>1, <2>1 DEF Runs
  <2> QED BY <2>1, <2>2, <2>3, <2>4
<1>3. effects' \in [Key -> Nat] /\ \A j \in Key : effects'[j] = IF j = k THEN effects[k] + 1 ELSE effects[j]
  BY <1>2 DEF DeliveryInv, TypeOK
<1>4. Later
  BY <1>2, <1>3 DEF Later, DeliveryInv, TypeOK, Answer
<1>5. effects'[k] > 0
  BY <1>3 DEF DeliveryInv, TypeOK
<1>6. /\ answers' \in [Client -> Seq([key : Key, ok : BOOLEAN])] /\ AnswerInv'
      /\ exec' = [exec EXCEPT ![c][g] = Idle] /\ exec' \in [Client -> [Gen -> ExecType]]
      /\ refused' \in SUBSET Key
  BY <1>2, <1>4, <1>5, AnswerKeeps
<1>7. news' \in [Client -> [Source -> SUBSET Key]]
  BY <1>2, AnnounceKeeps DEF DeliveryInv
<1>8. TypeOK'
  BY <1>2, <1>3, <1>6, <1>7 DEF DeliveryInv, TypeOK
<1>9. \A d \in Client, h \in Gen : exec'[d][h] = IF d = c /\ h = g THEN Idle ELSE exec[d][h]
  BY <1>6 DEF DeliveryInv, TypeOK
<1>10. \A d \in Client, h \in Gen, j \in Key : Runs(d, h, j)' => Runs(d, h, j) /\ ~(d = c /\ h = g)
  BY <1>9 DEF Runs, Idle
<1>11. \A j \in Key : claims'[j] = IF j = k /\ k \in Managed THEN "committed" ELSE claims[j]
  BY <1>2 DEF DeliveryInv, TypeOK
<1>12. ClaimInv'
  <2>1. k \in Managed => claims[k] = "held"
    BY <1>1, <1>2 DEF DeliveryInv, ClaimInv
  <2>2. k \notin swept => effects[k] = 0
    <3>1. CASE k \in Managed
      BY <2>1, <3>1 DEF DeliveryInv, ClaimInv
    <3>2. CASE k \notin Managed
      BY <1>2, <3>2 DEF DeliveryInv, SingleInv, TypeOK
    <3> QED BY <3>1, <3>2
  <2>3. \A j \in Key :
          /\ j \notin Managed => claims'[j] = "free"
          /\ claims'[j] = "committed" => effects'[j] > 0
          /\ j \in Managed /\ claims'[j] # "committed" /\ j \notin swept' => effects'[j] = 0
          /\ j \notin swept' => effects'[j] <= 1
    BY <1>2, <1>3, <1>5, <1>11, <2>2 DEF DeliveryInv, ClaimInv
  <2>4. \A d \in Client, h \in Gen : ~(d = c /\ h = g) /\ exec[d][h].phase = "running" =>
            exec[d][h].key \in Key /\ (exec[d][h].key \in Managed => exec[d][h].key # k)
    <3> SUFFICES ASSUME NEW d \in Client, NEW h \in Gen, ~(d = c /\ h = g), exec[d][h].phase = "running",
                        exec[d][h].key = k, k \in Managed
                 PROVE  FALSE
      BY DEF DeliveryInv, ClaimInv
    <3>1. Runs(d, h, k)
      BY DEF Runs
    <3> QED BY <1>2, <3>1 DEF DeliveryInv, ClaimInv
  <2>5. \A d \in Client, h \in Gen :
          /\ exec'[d][h].phase # "idle" => exec'[d][h].key \in Key
          /\ exec'[d][h].phase = "running" /\ exec'[d][h].key \in Managed => claims'[exec'[d][h].key] = "held"
    BY <1>9, <1>11, <2>4 DEF DeliveryInv, ClaimInv, Idle
  <2>6. \A d, e \in Client, h, i \in Gen, j \in Managed : Runs(d, h, j)' /\ Runs(e, i, j)' => d = e /\ h = i
    BY <1>10, WritesAreKeys DEF DeliveryInv, ClaimInv
  <2> QED BY <2>3, <2>5, <2>6 DEF ClaimInv
<1>13. SingleInv'
  <2>1. \A d \in Client, h \in Gen, j \in Key :
           /\ (Unsent(d, j)' <=> Unsent(d, j)) /\ (Travels(d, h, j)' <=> Travels(d, h, j))
    BY <1>2 DEF Unsent, Travels, In
  <2>2. k \notin Managed => \A d \in Client, h \in Gen :
            ~Unsent(d, k)' /\ ~Travels(d, h, k)' /\ ~Runs(d, h, k)' /\ effects[k] = 0
    BY <1>2, <1>10, <2>1 DEF DeliveryInv, SingleInv, TypeOK
  <2>3. \A j \in Key \ Managed : effects'[j] <= 1 /\ (effects'[j] > 0 => outcome'[j] # "none")
    <3>1. k \notin Managed => outcome[k] # "none"
      BY <1>2 DEF DeliveryInv, SingleInv
    <3>2. \A j \in Key : outcome'[j] = outcome[j]
      BY <1>2
    <3> QED BY <1>3, <2>2, <3>1, <3>2 DEF DeliveryInv, SingleInv
  <2>4. \A d \in Client, h \in Gen, j \in Key \ Managed :
           effects'[j] > 0 /\ ~(effects[j] > 0) => ~Unsent(d, j)' /\ ~Travels(d, h, j)' /\ ~Runs(d, h, j)'
    BY <1>3, <2>2
  <2> QED BY <1>2, <1>10, <2>1, <2>3, <2>4, SingleShrinks DEF DeliveryInv
<1> QED BY <1>2, <1>4, <1>6, <1>8, <1>12, <1>13, ClientFrame DEF DeliveryInv

\* Rollback keeps the invariant.
LEMMA RollbackKeeps ==
    ASSUME DeliveryInv, NEW c \in Client, NEW g \in Gen, RollbackTx(c, g)
    PROVE  DeliveryInv'
<1>1. PICK k \in Key : k = exec[c][g].key
  BY DEF DeliveryInv, ClaimInv, RollbackTx
<1>2. /\ exec[c][g].phase = "running" /\ Runs(c, g, k)
      /\ left' \in 0 .. MaxFaults
      /\ claims' = IF k \in Managed THEN [claims EXCEPT ![k] = "free"] ELSE claims
      /\ Answer(c, g, k, FALSE)
      /\ UNCHANGED <<db, tab, waiting, handler, overlay, base, news, wire, effects, row, outcome, swept>>
  <2>1. /\ exec[c][g].phase = "running" /\ Fault("failure")
        /\ claims' = IF k \in Managed THEN [claims EXCEPT ![k] = "free"] ELSE claims
        /\ Answer(c, g, k, FALSE)
        /\ UNCHANGED <<db, tab, waiting, handler, overlay, base, news, wire, effects, row, outcome, swept>>
    BY <1>1 DEF RollbackTx
  <2>2. left' \in 0 .. MaxFaults
    BY <2>1, FaultsStay DEF DeliveryInv
  <2>4. Runs(c, g, k)
    BY <1>1, <2>1 DEF Runs
  <2> QED BY <2>1, <2>2, <2>4
<1>3. Later
  BY <1>2 DEF Later, DeliveryInv, TypeOK, Answer
<1>4. /\ answers' \in [Client -> Seq([key : Key, ok : BOOLEAN])] /\ AnswerInv'
      /\ exec' = [exec EXCEPT ![c][g] = Idle] /\ exec' \in [Client -> [Gen -> ExecType]]
      /\ refused' \in SUBSET Key
  BY <1>2, <1>3, AnswerKeeps
<1>5. TypeOK'
  BY <1>2, <1>4 DEF DeliveryInv, TypeOK
<1>6. \A d \in Client, h \in Gen : exec'[d][h] = IF d = c /\ h = g THEN Idle ELSE exec[d][h]
  BY <1>4 DEF DeliveryInv, TypeOK
<1>7. \A d \in Client, h \in Gen, j \in Key : Runs(d, h, j)' => Runs(d, h, j) /\ ~(d = c /\ h = g)
  BY <1>6 DEF Runs, Idle
<1>8. \A j \in Key : claims'[j] = IF j = k /\ k \in Managed THEN "free" ELSE claims[j]
  BY <1>2 DEF DeliveryInv, TypeOK
<1>9. ClaimInv'
  <2>1. k \in Managed => claims[k] = "held"
    BY <1>1, <1>2 DEF DeliveryInv, ClaimInv
  <2>2. \A j \in Key :
          /\ j \notin Managed => claims'[j] = "free"
          /\ claims'[j] = "committed" => effects'[j] > 0
          /\ j \in Managed /\ claims'[j] # "committed" /\ j \notin swept' => effects'[j] = 0
          /\ j \notin swept' => effects'[j] <= 1
    BY <1>2, <1>8, <2>1 DEF DeliveryInv, ClaimInv
  <2>4. \A d \in Client, h \in Gen : ~(d = c /\ h = g) /\ exec[d][h].phase = "running" =>
            exec[d][h].key \in Key /\ (exec[d][h].key \in Managed => exec[d][h].key # k)
    <3> SUFFICES ASSUME NEW d \in Client, NEW h \in Gen, ~(d = c /\ h = g), exec[d][h].phase = "running",
                        exec[d][h].key = k, k \in Managed
                 PROVE  FALSE
      BY DEF DeliveryInv, ClaimInv
    <3>1. Runs(d, h, k)
      BY DEF Runs
    <3> QED BY <1>2, <3>1 DEF DeliveryInv, ClaimInv
  <2>5. \A d \in Client, h \in Gen :
          /\ exec'[d][h].phase # "idle" => exec'[d][h].key \in Key
          /\ exec'[d][h].phase = "running" /\ exec'[d][h].key \in Managed => claims'[exec'[d][h].key] = "held"
    BY <1>6, <1>8, <2>4 DEF DeliveryInv, ClaimInv, Idle
  <2>6. \A d, e \in Client, h, i \in Gen, j \in Managed : Runs(d, h, j)' /\ Runs(e, i, j)' => d = e /\ h = i
    BY <1>7, WritesAreKeys DEF DeliveryInv, ClaimInv
  <2> QED BY <2>2, <2>5, <2>6 DEF ClaimInv
<1>10. SingleInv'
  <2>1. \A d \in Client, h \in Gen, j \in Key :
           /\ (Unsent(d, j)' <=> Unsent(d, j)) /\ (Travels(d, h, j)' <=> Travels(d, h, j))
    BY <1>2 DEF Unsent, Travels, In
  <2>2. \A j \in Key \ Managed : effects'[j] <= 1 /\ (effects'[j] > 0 => outcome'[j] # "none")
    BY <1>2 DEF DeliveryInv, SingleInv
  <2> QED BY <1>2, <1>7, <2>1, <2>2, SingleShrinks DEF DeliveryInv
<1> QED BY <1>2, <1>3, <1>4, <1>5, <1>9, <1>10, ClientFrame DEF DeliveryInv

\* Sweep keeps the invariant.
LEMMA SweepKeeps ==
    ASSUME DeliveryInv, NEW k \in Key, Sweep(k)
    PROVE  DeliveryInv'
<1>0. UNCHANGED <<effects, refused>> /\ effects \in [Key -> Nat]
  BY DEF Sweep, DeliveryInv, TypeOK
<1>1. Later
  BY <1>0, SameIsLater
<1>2. TypeOK'
  <2>1. left' \in 0 .. MaxFaults
    BY FaultsStay DEF Sweep, DeliveryInv
  <2>2. claims' \in [Key -> {"free", "held", "committed"}] /\ swept' \in SUBSET Key
    BY DEF Sweep, DeliveryInv, TypeOK
  <2> QED BY <2>1, <2>2 DEF Sweep, DeliveryInv, TypeOK
<1>3. ClaimInv'
  <2>1. \A j \in Key : claims'[j] = IF j = k THEN "free" ELSE claims[j]
    BY DEF Sweep, DeliveryInv, TypeOK
  <2>2. \A c \in Client, g \in Gen : exec[c][g].phase = "running" /\ exec[c][g].key \in Managed => exec[c][g].key # k
    BY DEF Sweep, DeliveryInv, ClaimInv
  <2>3. \A c \in Client, g \in Gen, j \in Key : Runs(c, g, j)' <=> Runs(c, g, j)
    BY DEF Runs, Sweep
  <2> QED BY <2>1, <2>2, <2>3, WritesAreKeys DEF Sweep, DeliveryInv, ClaimInv
<1>4. SingleInv'
  BY SingleFrame DEF Sweep, DeliveryInv
<1>5. UNCHANGED <<db, tab, waiting, handler, overlay, outcome, answers>>
  BY DEF Sweep
<1> QED BY <1>1, <1>2, <1>3, <1>4, <1>5, ClientFrame, AnswerFrame DEF DeliveryInv

\* Restart keeps the invariant.
LEMMA RestartKeeps ==
    ASSUME DeliveryInv, Restart
    PROVE  DeliveryInv'
<1>1. /\ Fault("restart")
      /\ exec' = [c \in Client |-> [g \in Gen |-> Idle]]
      /\ wire' = [c \in Client |-> [g \in Gen |-> << >>]]
      /\ claims' = [k \in Key |-> IF claims[k] = "held" THEN "free" ELSE claims[k]]
      /\ tab' = [c \in Client |-> [tab[c] EXCEPT !.dead = tab[c].gen]]
      /\ UNCHANGED <<db, waiting, handler, overlay, base, news, answers, effects, row, outcome, refused,
                     swept>>
  BY DEF Restart
<1>2. Later
  BY <1>1, SameIsLater DEF DeliveryInv, TypeOK
<1>3. \A c \in Client : /\ tab[c] \in TabType
                        /\ tab'[c] \in TabType /\ tab'[c].mem = tab[c].mem /\ tab'[c].drain = tab[c].drain
                        /\ tab'[c].settling = tab[c].settling /\ tab'[c].unsent = tab[c].unsent
  <2>1. \A t \in TabType :
          LET u == [t EXCEPT !.dead = t.gen]
          IN  /\ u \in TabType /\ u.mem = t.mem /\ u.drain = t.drain
              /\ u.settling = t.settling /\ u.unsent = t.unsent
    BY DEF TabType
  <2>2. \A c \in Client : tab[c] \in TabType /\ tab'[c] = [tab[c] EXCEPT !.dead = tab[c].gen]
    BY <1>1 DEF DeliveryInv, TypeOK
  <2> QED BY <2>1, <2>2
<1>4. TypeOK'
  <2>1. tab' \in [Client -> TabType]
    BY <1>1, <1>3
  <2>2. left' \in 0 .. MaxFaults
    BY <1>1, FaultsStay DEF DeliveryInv
  <2>3. /\ exec' \in [Client -> [Gen -> ExecType]]
        /\ wire' \in [Client -> [Gen -> Seq(Key)]]
        /\ claims' \in [Key -> {"free", "held", "committed"}]
    BY <1>1, EmptySeq DEF DeliveryInv, TypeOK, ExecType, Idle
  <2> QED BY <1>1, <2>1, <2>2, <2>3 DEF DeliveryInv, TypeOK
<1>5. EntryInv' /\ ViewInv' /\ OutcomeInv'
  <2>1. EntryInv'
    BY <1>1 DEF DeliveryInv, EntryInv, Due
  <2>2. ViewInv' /\ OutcomeInv'
    BY <1>1 DEF DeliveryInv, ViewInv, OutcomeInv
  <2> QED BY <2>1, <2>2
<1>6. TabInv'
  BY <1>1, <1>3 DEF DeliveryInv, TabInv, TabGood
<1>7. CallInv'
  BY <1>1, <1>3, SMTT(30) DEF DeliveryInv, CallInv, Direct
<1>8. AnswerInv'
  BY <1>1, <1>2, AnswerFrame DEF DeliveryInv
<1>9. \A c \in Client, g \in Gen : exec'[c][g] = Idle /\ wire'[c][g] = << >>
  BY <1>1
<1>10. ClaimInv'
  BY <1>1, <1>9 DEF DeliveryInv, ClaimInv, Idle, Runs
<1>11. SingleInv'
  <2>1. \A c \in Client, g \in Gen, k \in Key : ~Travels(c, g, k)' /\ ~Runs(c, g, k)' /\ Once(wire'[c][g], k)
    BY <1>9, EmptyHolds DEF Travels, Runs, Idle
  <2>2. \A c \in Client, k \in Key : (Unsent(c, k)' <=> Unsent(c, k)) /\ (Once(tab[c].unsent, k) => Once(tab'[c].unsent, k))
    BY <1>3 DEF Unsent, In, Once
  <2>3. \A k \in Key \ Managed : effects'[k] <= 1 /\ (effects'[k] > 0 => outcome'[k] # "none")
    BY <1>1 DEF DeliveryInv, SingleInv
  <2> QED BY <1>1, <2>1, <2>2, <2>3, SingleShrinks DEF DeliveryInv
<1> QED BY <1>4, <1>5, <1>6, <1>7, <1>8, <1>10, <1>11 DEF DeliveryInv

-----------------------------------------------------------------------------
(***************************************************************************)
(* The outbox and the tabs.                                                *)
(***************************************************************************)

\* New states of entries that the invariant permits.
GoodNew(new) ==
    \A k \in Key : k \in DOMAIN new =>
        /\ new[k] \in EntryState
        /\ new[k] = "committed" => effects[k] > 0
        /\ new[k] # "none" => k \in Managed

\* What Merged is.
LEMMA MergedIs ==
    ASSUME NEW old, NEW new, GoodNew(new), old \in [Key -> EntryState]
    PROVE  /\ Merged(new, old) \in [Key -> EntryState]
           /\ \A k \in Key : Merged(new, old)[k] = IF k \in DOMAIN new THEN new[k] ELSE old[k]
  BY DEF GoodNew, Merged

\* The outbox a tab works with, in the database or in memory.
LEMMA EntriesGood ==
    ASSUME DeliveryInv, NEW c \in Client
    PROVE  /\ Entries(c) \in [Key -> EntryState]
           /\ \A k \in Key : /\ Entries(c)[k] = "committed" => effects[k] > 0
                             /\ Entries(c)[k] # "none" => k \in Managed
           /\ ~tab[c].memoryOnly => Entries(c) = db
<1>1. tab[c].mem \in [Key -> EntryState] /\ db \in [Key -> EntryState]
  BY DEF DeliveryInv, TypeOK, TabType
<1>2. TabGood(tab[c])
  BY DEF DeliveryInv, TabInv
<1> QED BY <1>1, <1>2 DEF DeliveryInv, EntryInv, Entries, TabGood

\* An entry goes only when its write is not due, or when it had gone.
LEMMA EntriesStay ==
    ASSUME DeliveryInv, NEW c \in Client, NEW new, GoodNew(new), PutDB(c, new),
           UNCHANGED <<effects, refused>>,
           \A k \in Key : Due(k)' =>
              \/ ~tab[c].memoryOnly /\ k \in DOMAIN new /\ new[k] # "none"
              \/ Due(k) /\ (k \in DOMAIN new /\ new[k] = "none" => tab[c].memoryOnly)
    PROVE  db' \in [Key -> EntryState] /\ EntryInv'
<1>1. db \in [Key -> EntryState]
  BY DEF DeliveryInv, TypeOK
<1>2. CASE tab[c].memoryOnly
  <2>1. db' = db
    BY <1>2 DEF PutDB
  <2> QED BY <1>1, <1>2, <2>1 DEF DeliveryInv, EntryInv
<1>3. CASE ~tab[c].memoryOnly
  <2>1. db' = Merged(new, db)
    BY <1>3 DEF PutDB
  <2>2. db' \in [Key -> EntryState] /\ \A k \in Key : db'[k] = IF k \in DOMAIN new THEN new[k] ELSE db[k]
    BY <1>1, <2>1, MergedIs
  <2>3. \A k \in Key : (db'[k] = "committed" => effects'[k] > 0) /\ (db'[k] # "none" => k \in Managed)
    BY <2>2 DEF GoodNew, DeliveryInv, EntryInv
  <2>4. \A k \in Key : Due(k)' => db'[k] # "none"
    BY <1>3, <2>2 DEF DeliveryInv, EntryInv
  <2> QED BY <2>2, <2>3, <2>4 DEF EntryInv
<1> QED BY <1>2, <1>3

\* A step of one tab leaves the others as they are.
LEMMA TabsStay ==
    ASSUME DeliveryInv, NEW c \in Client, NEW t \in TabType, TabGood(t),
           tab' = [tab EXCEPT ![c] = t], effects' = effects
    PROVE  /\ tab' \in [Client -> TabType] /\ TabInv'
           /\ \A d \in Client : tab'[d] = IF d = c THEN t ELSE tab[d]
<1>1. tab \in [Client -> TabType]
  BY DEF DeliveryInv, TypeOK
<1>2. tab' \in [Client -> TabType] /\ \A d \in Client : tab'[d] = IF d = c THEN t ELSE tab[d]
  BY <1>1
<1>3. TabInv'
  BY <1>2 DEF DeliveryInv, TabInv, TabGood
<1> QED BY <1>2, <1>3

\* The calls when a step ends or begins none.
LEMMA CallsStay ==
    ASSUME CallInv, UNCHANGED <<waiting, handler>>,
           \A c \in Client, k \in Key :
              /\ <<k, "direct">> \in tab'[c].settling => <<k, "direct">> \in tab[c].settling
              /\ Direct(c, k)' => outcome'[k] = outcome[k]
    PROVE  CallInv'
  BY DEF CallInv, Direct

\* A step that only changes one tab, and neither its messages nor its calls.
LEMMA TabOnly ==
    ASSUME DeliveryInv, NEW c \in Client, NEW t \in TabType, TabGood(t),
           tab' = [tab EXCEPT ![c] = t], t.unsent = tab[c].unsent, t.settling = tab[c].settling,
           UNCHANGED <<db, waiting, handler, overlay, base, news, wire, answers, exec, claims,
                       effects, row, outcome, refused, swept>>,
           left' \in 0 .. MaxFaults
    PROVE  DeliveryInv'
<1>1. tab' \in [Client -> TabType] /\ TabInv' /\ \A d \in Client : tab'[d] = IF d = c THEN t ELSE tab[d]
  BY TabsStay
<1>2. TypeOK'
  BY <1>1 DEF DeliveryInv, TypeOK
<1>3. EntryInv'
  BY DEF DeliveryInv, EntryInv, Due
<1>4. ViewInv' /\ OutcomeInv'
  BY DEF DeliveryInv, ViewInv, OutcomeInv
<1>5. CallInv'
  BY <1>1, CallsStay DEF DeliveryInv
<1>6. Later
  BY SameIsLater DEF DeliveryInv, TypeOK
<1>7. AnswerInv'
  BY <1>6, AnswerFrame DEF DeliveryInv
<1>8. ClaimInv'
  BY ServerFrame DEF DeliveryInv
<1>9. SingleInv'
  BY <1>1, SingleFrame DEF DeliveryInv
<1> QED BY <1>1, <1>2, <1>3, <1>4, <1>5, <1>7, <1>8, <1>9 DEF DeliveryInv

\* A set of natural numbers that is not empty has a least element.
LEMMA LeastNat ==
    ASSUME NEW S \in SUBSET Nat, S # {}
    PROVE  \E m \in S : \A k \in S : m <= k
<1>1. \E m \in S : \A k \in S : ~(<<k, m>> \in OpToRel(<, Nat))
  BY NatLessThanWellFounded, WFMin
<1>2. \A m, k \in S : <<k, m>> \in OpToRel(<, Nat) <=> k < m
  BY DEF OpToRel
<1>3. \E m \in S : \A k \in S : ~(k < m)
  BY <1>1, <1>2, Zenon
<1> QED BY <1>3

\* The drain loop is handed a write of the outbox.
LEMMA FirstReadyIs ==
    ASSUME NEW e \in [Key -> EntryState]
    PROVE  FirstReady(e) \in Key \cup {0} /\ (FirstReady(e) \in Key => e[FirstReady(e)] # "none")
<1>1. CASE \E k \in Key : Ready(e, k)
  <2> DEFINE S == {k \in Key : Ready(e, k)}
  <2>1. S \in SUBSET Nat /\ S # {}
    BY <1>1, ConstantsAssumption DEF Key
  <2>2. \E m \in S : \A k \in S : m <= k
    BY <2>1, LeastNat
  <2>3. \E k \in Key : Ready(e, k) /\ \A j \in Key : Ready(e, j) => k <= j
    BY <2>2
  <2>4. FirstReady(e) \in Key /\ Ready(e, FirstReady(e))
    BY <1>1, <2>3 DEF FirstReady
  <2> QED BY <2>4 DEF Ready
<1>2. CASE ~\E k \in Key : Ready(e, k)
  BY <1>2, ConstantsAssumption DEF FirstReady, Key
<1> QED BY <1>1, <1>2

\* What Look leaves of a tab.
LEMMA LookKeeps ==
    ASSUME DeliveryInv, NEW c \in Client, NEW t \in TabType, TabGood(t)
    PROVE  /\ Look(c, t) \in TabType /\ TabGood(Look(c, t))
           /\ Look(c, t).unsent = t.unsent /\ Look(c, t).settling = t.settling
<1>1. PICK e : e = Entries(c)
  OBVIOUS
<1>2. PICK f : f = FirstReady(e)
  OBVIOUS
<1>3. /\ e \in [Key -> EntryState] /\ f \in Key \cup {0}
      /\ \A k \in Key : (e[k] = "committed" => effects[k] > 0) /\ (e[k] # "none" => k \in Managed)
      /\ f \in Key => f \in Managed
  BY <1>1, <1>2, EntriesGood, FirstReadyIs
<1>4. PICK d \in Key \cup {0}, m \in [Key -> EntryState] :
         /\ d = IF t.open THEN f ELSE 0
         /\ m = IF t.open THEN e ELSE t.mem
  BY <1>3 DEF TabType
<1>5. Look(c, t) = [t EXCEPT !.drain = d, !.mem = m]
  BY <1>1, <1>2, <1>4 DEF Look
<1>6. LET u == [t EXCEPT !.drain = d, !.mem = m]
      IN  /\ u \in TabType /\ u.drain = d /\ u.mem = m
          /\ u.unsent = t.unsent /\ u.settling = t.settling
  BY <1>4 DEF TabType
<1>7. d \in Key => d \in Managed
  BY <1>3, <1>4, ConstantsAssumption DEF Key
<1>8. \A k \in Key : (m[k] = "committed" => effects[k] > 0) /\ (m[k] # "none" => k \in Managed)
  BY <1>3, <1>4 DEF TabGood
<1> QED BY <1>5, <1>6, <1>7, <1>8 DEF TabGood

\* DrainOutbox keeps the invariant.
LEMMA DrainOutboxKeeps ==
    ASSUME DeliveryInv, NEW c \in Client, DrainOutbox(c)
    PROVE  DeliveryInv'
<1>1. PICK t \in TabType : t = tab[c]
  BY DEF DeliveryInv, TypeOK
<1>2. TabGood(t)
  BY <1>1 DEF DeliveryInv, TabInv
<1>3. PICK u \in TabType : u = [t EXCEPT !.wake = FALSE] /\ u.unsent = t.unsent /\ u.settling = t.settling
                           /\ u.mem = t.mem /\ u.drain = t.drain
  <2>1. LET u == [t EXCEPT !.wake = FALSE]
        IN  u \in TabType /\ u.unsent = t.unsent /\ u.settling = t.settling /\ u.mem = t.mem /\ u.drain = t.drain
    BY DEF TabType
  <2> QED BY <2>1
<1>4. TabGood(u)
  BY <1>2, <1>3 DEF TabGood
<1>5. PICK v : v = IF u.drain = 0 THEN Look(c, u) ELSE u
  OBVIOUS
<1>6. v \in TabType /\ TabGood(v) /\ v.unsent = t.unsent /\ v.settling = t.settling
  BY <1>3, <1>4, <1>5, LookKeeps
<1>7. tab' = [tab EXCEPT ![c] = v]
  BY <1>1, <1>3, <1>5 DEF DrainOutbox
<1> QED BY <1>1, <1>6, <1>7, TabOnly DEF DrainOutbox, DeliveryInv, TypeOK

\* NextReady keeps the invariant.
LEMMA NextReadyKeeps ==
    ASSUME DeliveryInv, NEW c \in Client, NextReady(c)
    PROVE  DeliveryInv'
<1>1. PICK t \in TabType : t = tab[c]
  BY DEF DeliveryInv, TypeOK
<1>2. TabGood(t)
  BY <1>1 DEF DeliveryInv, TabInv
<1>3. PICK v : v = Look(c, t)
  OBVIOUS
<1>4. v \in TabType /\ TabGood(v) /\ v.unsent = t.unsent /\ v.settling = t.settling
  BY <1>2, <1>3, LookKeeps
<1>5. tab' = [tab EXCEPT ![c] = v]
  BY <1>1, <1>3 DEF NextReady
<1> QED BY <1>1, <1>4, <1>5, TabOnly DEF NextReady, DeliveryInv, TypeOK

\* DrainTimer keeps the invariant.
LEMMA DrainTimerKeeps ==
    ASSUME DeliveryInv, NEW c \in Client, DrainTimer(c)
    PROVE  DeliveryInv'
<1>1. PICK t \in TabType : t = tab[c]
  BY DEF DeliveryInv, TypeOK
<1>2. TabGood(t)
  BY <1>1 DEF DeliveryInv, TabInv
<1>3. LET u == [t EXCEPT !.timer = 0, !.wake = TRUE]
      IN  u \in TabType /\ u.unsent = t.unsent /\ u.settling = t.settling /\ u.mem = t.mem /\ u.drain = t.drain
  BY DEF TabType
<1>4. PICK u \in TabType : /\ u = [t EXCEPT !.timer = 0, !.wake = TRUE] /\ u.unsent = t.unsent
                           /\ u.settling = t.settling /\ u.mem = t.mem /\ u.drain = t.drain
  BY <1>3
<1>5. TabGood(u)
  BY <1>2, <1>4 DEF TabGood
<1>6. tab' = [tab EXCEPT ![c] = u]
  BY <1>1, <1>4 DEF DrainTimer
<1> QED BY <1>1, <1>4, <1>5, <1>6, TabOnly, ZenonT(60) DEF DrainTimer, DeliveryInv, TypeOK

\* StorageBreaks keeps the invariant.
LEMMA StorageBreaksKeeps ==
    ASSUME DeliveryInv, NEW c \in Client, StorageBreaks(c)
    PROVE  DeliveryInv'
<1>1. PICK t \in TabType : t = tab[c]
  BY DEF DeliveryInv, TypeOK
<1>2. TabGood(t)
  BY <1>1 DEF DeliveryInv, TabInv
<1>3. LET u == [t EXCEPT !.memoryOnly = TRUE]
      IN  u \in TabType /\ u.unsent = t.unsent /\ u.settling = t.settling /\ u.mem = t.mem /\ u.drain = t.drain
  BY DEF TabType
<1>4. PICK u \in TabType : /\ u = [t EXCEPT !.memoryOnly = TRUE] /\ u.unsent = t.unsent
                           /\ u.settling = t.settling /\ u.mem = t.mem /\ u.drain = t.drain
  BY <1>3
<1>5. TabGood(u)
  BY <1>2, <1>4 DEF TabGood
<1>6. tab' = [tab EXCEPT ![c] = u]
  BY <1>1, <1>4 DEF StorageBreaks
<1>7. left' \in 0 .. MaxFaults
  BY FaultsStay DEF StorageBreaks, DeliveryInv
<1> QED BY <1>1, <1>4, <1>5, <1>6, <1>7, TabOnly DEF StorageBreaks

\* Open keeps the invariant.
LEMMA OpenKeeps ==
    ASSUME DeliveryInv, NEW c \in Client, Open(c)
    PROVE  DeliveryInv'
<1>1. PICK t \in TabType : t = tab[c]
  BY DEF DeliveryInv, TypeOK
<1>2. TabGood(t)
  BY <1>1 DEF DeliveryInv, TabInv
<1>3. PICK g \in Gen : g = tab[c].gen + 1
  BY DEF Open
<1>4. /\ tab' = [tab EXCEPT ![c] = [t EXCEPT !.open = TRUE, !.gen = g, !.unsent = << >>, !.wake = TRUE]]
      /\ wire' = [wire EXCEPT ![c][g] = tab[c].unsent]
      /\ UNCHANGED <<db, waiting, handler, overlay, base, news, answers, exec, claims, effects,
                     row, outcome, refused, swept, left>>
  BY <1>1, <1>3 DEF Open
<1>5. LET u == [t EXCEPT !.open = TRUE, !.gen = g, !.unsent = << >>, !.wake = TRUE]
      IN  u \in TabType /\ u.unsent = << >> /\ u.settling = t.settling /\ u.mem = t.mem /\ u.drain = t.drain
  <2>1. g \in 0 .. MaxConns /\ << >> \in Seq(Key)
    BY EmptySeq, ConstantsAssumption DEF Gen
  <2> QED BY <2>1 DEF TabType
<1>6. PICK u \in TabType : /\ u = [t EXCEPT !.open = TRUE, !.gen = g, !.unsent = << >>, !.wake = TRUE]
                           /\ u.unsent = << >> /\ u.settling = t.settling
                           /\ u.mem = t.mem /\ u.drain = t.drain
  BY <1>5
<1>7. TabGood(u)
  BY <1>2, <1>6 DEF TabGood
<1>8. tab' = [tab EXCEPT ![c] = u]
  BY <1>4, <1>6
<1>9. tab' \in [Client -> TabType] /\ TabInv' /\ \A d \in Client : tab'[d] = IF d = c THEN u ELSE tab[d]
  BY <1>4, <1>7, <1>8, TabsStay
<1>10. t.unsent \in Seq(Key)
  BY DEF TabType
<1>11. wire' \in [Client -> [Gen -> Seq(Key)]]
  BY <1>1, <1>4, <1>10 DEF DeliveryInv, TypeOK
<1>12. TypeOK'
  BY <1>4, <1>9, <1>11 DEF DeliveryInv, TypeOK
<1>13. EntryInv'
  BY <1>4 DEF DeliveryInv, EntryInv, Due
<1>14. ViewInv' /\ OutcomeInv'
  BY <1>4 DEF DeliveryInv, ViewInv, OutcomeInv
<1>15. CallInv'
  BY <1>1, <1>4, <1>6, <1>9, CallsStay DEF DeliveryInv
<1>16. Later
  BY <1>4, SameIsLater DEF DeliveryInv, TypeOK
<1>17. AnswerInv'
  BY <1>4, <1>16, AnswerFrame DEF DeliveryInv
<1>18. ClaimInv'
  BY <1>4, ServerFrame DEF DeliveryInv
<1>19. SingleInv'
  <2>1. \A d \in Client, h \in Gen : wire'[d][h] = IF d = c /\ h = g THEN t.unsent ELSE wire[d][h]
    BY <1>1, <1>4 DEF DeliveryInv, TypeOK
  <2>2. \A d \in Client, k \in Key : Unsent(d, k)' <=> (d # c /\ Unsent(d, k))
    BY <1>6, <1>9, EmptyHolds DEF Unsent
  <2>3. \A d \in Client, h \in Gen, k \in Key :
           Travels(d, h, k)' <=> IF d = c /\ h = g THEN Unsent(c, k) ELSE Travels(d, h, k)
    BY <1>1, <2>1 DEF Unsent, Travels
  <2>4. \A d \in Client, h \in Gen, k \in Key : Runs(d, h, k)' <=> Runs(d, h, k)
    BY <1>4 DEF Runs
  <2>5. \A d \in Client, h \in Gen, k \in Key \ Managed : Once(tab'[d].unsent, k) /\ Once(wire'[d][h], k)
    BY <1>1, <1>6, <1>9, <2>1, EmptyHolds, ZenonT(60) DEF DeliveryInv, SingleInv
  <2>6. \A d \in Client, h \in Gen, k \in Key \ Managed : Once(tab[d].unsent, k)' /\ Once(wire[d][h], k)'
    BY <2>5 DEF Once
  <2>7. \A d, e \in Client, h, i \in Gen, k \in Key \ Managed :
          /\ Unsent(d, k) /\ Unsent(e, k) => d = e
          /\ Unsent(d, k) => ~Travels(e, h, k) /\ ~Runs(e, h, k)
          /\ Travels(d, h, k) /\ Travels(e, i, k) => d = e /\ h = i
          /\ Travels(d, h, k) => ~Runs(e, i, k)
          /\ Runs(d, h, k) /\ Runs(e, i, k) => d = e /\ h = i
          /\ outcome[k] = "none" \/ effects[k] > 0
                => ~Unsent(d, k) /\ ~Travels(d, h, k) /\ ~Runs(d, h, k)
    BY DEF DeliveryInv, SingleInv
  <2>8. \A d, e \in Client, h, i \in Gen, k \in Key \ Managed :
          /\ Unsent(d, k)' /\ Unsent(e, k)' => d = e
          /\ Unsent(d, k)' => ~Travels(e, h, k)' /\ ~Runs(e, h, k)'
          /\ Travels(d, h, k)' /\ Travels(e, i, k)' => d = e /\ h = i
          /\ Travels(d, h, k)' => ~Runs(e, i, k)'
          /\ Runs(d, h, k)' /\ Runs(e, i, k)' => d = e /\ h = i
          /\ outcome'[k] = "none" \/ effects'[k] > 0
                => ~Unsent(d, k)' /\ ~Travels(d, h, k)' /\ ~Runs(d, h, k)'
    BY <1>4, <2>2, <2>3, <2>4, <2>7
  <2>9. \A k \in Key \ Managed : effects'[k] <= 1 /\ (effects'[k] > 0 => outcome'[k] # "none")
    BY <1>4 DEF DeliveryInv, SingleInv
  <2> QED BY <2>6, <2>8, <2>9 DEF SingleInv
<1> QED BY <1>9, <1>12, <1>13, <1>14, <1>15, <1>17, <1>18, <1>19 DEF DeliveryInv

\* What Elapsed is.
LEMMA ElapsedIs ==
    ASSUME NEW e \in [Key -> EntryState], NEW k \in Key
    PROVE  /\ Elapsed(e, k) \in [Key -> EntryState]
           /\ \A j \in Key : /\ Elapsed(e, k)[j] = "none" <=> e[j] = "none"
                             /\ Elapsed(e, k)[j] = "committed" <=> e[j] = "committed"
  BY DEF Elapsed, EntryState

\* BackoffElapses keeps the invariant.
LEMMA BackoffElapsesKeeps ==
    ASSUME DeliveryInv, NEW k \in Key, BackoffElapses(k)
    PROVE  DeliveryInv'
<1>1. /\ db' = Elapsed(db, k)
      /\ tab' = [c \in Client |-> [tab[c] EXCEPT !.mem = Elapsed(@, k)]]
      /\ UNCHANGED <<waiting, handler, overlay, base, news, wire, answers, exec, claims, effects, row,
                     outcome, refused, swept, left>>
  BY DEF BackoffElapses
<1>2. \A t \in TabType, m \in [Key -> EntryState] :
        LET u == [t EXCEPT !.mem = m]
        IN  /\ u \in TabType /\ u.mem = m /\ u.drain = t.drain
            /\ u.settling = t.settling /\ u.unsent = t.unsent
  BY DEF TabType
<1>3. \A c \in Client : /\ tab[c] \in TabType /\ tab[c].mem \in [Key -> EntryState]
                        /\ tab'[c] = [tab[c] EXCEPT !.mem = Elapsed(tab[c].mem, k)]
  BY <1>1 DEF DeliveryInv, TypeOK, TabType
<1>4. \A c \in Client : Elapsed(tab[c].mem, k) \in [Key -> EntryState]
  BY <1>3, ElapsedIs
<1>5. \A c \in Client : /\ tab'[c] \in TabType /\ tab'[c].mem = Elapsed(tab[c].mem, k)
                        /\ tab'[c].drain = tab[c].drain
                        /\ tab'[c].settling = tab[c].settling /\ tab'[c].unsent = tab[c].unsent
  <2> SUFFICES ASSUME NEW c \in Client
               PROVE  /\ tab'[c] \in TabType /\ tab'[c].mem = Elapsed(tab[c].mem, k)
                      /\ tab'[c].drain = tab[c].drain
                      /\ tab'[c].settling = tab[c].settling /\ tab'[c].unsent = tab[c].unsent
    OBVIOUS
  <2>1. PICK t \in TabType : t = tab[c]
    BY <1>3
  <2>2. PICK m \in [Key -> EntryState] : m = Elapsed(tab[c].mem, k)
    BY <1>4
  <2>3. tab'[c] = [t EXCEPT !.mem = m]
    BY <1>3, <2>1, <2>2
  <2> QED BY <1>2, <2>1, <2>2, <2>3
<1>6. db \in [Key -> EntryState]
  BY DEF DeliveryInv, TypeOK
<1>7. /\ db' \in [Key -> EntryState]
      /\ \A j \in Key : (db'[j] = "none" <=> db[j] = "none") /\ (db'[j] = "committed" <=> db[j] = "committed")
  BY <1>1, <1>6, ElapsedIs
<1>8. TypeOK'
  BY <1>1, <1>5, <1>7 DEF DeliveryInv, TypeOK
<1>9. EntryInv'
  BY <1>1, <1>7 DEF DeliveryInv, EntryInv, Due
<1>10. TabInv'
  <2> SUFFICES ASSUME NEW c \in Client PROVE TabGood(tab[c])'
    BY DEF TabInv
  <2>1. TabGood(tab[c])
    BY DEF DeliveryInv, TabInv
  <2>2. \A j \in Key : /\ tab'[c].mem[j] = "none" <=> tab[c].mem[j] = "none"
                       /\ tab'[c].mem[j] = "committed" <=> tab[c].mem[j] = "committed"
    <3>1. PICK e \in [Key -> EntryState] : e = tab[c].mem
      BY <1>3
    <3>2. \A j \in Key : /\ Elapsed(e, k)[j] = "none" <=> e[j] = "none"
                         /\ Elapsed(e, k)[j] = "committed" <=> e[j] = "committed"
      BY ElapsedIs
    <3>3. tab'[c].mem = Elapsed(e, k)
      BY <1>5, <3>1
    <3> QED BY <3>1, <3>2, <3>3
  <2> QED BY <1>1, <1>5, <2>1, <2>2 DEF TabGood
<1>11. ViewInv' /\ OutcomeInv'
  BY <1>1 DEF DeliveryInv, ViewInv, OutcomeInv
<1>12. CallInv'
  BY <1>1, <1>5, CallsStay DEF DeliveryInv
<1>13. Later
  BY <1>1, SameIsLater DEF DeliveryInv, TypeOK
<1>14. AnswerInv'
  BY <1>1, <1>13, AnswerFrame DEF DeliveryInv
<1>15. ClaimInv'
  BY <1>1, ServerFrame DEF DeliveryInv
<1>16. SingleInv'
  BY <1>1, <1>5, SingleFrame DEF DeliveryInv
<1> QED BY <1>8, <1>9, <1>10, <1>11, <1>12, <1>14, <1>15, <1>16 DEF DeliveryInv

\* A step that only takes callers away keeps what is known of the calls.
LEMMA CallsShrink ==
    ASSUME CallInv,
           \A c \in Client, k \in Key :
              /\ \A w \in Who : /\ w \in waiting'[c][k] => w \in waiting[c][k]
                                /\ handler'[c][k] = w => w \in waiting'[c][k]
              /\ <<k, "direct">> \in tab'[c].settling => <<k, "direct">> \in tab[c].settling
              /\ Direct(c, k)' => outcome'[k] = outcome[k]
    PROVE  CallInv'
<1>1. \A c \in Client, k \in Key : Direct(c, k)' => Direct(c, k)
  BY DEF Direct, Who
<1> QED BY <1>1 DEF CallInv, Who

\* Reload keeps the invariant.
LEMMA ReloadKeeps ==
    ASSUME DeliveryInv, NEW c \in Client, Reload(c)
    PROVE  DeliveryInv'
<1>1. PICK t \in TabType : t = tab[c]
  BY DEF DeliveryInv, TypeOK
<1>2. /\ tab' = [tab EXCEPT ![c] = [NewTab EXCEPT !.gen = t.gen, !.dead = t.dead]]
      /\ waiting' = [waiting EXCEPT ![c] = [k \in Key |-> {}]]
      /\ handler' = [handler EXCEPT ![c] = [k \in Key |-> "none"]]
      /\ overlay' = [overlay EXCEPT ![c] = [k \in Key |-> Hidden]]
      /\ news' = [news EXCEPT ![c] = [s \in Source |-> {}]]
      /\ answers' = [answers EXCEPT ![c] = << >>]
      /\ UNCHANGED <<db, base, wire, exec, claims, effects, row, outcome, refused, swept>>
      /\ Fault("reload")
  BY <1>1 DEF Reload
<1>3. LET u == [NewTab EXCEPT !.gen = t.gen, !.dead = t.dead]
      IN  u \in TabType /\ u.unsent = << >> /\ u.settling = {} /\ u.mem = NoEntries /\ u.drain = 0
  BY EmptySeq DEF TabType, NewTab, NoEntries, EntryState
<1>4. PICK u \in TabType : /\ u = [NewTab EXCEPT !.gen = t.gen, !.dead = t.dead]
                           /\ u.unsent = << >> /\ u.settling = {} /\ u.mem = NoEntries /\ u.drain = 0
  BY <1>3
<1>5. TabGood(u)
  BY <1>4, ConstantsAssumption DEF TabGood, NoEntries, Key
<1>6. tab' = [tab EXCEPT ![c] = u]
  BY <1>2, <1>4
<1>7. tab' \in [Client -> TabType] /\ TabInv' /\ \A d \in Client : tab'[d] = IF d = c THEN u ELSE tab[d]
  BY <1>2, <1>5, <1>6, TabsStay
<1>8. left' \in 0 .. MaxFaults
  BY <1>2, FaultsStay DEF DeliveryInv
<1>9. /\ waiting' \in [Client -> [Key -> SUBSET Who]]
      /\ handler' \in [Client -> [Key -> Who \cup {"none"}]]
      /\ news' \in [Client -> [Source -> SUBSET Key]]
  BY <1>2 DEF DeliveryInv, TypeOK
<1>10. [k \in Key |-> Hidden] \in [Key -> OverlayType]
  BY DEF Hidden, OverlayType
<1>11. overlay' \in [Client -> [Key -> OverlayType]]
  BY <1>2, <1>10 DEF DeliveryInv, TypeOK
<1>12. answers' \in [Client -> Seq([key : Key, ok : BOOLEAN])]
  BY <1>2, EmptySeq DEF DeliveryInv, TypeOK
<1>13. TypeOK'
  BY <1>2, <1>7, <1>8, <1>9, <1>11, <1>12 DEF DeliveryInv, TypeOK
<1>14. EntryInv'
  BY <1>2 DEF DeliveryInv, EntryInv, Due
<1>15. OutcomeInv'
  BY <1>2 DEF DeliveryInv, OutcomeInv
<1>16. ViewInv'
  <2>1. \A d \in Client, k \in Key : overlay'[d][k] = IF d = c THEN Hidden ELSE overlay[d][k]
    BY <1>2 DEF DeliveryInv, TypeOK
  <2> QED BY <1>2, <2>1 DEF DeliveryInv, ViewInv, Hidden
<1>17. CallInv'
  <2>1. \A d \in Client, k \in Key :
          /\ waiting'[d][k] = IF d = c THEN {} ELSE waiting[d][k]
          /\ handler'[d][k] = IF d = c THEN "none" ELSE handler[d][k]
    BY <1>2 DEF DeliveryInv, TypeOK
  <2> QED BY <1>2, <1>4, <1>7, <2>1, CallsShrink DEF DeliveryInv, CallInv, Who
<1>18. AnswerInv'
  <2>1. \A d \in Client : answers'[d] = IF d = c THEN << >> ELSE answers[d]
    BY <1>2 DEF DeliveryInv, TypeOK
  <2> QED BY <1>2, <2>1, EmptySeq DEF DeliveryInv, AnswerInv
<1>19. ClaimInv'
  BY <1>2, ServerFrame DEF DeliveryInv
<1>20. SingleInv'
  <2>1. \A d \in Client, h \in Gen, k \in Key :
           /\ Unsent(d, k)' => Unsent(d, k)
           /\ Once(tab[d].unsent, k) => Once(tab'[d].unsent, k)
           /\ (Travels(d, h, k)' <=> Travels(d, h, k)) /\ (Runs(d, h, k)' <=> Runs(d, h, k))
           /\ Once(wire'[d][h], k) <=> Once(wire[d][h], k)
    BY <1>2, <1>4, <1>7, EmptyHolds DEF Unsent, Travels, Runs
  <2>2. \A k \in Key \ Managed : effects'[k] <= 1 /\ (effects'[k] > 0 => outcome'[k] # "none")
    BY <1>2 DEF DeliveryInv, SingleInv
  <2> QED BY <1>2, <2>1, <2>2, SingleShrinks DEF DeliveryInv
<1> QED BY <1>7, <1>13, <1>14, <1>15, <1>16, <1>17, <1>18, <1>19, <1>20 DEF DeliveryInv

\* RestoreOutbox keeps the invariant.
LEMMA RestoreOutboxKeeps ==
    ASSUME DeliveryInv, NEW c \in Client, RestoreOutbox(c)
    PROVE  DeliveryInv'
<1>1. PICK t \in TabType : t = tab[c]
  BY DEF DeliveryInv, TypeOK
<1>2. TabGood(t)
  BY <1>1 DEF DeliveryInv, TabInv
<1>3. PICK e : e = [k \in Key |-> IF db[k] = "inflight" THEN "pending"
                                  ELSE IF db[k] = "committed" /\ k \notin Optimistic THEN "none"
                                  ELSE db[k]]
  OBVIOUS
<1>4. db \in [Key -> EntryState]
  BY DEF DeliveryInv, TypeOK
<1>5. /\ e \in [Key -> EntryState]
      /\ \A k \in Key : /\ e[k] = "committed" => effects[k] > 0
                        /\ e[k] # "none" => k \in Managed
                        /\ Due(k) => e[k] # "none"
  <2>1. e \in [Key -> EntryState]
    BY <1>3, <1>4 DEF EntryState
  <2>2. \A k \in Key : /\ e[k] = "committed" => db[k] = "committed"
                       /\ e[k] # "none" => db[k] # "none"
                       /\ e[k] = "none" => db[k] = "none" \/ db[k] = "committed"
    BY <1>3
  <2>3. \A k \in Key : Due(k) => ~(effects[k] > 0)
    BY DEF Due
  <2> QED BY <2>1, <2>2, <2>3 DEF DeliveryInv, EntryInv
<1>6. PICK next \in Key \cup {0} :
        /\ db' = e
        /\ tab' = [tab EXCEPT ![c] = [t EXCEPT !.mem = e, !.loaded = TRUE, !.timer = next, !.wake = TRUE]]
        /\ overlay' = [overlay EXCEPT ![c] = [k \in Key |->
                   IF k \notin Optimistic \/ e[k] = "none" THEN Hidden
                   ELSE Shown(c, IF e[k] = "committed" THEN "accepted" ELSE "shown")]]
  BY <1>1, <1>3 DEF RestoreOutbox
<1>7. UNCHANGED <<waiting, handler, base, news, wire, answers, exec, claims, effects, row, outcome,
                  refused, swept, left>>
  BY DEF RestoreOutbox
<1>8. LET u == [t EXCEPT !.mem = e, !.loaded = TRUE, !.timer = next, !.wake = TRUE]
      IN  u \in TabType /\ u.unsent = t.unsent /\ u.settling = t.settling /\ u.mem = e /\ u.drain = t.drain
  BY <1>5 DEF TabType
<1>9. PICK u \in TabType : /\ u = [t EXCEPT !.mem = e, !.loaded = TRUE, !.timer = next, !.wake = TRUE]
                           /\ u.unsent = t.unsent /\ u.settling = t.settling /\ u.mem = e /\ u.drain = t.drain
  BY <1>8
<1>10. TabGood(u)
  BY <1>2, <1>5, <1>9 DEF TabGood
<1>11. tab' = [tab EXCEPT ![c] = u]
  BY <1>6, <1>9
<1>12. tab' \in [Client -> TabType] /\ TabInv' /\ \A d \in Client : tab'[d] = IF d = c THEN u ELSE tab[d]
  BY <1>7, <1>10, <1>11, TabsStay
<1>13. PICK o : o = [k \in Key |-> IF k \notin Optimistic \/ e[k] = "none" THEN Hidden
                                   ELSE Shown(c, IF e[k] = "committed" THEN "accepted" ELSE "shown")]
  OBVIOUS
<1>14. o \in [Key -> OverlayType] /\ \A k \in Key : o[k].state = "accepted" => e[k] = "committed"
  <2>1. t.live \in SUBSET Source
    BY DEF TabType
  <2>2. \A k \in Key : Shown(c, IF e[k] = "committed" THEN "accepted" ELSE "shown") \in OverlayType
    BY <1>1, <2>1 DEF Shown, OverlayType
  <2>3. Hidden \in OverlayType /\ Hidden.state = "none"
    BY DEF Hidden, OverlayType
  <2>4. \A k \in Key : Shown(c, IF e[k] = "committed" THEN "accepted" ELSE "shown").state
                        = IF e[k] = "committed" THEN "accepted" ELSE "shown"
    BY DEF Shown
  <2> QED BY <1>13, <2>2, <2>3, <2>4
<1>15. /\ overlay' \in [Client -> [Key -> OverlayType]]
       /\ \A d \in Client : overlay'[d] = IF d = c THEN o ELSE overlay[d]
  BY <1>6, <1>13, <1>14 DEF DeliveryInv, TypeOK
<1>16. TypeOK'
  BY <1>5, <1>6, <1>7, <1>12, <1>15 DEF DeliveryInv, TypeOK
<1>17. EntryInv'
  <2>1. \A k \in Key : Due(k)' <=> Due(k)
    BY <1>7 DEF Due
  <2> QED BY <1>5, <1>6, <1>7, <2>1 DEF EntryInv
<1>18. OutcomeInv'
  BY <1>7 DEF DeliveryInv, OutcomeInv
<1>19. ViewInv'
  BY <1>5, <1>7, <1>14, <1>15 DEF DeliveryInv, ViewInv
<1>20. CallInv'
  BY <1>1, <1>7, <1>9, <1>12, CallsStay DEF DeliveryInv
<1>21. Later
  BY <1>7, SameIsLater DEF DeliveryInv, TypeOK
<1>22. AnswerInv'
  BY <1>7, <1>21, AnswerFrame DEF DeliveryInv
<1>23. ClaimInv'
  BY <1>7, ServerFrame DEF DeliveryInv
<1>24. SingleInv'
  BY <1>1, <1>7, <1>9, <1>12, SingleFrame DEF DeliveryInv
<1> QED BY <1>12, <1>16, <1>17, <1>18, <1>19, <1>20, <1>22, <1>23, <1>24 DEF DeliveryInv

\* Calls that fail in transport: their callers are told what is true, and an
\* entry leaves the outbox only when the write may not be queued.
LEMMA FailedKeeps ==
    ASSUME DeliveryInv, NEW c \in Client, NEW t \in TabType, TabGood(t),
           t.settling = tab[c].settling,
           NEW D \in SUBSET Key, NEW E \in SUBSET Key,
           \A k \in D : "direct" \in waiting[c][k],
           Failed(c, t, D, E), UNCHANGED <<effects, refused>>
    PROVE  /\ db' \in [Key -> EntryState] /\ EntryInv'
           /\ tab' \in [Client -> TabType] /\ TabInv'
           /\ \A d \in Client : tab'[d].unsent = IF d = c THEN t.unsent ELSE tab[d].unsent
           /\ waiting' \in [Client -> [Key -> SUBSET Who]]
           /\ handler' \in [Client -> [Key -> Who \cup {"none"}]] /\ CallInv'
           /\ overlay' \in [Client -> [Key -> OverlayType]] /\ ViewInv'
           /\ outcome' \in [Key -> {"none", "waiting", "queued", "ok", "unknown", "rejected"}]
           /\ OutcomeInv' /\ \A k \in Key : outcome'[k] = "none" => outcome[k] = "none"
<1>1. PICK over : over = (D \cap Managed) \ Queueable
  OBVIOUS
<1>2. PICK new : new = [k \in {j \in (D \cap Queueable) \cup E \cup over : Entries(c)[j] # "none"} |->
                          IF k \in over THEN "none" ELSE "backoff"]
  OBVIOUS
<1>3. /\ waiting' = [waiting EXCEPT ![c] = [k \in Key |->
                @[k] \ ((IF k \in D THEN {"direct"} ELSE {}) \cup (IF k \in E THEN {"drain"} ELSE {}))]]
      /\ handler' = [handler EXCEPT ![c] = [k \in Key |-> IF k \in D \cup E THEN "none" ELSE @[k]]]
      /\ outcome' = [k \in Key |-> IF k \notin D THEN outcome[k]
                                   ELSE IF k \in Queueable THEN "queued" ELSE "unknown"]
      /\ overlay' = [overlay EXCEPT ![c] = Drop(@, over)]
      /\ PutDB(c, new)
      /\ tab' = [tab EXCEPT ![c] =
               [t EXCEPT !.mem = Merged(new, @), !.wake = @ \/ DOMAIN new # {},
                         !.timer = IF E = {} THEN @ ELSE CHOOSE k \in E : TRUE,
                         !.drain = IF E = {} THEN @ ELSE 0]]
  BY <1>1, <1>2 DEF Failed
<1>4. GoodNew(new) /\ \A k \in DOMAIN new : new[k] = "none" => k \notin Queueable
  BY <1>1, <1>2, EntriesGood DEF GoodNew, EntryState
<1>5. \A k \in Key : outcome'[k] = IF k \notin D THEN outcome[k]
                                   ELSE IF k \in Queueable THEN "queued" ELSE "unknown"
  BY <1>3
<1>6. \A k \in D : outcome[k] = "waiting" /\ <<k, "direct">> \notin tab[c].settling
  BY DEF DeliveryInv, CallInv, Direct
<1>7. \A k \in Key : Due(k)' => Due(k)
  BY <1>5, <1>6 DEF Due
<1>8. db' \in [Key -> EntryState] /\ EntryInv'
  <2>1. \A k \in Key : Due(k)' => Due(k) /\ (k \in DOMAIN new /\ new[k] = "none" => tab[c].memoryOnly)
    BY <1>4, <1>7 DEF Due
  <2> QED BY <1>3, <1>4, <2>1, EntriesStay
<1>9. PICK m \in [Key -> EntryState], wk \in BOOLEAN, q \in Key \cup {0}, f \in Key \cup {0, -1} :
        /\ m = Merged(new, t.mem) /\ wk = (t.wake \/ DOMAIN new # {})
        /\ q = IF E = {} THEN t.timer ELSE CHOOSE k \in E : TRUE
        /\ f = IF E = {} THEN t.drain ELSE 0
  <2>1. t.mem \in [Key -> EntryState] /\ t.timer \in Key \cup {0} /\ t.drain \in Key \cup {0, -1}
    BY DEF TabType
  <2>2. Merged(new, t.mem) \in [Key -> EntryState]
    BY <1>4, <2>1, MergedIs
  <2>3. E # {} => (CHOOSE k \in E : TRUE) \in Key
    OBVIOUS
  <2>4. (t.wake \/ DOMAIN new # {}) \in BOOLEAN
    OBVIOUS
  <2> QED BY <2>1, <2>2, <2>3, <2>4
<1>10. LET u == [t EXCEPT !.mem = m, !.wake = wk, !.timer = q, !.drain = f]
       IN  u \in TabType /\ u.unsent = t.unsent /\ u.settling = t.settling /\ u.mem = m /\ u.drain = f
  BY DEF TabType
<1>11. PICK u \in TabType : /\ u = [t EXCEPT !.mem = m, !.wake = wk, !.timer = q, !.drain = f]
                            /\ u.unsent = t.unsent /\ u.settling = t.settling /\ u.mem = m /\ u.drain = f
  BY <1>10
<1>12. tab' = [tab EXCEPT ![c] = u]
  BY <1>3, <1>9, <1>11
<1>13. TabGood(u)
  <2>1. \A k \in Key : m[k] = IF k \in DOMAIN new THEN new[k] ELSE t.mem[k]
    BY <1>4, <1>9, MergedIs DEF TabType
  <2>2. f \in Key => f = t.drain
    BY <1>9, ConstantsAssumption DEF Key
  <2> QED BY <1>4, <1>11, <2>1, <2>2 DEF TabGood, GoodNew
<1>14. tab' \in [Client -> TabType] /\ TabInv' /\ \A d \in Client : tab'[d] = IF d = c THEN u ELSE tab[d]
  BY <1>12, <1>13, TabsStay
<1>15. /\ waiting' \in [Client -> [Key -> SUBSET Who]]
       /\ handler' \in [Client -> [Key -> Who \cup {"none"}]]
  BY <1>3 DEF DeliveryInv, TypeOK
<1>16. \A d \in Client, k \in Key :
         /\ waiting'[d][k] = IF d = c
                 THEN waiting[c][k] \ ((IF k \in D THEN {"direct"} ELSE {}) \cup (IF k \in E THEN {"drain"} ELSE {}))
                 ELSE waiting[d][k]
         /\ handler'[d][k] = IF d = c /\ k \in D \cup E THEN "none" ELSE handler[d][k]
  BY <1>3 DEF DeliveryInv, TypeOK
<1>17. CallInv'
  <2>1. \A d \in Client : tab'[d].settling = tab[d].settling
    BY <1>11, <1>14
  <2>2. \A d \in Client, k \in Key : Direct(d, k)' => Direct(d, k)
    BY <1>16, <2>1 DEF Direct
  <2>3. \A d \in Client, k \in D : ~Direct(d, k)'
    <3>1. \A k \in D : ~Direct(c, k)'
      BY <1>6, <1>16, <2>1 DEF Direct
    <3>2. \A d \in Client, k \in D : d # c => ~Direct(d, k)
      BY DEF DeliveryInv, CallInv, Direct
    <3> QED BY <2>2, <3>1, <3>2
  <2>4. \A d \in Client, k \in Key, w \in Who :
          /\ w \in waiting'[d][k] => w \in waiting[d][k]
          /\ handler'[d][k] = w => w \in waiting'[d][k]
    <3> SUFFICES ASSUME NEW d \in Client, NEW k \in Key, NEW w \in Who
                 PROVE  /\ w \in waiting'[d][k] => w \in waiting[d][k]
                        /\ handler'[d][k] = w => w \in waiting'[d][k]
      OBVIOUS
    <3>1. handler[d][k] = w => w \in waiting[d][k]
      BY DEF DeliveryInv, CallInv
    <3>2. w \in waiting'[d][k] => w \in waiting[d][k]
      BY <1>16
    <3>3. CASE d = c /\ k \in D \cup E
      BY <1>16, <3>2, <3>3 DEF Who
    <3>4. CASE ~(d = c /\ k \in D \cup E)
      BY <1>16, <3>1, <3>2, <3>4
    <3> QED BY <3>3, <3>4
  <2> QED BY <1>5, <2>1, <2>3, <2>4, CallsShrink DEF DeliveryInv
<1>18. outcome' \in [Key -> {"none", "waiting", "queued", "ok", "unknown", "rejected"}]
  BY <1>3 DEF DeliveryInv, TypeOK
<1>19. OutcomeInv' /\ \A k \in Key : outcome'[k] = "none" => outcome[k] = "none"
  BY <1>5 DEF DeliveryInv, OutcomeInv
<1>20. overlay' \in [Client -> [Key -> OverlayType]] /\ ViewInv'
  <2>1. Hidden \in OverlayType /\ Hidden.state = "none"
    BY DEF Hidden, OverlayType
  <2>2. /\ Drop(overlay[c], over) \in [Key -> OverlayType]
        /\ \A k \in Key : Drop(overlay[c], over)[k].state = "accepted" => overlay[c][k].state = "accepted"
    BY <2>1 DEF Drop, DeliveryInv, TypeOK
  <2>3. overlay' \in [Client -> [Key -> OverlayType]] /\
        \A d \in Client : overlay'[d] = IF d = c THEN Drop(overlay[c], over) ELSE overlay[d]
    BY <1>3, <2>2 DEF DeliveryInv, TypeOK
  <2> QED BY <2>2, <2>3 DEF DeliveryInv, ViewInv
<1> QED BY <1>8, <1>11, <1>14, <1>15, <1>17, <1>18, <1>19, <1>20

\* CallTimesOut keeps the invariant.
LEMMA CallTimesOutKeeps ==
    ASSUME DeliveryInv, NEW c \in Client, NEW k \in Key, NEW w \in Who, CallTimesOut(c, k, w)
    PROVE  DeliveryInv'
<1>1. PICK t \in TabType : t = tab[c]
  BY DEF DeliveryInv, TypeOK
<1>2. TabGood(t)
  BY <1>1 DEF DeliveryInv, TabInv
<1>3. PICK D \in SUBSET Key, E \in SUBSET Key :
         D = {j \in {k} : w = "direct"} /\ E = {j \in {k} : w = "drain"}
  OBVIOUS
<1>4. /\ w \in waiting[c][k] /\ Failed(c, t, D, E)
      /\ UNCHANGED left \/ Fault("slow")
      /\ UNCHANGED <<base, news, wire, answers, exec, claims, effects, row, refused, swept>>
  BY <1>1, <1>3 DEF CallTimesOut
<1>5. \A j \in D : "direct" \in waiting[c][j]
  BY <1>3, <1>4
<1>6. /\ db' \in [Key -> EntryState] /\ EntryInv'
      /\ tab' \in [Client -> TabType] /\ TabInv'
      /\ \A d \in Client : tab'[d].unsent = IF d = c THEN t.unsent ELSE tab[d].unsent
      /\ waiting' \in [Client -> [Key -> SUBSET Who]]
      /\ handler' \in [Client -> [Key -> Who \cup {"none"}]] /\ CallInv'
      /\ overlay' \in [Client -> [Key -> OverlayType]] /\ ViewInv'
      /\ outcome' \in [Key -> {"none", "waiting", "queued", "ok", "unknown", "rejected"}]
      /\ OutcomeInv' /\ \A j \in Key : outcome'[j] = "none" => outcome[j] = "none"
  BY <1>1, <1>2, <1>4, <1>5, FailedKeeps
<1>7. left' \in 0 .. MaxFaults
  BY <1>4, FaultsStay DEF DeliveryInv, TypeOK
<1>8. TypeOK'
  BY <1>4, <1>6, <1>7 DEF DeliveryInv, TypeOK
<1>9. Later
  BY <1>4, SameIsLater DEF DeliveryInv, TypeOK
<1>10. AnswerInv'
  BY <1>4, <1>9, AnswerFrame DEF DeliveryInv
<1>11. ClaimInv'
  BY <1>4, ServerFrame DEF DeliveryInv
<1>12. SingleInv'
  BY <1>1, <1>4, <1>6, SingleFrame DEF DeliveryInv
<1> QED BY <1>6, <1>8, <1>10, <1>11, <1>12 DEF DeliveryInv

\* Disconnect keeps the invariant.
LEMMA DisconnectKeeps ==
    ASSUME DeliveryInv, NEW c \in Client, Disconnect(c)
    PROVE  DeliveryInv'
<1>1. PICK t \in TabType : t = tab[c]
  BY DEF DeliveryInv, TypeOK
<1>2. PICK D \in SUBSET Key, E \in SUBSET Key :
         D = {k \in Key : handler[c][k] = "direct"} /\ E = {k \in Key : handler[c][k] = "drain"}
  OBVIOUS
<1>3. LET u == [t EXCEPT !.open = FALSE, !.unsent = << >>]
      IN  u \in TabType /\ u.unsent = << >> /\ u.settling = t.settling /\ u.mem = t.mem /\ u.drain = t.drain
  BY EmptySeq DEF TabType
<1>4. PICK u \in TabType : /\ u = [t EXCEPT !.open = FALSE, !.unsent = << >>]
                           /\ u.unsent = << >> /\ u.settling = t.settling /\ u.mem = t.mem /\ u.drain = t.drain
  BY <1>3
<1>5. TabGood(u)
  BY <1>1, <1>4 DEF DeliveryInv, TabInv, TabGood
<1>6. /\ answers' = [answers EXCEPT ![c] = << >>] /\ Failed(c, u, D, E)
      /\ UNCHANGED <<base, news, exec, claims, effects, row, refused, swept, left>>
  BY <1>1, <1>2, <1>4 DEF Disconnect
<1>7. \A j \in D : "direct" \in waiting[c][j]
  BY <1>2 DEF DeliveryInv, CallInv, Who
<1>8. /\ db' \in [Key -> EntryState] /\ EntryInv'
      /\ tab' \in [Client -> TabType] /\ TabInv'
      /\ \A d \in Client : tab'[d].unsent = IF d = c THEN << >> ELSE tab[d].unsent
      /\ waiting' \in [Client -> [Key -> SUBSET Who]]
      /\ handler' \in [Client -> [Key -> Who \cup {"none"}]] /\ CallInv'
      /\ overlay' \in [Client -> [Key -> OverlayType]] /\ ViewInv'
      /\ outcome' \in [Key -> {"none", "waiting", "queued", "ok", "unknown", "rejected"}]
      /\ OutcomeInv' /\ \A j \in Key : outcome'[j] = "none" => outcome[j] = "none"
  BY <1>1, <1>4, <1>5, <1>6, <1>7, FailedKeeps
<1>9. PICK g : g = t.gen
  OBVIOUS
<1>10. PICK n \in 0 .. Len(wire[c][g]) : wire' = [wire EXCEPT ![c][g] = SubSeq(@, 1, n)]
  BY <1>1, <1>9 DEF Disconnect
<1>11. \A d \in Client, h \in Gen :
          wire'[d][h] = IF d = c /\ h = g THEN SubSeq(wire[c][g], 1, n) ELSE wire[d][h]
  BY <1>10 DEF DeliveryInv, TypeOK
<1>12. \A d \in Client, h \in Gen :
          /\ wire'[d][h] \in Seq(Key)
          /\ \A k \in Key : (In(wire'[d][h], k) => In(wire[d][h], k)) /\ (Once(wire[d][h], k) => Once(wire'[d][h], k))
  <2> SUFFICES ASSUME NEW d \in Client, NEW h \in Gen
               PROVE  /\ wire'[d][h] \in Seq(Key)
                      /\ \A k \in Key : (In(wire'[d][h], k) => In(wire[d][h], k)) /\ (Once(wire[d][h], k) => Once(wire'[d][h], k))
    OBVIOUS
  <2>1. PICK s \in Seq(Key) : s = wire[d][h]
    BY DEF DeliveryInv, TypeOK
  <2>2. CASE d = c /\ h = g
    <3>1. n \in 0 .. Len(s) /\ wire'[d][h] = SubSeq(s, 1, n)
      BY <1>10, <1>11, <2>1, <2>2
    <3>2. SubSeq(s, 1, n) \in Seq(Key) /\
          \A k \in Key : (In(SubSeq(s, 1, n), k) => In(s, k)) /\ (Once(s, k) => Once(SubSeq(s, 1, n), k))
      BY <3>1, PrefixKeeps
    <3> QED BY <2>1, <3>1, <3>2
  <2>3. CASE ~(d = c /\ h = g)
    BY <1>11, <2>1, <2>3
  <2> QED BY <2>2, <2>3
<1>13. wire' \in [Client -> [Gen -> Seq(Key)]]
  <2>1. wire' = [wire EXCEPT ![c] = wire'[c]] /\ wire'[c] = [wire[c] EXCEPT ![g] = SubSeq(@, 1, n)]
    BY <1>10 DEF DeliveryInv, TypeOK
  <2>2. wire'[c] \in [Gen -> Seq(Key)]
    BY <1>12, <2>1 DEF DeliveryInv, TypeOK
  <2> QED BY <2>1, <2>2 DEF DeliveryInv, TypeOK
<1>14. answers' \in [Client -> Seq([key : Key, ok : BOOLEAN])]
  BY <1>6, EmptySeq DEF DeliveryInv, TypeOK
<1>15. TypeOK'
  BY <1>6, <1>8, <1>13, <1>14 DEF DeliveryInv, TypeOK
<1>16. AnswerInv'
  <2>1. \A d \in Client : answers'[d] = IF d = c THEN << >> ELSE answers[d]
    BY <1>6 DEF DeliveryInv, TypeOK
  <2> QED BY <1>6, <2>1, EmptySeq DEF DeliveryInv, AnswerInv
<1>17. ClaimInv'
  BY <1>6, ServerFrame DEF DeliveryInv
<1>18. SingleInv'
  <2>1. \A d \in Client, k \in Key :
           /\ Unsent(d, k)' => Unsent(d, k)
           /\ Once(tab[d].unsent, k) => Once(tab'[d].unsent, k)
    BY <1>8, EmptyHolds DEF Unsent
  <2>2. \A d \in Client, h \in Gen, k \in Key :
           /\ Travels(d, h, k)' => Travels(d, h, k)
           /\ Runs(d, h, k)' <=> Runs(d, h, k)
    BY <1>6, <1>12 DEF Travels, Runs
  <2>3. \A k \in Key \ Managed : effects'[k] <= 1 /\ (effects'[k] > 0 => outcome'[k] # "none")
    BY <1>6, <1>8 DEF DeliveryInv, SingleInv
  <2> QED BY <1>6, <1>8, <1>12, <2>1, <2>2, <2>3, SingleShrinks DEF DeliveryInv
<1> QED BY <1>8, <1>15, <1>16, <1>17, <1>18 DEF DeliveryInv

-----------------------------------------------------------------------------
(***************************************************************************)
(* The optimistic overlay: an entry is settled only after its write has    *)
(* taken effect, so an entry of the outbox that goes with it is not due.   *)
(***************************************************************************)

\* What Matched is.
LEMMA MatchedIs ==
    ASSUME NEW o \in [Key -> OverlayType], NEW b
    PROVE  /\ Matched(o, b) \in [Key -> OverlayType]
           /\ \A k \in Key : Matched(o, b)[k].state = o[k].state
<1>1. \A p \in OverlayType : \A K \in SUBSET p.targets :
         [p EXCEPT !.acked = @ \cup K] \in OverlayType /\ [p EXCEPT !.acked = @ \cup K].state = p.state
  BY DEF OverlayType
<1>2. \A k \in Key : {s \in o[k].targets : b[s].row = k} \in SUBSET o[k].targets
  OBVIOUS
<1>3. \A k \in Key : LET p == [o[k] EXCEPT !.acked = @ \cup {s \in o[k].targets : b[s].row = k}]
                     IN  p \in OverlayType /\ p.state = o[k].state
  BY <1>1, <1>2
<1> QED BY <1>3 DEF Matched

\* What Settling is.
LEMMA SettlingIs ==
    ASSUME NEW o \in [Key -> OverlayType], NEW b
    PROVE  /\ Settling(o, b) \in SUBSET Key
           /\ \A k \in Settling(o, b) : o[k].state = "accepted"
           /\ AfterPass(o, b) \in [Key -> OverlayType]
           /\ \A k \in Key : AfterPass(o, b)[k].state = "accepted" => o[k].state = "accepted"
<1>1. PICK m \in [Key -> OverlayType] : m = Matched(o, b) /\ \A k \in Key : m[k].state = o[k].state
  BY MatchedIs
<1>2. Settling(o, b) \in SUBSET Key /\ \A k \in Settling(o, b) : o[k].state = "accepted"
  BY <1>1 DEF Settling, Settled
<1>3. Hidden \in OverlayType /\ Hidden.state = "none"
  BY DEF Hidden, OverlayType
<1>4. \A K : Drop(m, K) \in [Key -> OverlayType] /\
             \A k \in Key : Drop(m, K)[k].state = "accepted" => o[k].state = "accepted"
  BY <1>1, <1>3 DEF Drop
<1> QED BY <1>1, <1>2, <1>4 DEF AfterPass

\* Reconcile keeps the invariant.
LEMMA ReconcileKeeps ==
    ASSUME DeliveryInv, NEW c \in Client, NEW t \in TabType, TabGood(t),
           NEW o \in [Key -> OverlayType], \A k \in Key : o[k].state = "accepted" => effects[k] > 0,
           NEW b, NEW new, GoodNew(new),
           \A k \in Key : k \in DOMAIN new /\ new[k] = "none" => effects[k] > 0,
           Reconcile(c, t, o, b, new), UNCHANGED <<effects, refused>>,
           \A k \in Key : Due(k)' => Due(k)
    PROVE  /\ db' \in [Key -> EntryState] /\ EntryInv'
           /\ tab' \in [Client -> TabType] /\ TabInv'
           /\ \A d \in Client : /\ tab'[d].unsent = IF d = c THEN t.unsent ELSE tab[d].unsent
                                /\ tab'[d].settling = IF d = c THEN t.settling ELSE tab[d].settling
           /\ overlay' \in [Client -> [Key -> OverlayType]] /\ ViewInv'
<1>1. PICK K \in SUBSET Key, a \in [Key -> OverlayType] :
         /\ K = Settling(o, b) /\ \A k \in K : o[k].state = "accepted"
         /\ a = AfterPass(o, b) /\ \A k \in Key : a[k].state = "accepted" => o[k].state = "accepted"
  BY SettlingIs
<1>2. PICK e \in [Key -> EntryState] : e = Entries(c)
  BY EntriesGood
<1>3. PICK gone : gone = Removed(K)
  OBVIOUS
<1>4. DOMAIN gone = K /\ \A k \in K : gone[k] = "none"
  BY <1>3 DEF Removed
<1>5. GoodNew(gone)
  BY <1>4 DEF GoodNew, EntryState
<1>6. PICK n \in [Key -> EntryState] : /\ n = Merged(new, e)
                                       /\ \A k \in Key : n[k] = IF k \in DOMAIN new THEN new[k] ELSE e[k]
  BY MergedIs
<1>7. PICK z \in [Key -> EntryState] : /\ z = Merged(gone, n)
                                       /\ \A k \in Key : z[k] = IF k \in K THEN "none" ELSE n[k]
  BY <1>4, <1>5, MergedIs
<1>8. /\ overlay' = [overlay EXCEPT ![c] = a]
      /\ PutDB(c, z)
      /\ tab' = [tab EXCEPT ![c] =
             [t EXCEPT !.mem = Merged(gone, Merged(new, @)),
                       !.wake = @ \/ \E k \in DOMAIN gone : e[k] # "none"]]
  BY <1>1, <1>2, <1>3, <1>6, <1>7 DEF Reconcile
<1>9. DOMAIN z = Key /\ GoodNew(z)
  <2>1. \A k \in Key : (e[k] = "committed" => effects[k] > 0) /\ (e[k] # "none" => k \in Managed)
    BY <1>2, EntriesGood
  <2>2. \A k \in Key : (n[k] = "committed" => effects[k] > 0) /\ (n[k] # "none" => k \in Managed)
    BY <1>6, <2>1 DEF GoodNew
  <2> QED BY <1>7, <2>2 DEF GoodNew, EntryState
<1>10. db' \in [Key -> EntryState] /\ EntryInv'
  <2> SUFFICES ASSUME NEW k \in Key, Due(k)'
               PROVE  \/ ~tab[c].memoryOnly /\ k \in DOMAIN z /\ z[k] # "none"
                      \/ Due(k) /\ (k \in DOMAIN z /\ z[k] = "none" => tab[c].memoryOnly)
    BY <1>8, <1>9, EntriesStay
  <2>1. Due(k) /\ ~(effects[k] > 0)
    BY DEF Due
  <2>2. k \notin K
    BY <1>1, <2>1
  <2>3. ~(k \in DOMAIN new /\ new[k] = "none")
    BY <2>1
  <2>4. CASE tab[c].memoryOnly
    BY <2>1, <2>4
  <2>5. CASE ~tab[c].memoryOnly
    <3>1. e[k] # "none"
      BY <1>2, <2>1, <2>5 DEF Entries, DeliveryInv, EntryInv
    <3> QED BY <1>6, <1>7, <1>9, <2>2, <2>3, <2>5, <3>1
  <2> QED BY <2>4, <2>5
<1>11. PICK m \in [Key -> EntryState], w \in BOOLEAN :
         /\ m = Merged(gone, Merged(new, t.mem)) /\ w = (t.wake \/ \E k \in DOMAIN gone : e[k] # "none")
         /\ \A k \in Key : (m[k] = "committed" => effects[k] > 0) /\ (m[k] # "none" => k \in Managed)
  <2>1. t.mem \in [Key -> EntryState] /\ \A k \in Key : (t.mem[k] = "committed" => effects[k] > 0)
                                                       /\ (t.mem[k] # "none" => k \in Managed)
    BY DEF TabType, TabGood
  <2>2. PICK p \in [Key -> EntryState] : /\ p = Merged(new, t.mem)
                                         /\ \A k \in Key : p[k] = IF k \in DOMAIN new THEN new[k] ELSE t.mem[k]
    BY <2>1, MergedIs
  <2>3. PICK q \in [Key -> EntryState] : /\ q = Merged(gone, p)
                                         /\ \A k \in Key : q[k] = IF k \in K THEN "none" ELSE p[k]
    BY <1>4, <1>5, MergedIs
  <2>4. \A k \in Key : (p[k] = "committed" => effects[k] > 0) /\ (p[k] # "none" => k \in Managed)
    BY <2>1, <2>2 DEF GoodNew
  <2>5. \A k \in Key : (q[k] = "committed" => effects[k] > 0) /\ (q[k] # "none" => k \in Managed)
    BY <2>3, <2>4
  <2> QED BY <2>2, <2>3, <2>5
<1>12. LET u == [t EXCEPT !.mem = m, !.wake = w]
       IN  u \in TabType /\ u.unsent = t.unsent /\ u.settling = t.settling /\ u.mem = m /\ u.drain = t.drain
  BY DEF TabType
<1>13. PICK u \in TabType : /\ u = [t EXCEPT !.mem = m, !.wake = w]
                            /\ u.unsent = t.unsent /\ u.settling = t.settling /\ u.mem = m /\ u.drain = t.drain
  BY <1>12
<1>14. tab' = [tab EXCEPT ![c] = u]
  BY <1>8, <1>11, <1>13
<1>15. TabGood(u)
  BY <1>11, <1>13 DEF TabGood
<1>16. tab' \in [Client -> TabType] /\ TabInv' /\ \A d \in Client : tab'[d] = IF d = c THEN u ELSE tab[d]
  BY <1>14, <1>15, TabsStay
<1>17. /\ overlay' \in [Client -> [Key -> OverlayType]]
       /\ \A d \in Client : overlay'[d] = IF d = c THEN a ELSE overlay[d]
  BY <1>8 DEF DeliveryInv, TypeOK
<1>18. ViewInv'
  BY <1>1, <1>17 DEF DeliveryInv, ViewInv
<1> QED BY <1>10, <1>13, <1>16, <1>17, <1>18

\* A drain that finds nothing adds nothing.
LEMMA NothingNew == GoodNew(<< >>) /\ \A k \in Key : k \notin DOMAIN << >>
  BY EmptySeq, ConstantsAssumption DEF GoodNew

\* Deliver keeps the invariant.
LEMMA DeliverKeeps ==
    ASSUME DeliveryInv, NEW c \in Client, NEW s \in Source, Deliver(c, s)
    PROVE  DeliveryInv'
<1>1. PICK t \in TabType : t = tab[c]
  BY DEF DeliveryInv, TypeOK
<1>2. LET u == [t EXCEPT !.live = @ \cup {s}]
      IN  u \in TabType /\ u.unsent = t.unsent /\ u.settling = t.settling /\ u.mem = t.mem /\ u.drain = t.drain
  BY DEF TabType
<1>3. PICK u \in TabType : /\ u = [t EXCEPT !.live = @ \cup {s}] /\ u.unsent = t.unsent
                           /\ u.settling = t.settling /\ u.mem = t.mem /\ u.drain = t.drain
  BY <1>2
<1>4. TabGood(u)
  BY <1>1, <1>3 DEF DeliveryInv, TabInv, TabGood
<1>5. PICK b : b = [base[c] EXCEPT ![s] = Result]
  OBVIOUS
<1>6. PICK q : q = [k \in Key |-> IF overlay[c][k].state = "none" THEN Hidden
                               ELSE [overlay[c][k] EXCEPT !.targets = @ \cup {s},
                                        !.acked = IF k \in news[c][s] THEN @ \cup {s} ELSE @]]
  OBVIOUS
<1>7. q \in [Key -> OverlayType] /\ \A k \in Key : q[k].state = "accepted" => effects[k] > 0
  <2>1. \A p \in OverlayType :
          /\ [p EXCEPT !.targets = @ \cup {s}, !.acked = @ \cup {s}] \in OverlayType
          /\ [p EXCEPT !.targets = @ \cup {s}, !.acked = @] \in OverlayType
          /\ [p EXCEPT !.targets = @ \cup {s}, !.acked = @ \cup {s}].state = p.state
          /\ [p EXCEPT !.targets = @ \cup {s}, !.acked = @].state = p.state
    BY DEF OverlayType
  <2>2. Hidden \in OverlayType /\ Hidden.state = "none"
    BY DEF Hidden, OverlayType
  <2>3. \A k \in Key : overlay[c][k] \in OverlayType
    BY DEF DeliveryInv, TypeOK
  <2>4. \A k \in Key : q[k] \in OverlayType /\ (q[k].state = "accepted" => overlay[c][k].state = "accepted")
    BY <1>6, <2>1, <2>2, <2>3
  <2> QED BY <1>6, <2>4 DEF DeliveryInv, ViewInv
<1>8. PICK o \in [Key -> OverlayType] : o = Matched(q, b) /\ \A k \in Key : o[k].state = q[k].state
  BY <1>7, MatchedIs
<1>9. /\ Reconcile(c, u, o, b, << >>)
      /\ base' = [base EXCEPT ![c] = b]
      /\ news' = [news EXCEPT ![c][s] = {}]
      /\ UNCHANGED <<waiting, handler, wire, answers, exec, claims, effects, row, outcome, refused,
                     swept, left>>
  BY <1>1, <1>3, <1>5, <1>6, <1>8 DEF Deliver
<1>10. \A k \in Key : Due(k)' => Due(k)
  BY <1>9 DEF Due
<1>11. /\ db' \in [Key -> EntryState] /\ EntryInv'
       /\ tab' \in [Client -> TabType] /\ TabInv'
       /\ \A d \in Client : /\ tab'[d].unsent = IF d = c THEN u.unsent ELSE tab[d].unsent
                            /\ tab'[d].settling = IF d = c THEN u.settling ELSE tab[d].settling
       /\ overlay' \in [Client -> [Key -> OverlayType]] /\ ViewInv'
  BY <1>4, <1>7, <1>8, <1>9, <1>10, NothingNew, ReconcileKeeps
<1>12. base' \in [Client -> [Source -> [seen : SUBSET Key, row : Key \cup {0}]]]
  <2>1. Result \in [seen : SUBSET Key, row : Key \cup {0}]
    BY DEF Result, DeliveryInv, TypeOK
  <2> QED BY <1>5, <1>9, <2>1 DEF DeliveryInv, TypeOK
<1>13. news' \in [Client -> [Source -> SUBSET Key]]
  BY <1>9 DEF DeliveryInv, TypeOK
<1>14. TypeOK'
  BY <1>9, <1>11, <1>12, <1>13 DEF DeliveryInv, TypeOK
<1>15. OutcomeInv'
  BY <1>9 DEF DeliveryInv, OutcomeInv
<1>16. CallInv'
  BY <1>1, <1>3, <1>9, <1>11, CallsStay DEF DeliveryInv
<1>17. Later
  BY <1>9, SameIsLater DEF DeliveryInv, TypeOK
<1>18. AnswerInv'
  BY <1>9, <1>17, AnswerFrame DEF DeliveryInv
<1>19. ClaimInv'
  BY <1>9, ServerFrame DEF DeliveryInv
<1>20. SingleInv'
  BY <1>1, <1>3, <1>9, <1>11, SingleFrame DEF DeliveryInv
<1> QED BY <1>11, <1>14, <1>15, <1>16, <1>18, <1>19, <1>20 DEF DeliveryInv

\* Unsubscribe keeps the invariant.
LEMMA UnsubscribeKeeps ==
    ASSUME DeliveryInv, NEW c \in Client, NEW s \in Source, Unsubscribe(c, s)
    PROVE  DeliveryInv'
<1>1. PICK t \in TabType : t = tab[c]
  BY DEF DeliveryInv, TypeOK
<1>2. LET u == [t EXCEPT !.live = @ \ {s}]
      IN  u \in TabType /\ u.unsent = t.unsent /\ u.settling = t.settling /\ u.mem = t.mem /\ u.drain = t.drain
  BY DEF TabType
<1>3. PICK u \in TabType : /\ u = [t EXCEPT !.live = @ \ {s}] /\ u.unsent = t.unsent
                           /\ u.settling = t.settling /\ u.mem = t.mem /\ u.drain = t.drain
  BY <1>2
<1>4. TabGood(u)
  BY <1>1, <1>3 DEF DeliveryInv, TabInv, TabGood
<1>5. PICK o : o = [k \in Key |-> [overlay[c][k] EXCEPT !.targets = @ \ {s}, !.acked = @ \ {s}]]
  OBVIOUS
<1>6. o \in [Key -> OverlayType] /\ \A k \in Key : o[k].state = "accepted" => effects[k] > 0
  <2>1. \A p \in OverlayType : LET r == [p EXCEPT !.targets = @ \ {s}, !.acked = @ \ {s}]
                               IN  r \in OverlayType /\ r.state = p.state
    BY DEF OverlayType
  <2>2. \A k \in Key : overlay[c][k] \in OverlayType
    BY DEF DeliveryInv, TypeOK
  <2>3. \A k \in Key : o[k] \in OverlayType /\ o[k].state = overlay[c][k].state
    BY <1>5, <2>1, <2>2
  <2> QED BY <1>5, <2>3 DEF DeliveryInv, ViewInv
<1>7. /\ Reconcile(c, u, o, base[c], << >>)
      /\ news' = [news EXCEPT ![c][s] = {}]
      /\ UNCHANGED <<waiting, handler, base, wire, answers, exec, claims, effects, row, outcome,
                     refused, swept, left>>
  BY <1>1, <1>3, <1>5 DEF Unsubscribe
<1>8. \A k \in Key : Due(k)' => Due(k)
  BY <1>7 DEF Due
<1>9. /\ db' \in [Key -> EntryState] /\ EntryInv'
      /\ tab' \in [Client -> TabType] /\ TabInv'
      /\ \A d \in Client : /\ tab'[d].unsent = IF d = c THEN u.unsent ELSE tab[d].unsent
                           /\ tab'[d].settling = IF d = c THEN u.settling ELSE tab[d].settling
      /\ overlay' \in [Client -> [Key -> OverlayType]] /\ ViewInv'
  BY <1>4, <1>6, <1>7, <1>8, NothingNew, ReconcileKeeps
<1>10. TypeOK'
  BY <1>7, <1>9 DEF DeliveryInv, TypeOK
<1>11. OutcomeInv'
  BY <1>7 DEF DeliveryInv, OutcomeInv
<1>12. CallInv'
  BY <1>1, <1>3, <1>7, <1>9, CallsStay DEF DeliveryInv
<1>13. Later
  BY <1>7, SameIsLater DEF DeliveryInv, TypeOK
<1>14. AnswerInv'
  BY <1>7, <1>13, AnswerFrame DEF DeliveryInv
<1>15. ClaimInv'
  BY <1>7, ServerFrame DEF DeliveryInv
<1>16. SingleInv'
  BY <1>1, <1>3, <1>7, <1>9, SingleFrame DEF DeliveryInv
<1> QED BY <1>9, <1>10, <1>11, <1>12, <1>14, <1>15, <1>16 DEF DeliveryInv

\* Settle keeps the invariant.
LEMMA SettleKeeps ==
    ASSUME DeliveryInv, NEW c \in Client, NEW k \in Key, NEW w \in Who, Settle(c, k, w)
    PROVE  DeliveryInv'
<1>1. PICK t \in TabType : t = tab[c]
  BY DEF DeliveryInv, TypeOK
<1>2. TabGood(t) /\ <<k, w>> \in t.settling
  BY <1>1 DEF DeliveryInv, TabInv, Settle
<1>3. effects[k] > 0 /\ k \in Managed
  BY <1>2 DEF TabGood
<1>4. PICK z \in SUBSET (Key \X Who), f \in Key \cup {0, -1} :
         z = t.settling \ {<<k, w>>} /\ f = IF w = "drain" THEN -1 ELSE t.drain
  BY DEF TabType
<1>5. LET u == [t EXCEPT !.settling = z, !.drain = f]
      IN  u \in TabType /\ u.unsent = t.unsent /\ u.settling = z /\ u.mem = t.mem /\ u.drain = f
  BY DEF TabType
<1>6. PICK u \in TabType : /\ u = [t EXCEPT !.settling = z, !.drain = f] /\ u.unsent = t.unsent
                           /\ u.settling = z /\ u.mem = t.mem /\ u.drain = f
  BY <1>5
<1>7. TabGood(u)
  BY <1>2, <1>4, <1>6, ConstantsAssumption DEF TabGood, Key
<1>8. PICK o, new :
         /\ o \in [Key -> OverlayType]
         /\ Reconcile(c, u, o, base[c], new)
         /\ \A j \in Key : o[j].state = "accepted" => overlay[c][j].state = "accepted" \/ j = k
         /\ new = << >> \/ new = Removed({k})
  <2>1. overlay[c] \in [Key -> OverlayType]
    BY DEF DeliveryInv, TypeOK
  <2>2. CASE k \in Optimistic
    <3>1. PICK o : o = IF overlay[c][k].state = "none" THEN overlay[c]
                       ELSE [overlay[c] EXCEPT ![k].state = "accepted"]
      OBVIOUS
    <3>2. \A p \in OverlayType : [p EXCEPT !.state = "accepted"] \in OverlayType
      BY DEF OverlayType
    <3>3. /\ o \in [Key -> OverlayType]
          /\ \A j \in Key : o[j].state = "accepted" => overlay[c][j].state = "accepted" \/ j = k
      BY <2>1, <3>1, <3>2
    <3>4. Reconcile(c, u, o, base[c], << >>)
      BY <1>1, <1>4, <1>6, <2>2, <3>1 DEF Settle
    <3> QED BY <3>3, <3>4
  <2>3. CASE k \notin Optimistic
    <3>1. Reconcile(c, u, overlay[c], base[c], Removed({k}))
      BY <1>1, <1>4, <1>6, <2>3 DEF Settle
    <3> QED BY <2>1, <3>1
  <2> QED BY <2>2, <2>3
<1>9. /\ outcome' = IF w = "direct" THEN [outcome EXCEPT ![k] = "ok"] ELSE outcome
      /\ UNCHANGED <<waiting, handler, base, news, wire, answers, exec, claims, effects, row,
                     refused, swept, left>>
  BY DEF Settle
<1>10. \A j \in Key : outcome'[j] = IF w = "direct" /\ j = k THEN "ok" ELSE outcome[j]
  BY <1>9 DEF DeliveryInv, TypeOK
<1>11. \A j \in Key : Due(j)' => Due(j)
  BY <1>9, <1>10 DEF Due
<1>12. GoodNew(new) /\ \A j \in Key : j \in DOMAIN new => j = k
  <2>1. GoodNew(Removed({k})) /\ \A j \in Key : j \in DOMAIN Removed({k}) => j = k
    BY DEF GoodNew, Removed, EntryState
  <2> QED BY <1>8, <2>1, NothingNew
<1>13. \A j \in Key : o[j].state = "accepted" => effects[j] > 0
  BY <1>3, <1>8 DEF DeliveryInv, ViewInv
<1>14. /\ db' \in [Key -> EntryState] /\ EntryInv'
       /\ tab' \in [Client -> TabType] /\ TabInv'
       /\ \A d \in Client : /\ tab'[d].unsent = IF d = c THEN u.unsent ELSE tab[d].unsent
                            /\ tab'[d].settling = IF d = c THEN u.settling ELSE tab[d].settling
       /\ overlay' \in [Client -> [Key -> OverlayType]] /\ ViewInv'
  BY <1>3, <1>7, <1>8, <1>9, <1>11, <1>12, <1>13, ReconcileKeeps
<1>15. outcome' \in [Key -> {"none", "waiting", "queued", "ok", "unknown", "rejected"}]
  BY <1>9 DEF DeliveryInv, TypeOK
<1>16. TypeOK'
  BY <1>9, <1>14, <1>15 DEF DeliveryInv, TypeOK
<1>17. OutcomeInv'
  BY <1>3, <1>9, <1>10 DEF DeliveryInv, OutcomeInv
<1>18. CallInv'
  <2>1. \A d \in Client : tab'[d].settling = IF d = c THEN tab[c].settling \ {<<k, w>>} ELSE tab[d].settling
    BY <1>1, <1>4, <1>6, <1>14
  <2>2. \A d \in Client, j \in Key : Direct(d, j)' => Direct(d, j)
    BY <1>9, <2>1 DEF Direct
  <2>3. w = "direct" => \A d \in Client : ~Direct(d, k)'
    <3> SUFFICES ASSUME w = "direct", NEW d \in Client, Direct(d, k)' PROVE FALSE
      OBVIOUS
    <3>1. Direct(d, k) /\ Direct(c, k)
      BY <1>1, <1>2, <2>2 DEF Direct
    <3>2. d = c
      BY <3>1 DEF DeliveryInv, CallInv
    <3>3. "direct" \notin waiting[c][k]
      BY <1>1, <1>2 DEF DeliveryInv, CallInv
    <3> QED BY <1>9, <2>1, <3>2, <3>3 DEF Direct
  <2>4. \A d \in Client, j \in Key : Direct(d, j)' => outcome'[j] = outcome[j]
    BY <1>10, <2>3
  <2> QED BY <1>9, <2>1, <2>4, CallsStay DEF DeliveryInv
<1>19. Later
  BY <1>9, SameIsLater DEF DeliveryInv, TypeOK
<1>20. AnswerInv'
  BY <1>9, <1>19, AnswerFrame DEF DeliveryInv
<1>21. ClaimInv'
  BY <1>9, ServerFrame DEF DeliveryInv
<1>22. SingleInv'
  BY <1>1, <1>6, <1>9, <1>10, <1>14, SingleFrame DEF DeliveryInv
<1> QED BY <1>14, <1>16, <1>17, <1>18, <1>20, <1>21, <1>22 DEF DeliveryInv

-----------------------------------------------------------------------------
(***************************************************************************)
(* The answers.                                                            *)
(***************************************************************************)

\* A result marks the entry committed, and whoever waited settles the write.
LEMMA AcceptedKeeps ==
    ASSUME DeliveryInv, NEW c \in Client, NEW k \in Key, NEW w \in Who,
           w \in waiting[c][k], effects[k] > 0,
           waiting' = [waiting EXCEPT ![c][k] = @ \ {w}],
           handler' = [handler EXCEPT ![c][k] = "none"],
           \A v \in Who : handler[c][k] = v => v = w,
           Accepted(c, k, w), UNCHANGED <<effects, refused>>
    PROVE  /\ db' \in [Key -> EntryState] /\ EntryInv'
           /\ tab' \in [Client -> TabType] /\ TabInv'
           /\ \A d \in Client : tab'[d].unsent = tab[d].unsent
           /\ overlay' = overlay /\ CallInv'
           /\ outcome' \in [Key -> {"none", "waiting", "queued", "ok", "unknown", "rejected"}]
           /\ OutcomeInv' /\ \A j \in Key : outcome'[j] = "none" => outcome[j] = "none"
<1>1. PICK t \in TabType : t = tab[c]
  BY DEF DeliveryInv, TypeOK
<1>2. TabGood(t)
  BY <1>1 DEF DeliveryInv, TabInv
<1>3. PICK new : new = [j \in {k} \cap Managed |-> IF Entries(c)[j] = "none" THEN "none" ELSE "committed"]
  OBVIOUS
<1>4. GoodNew(new)
  BY <1>3 DEF GoodNew, EntryState
<1>5. PICK m \in [Key -> EntryState], a \in BOOLEAN, z \in SUBSET (Key \X Who) :
         /\ m = Merged(new, t.mem) /\ a = (t.wake \/ DOMAIN new # {})
         /\ z = IF k \in Managed THEN t.settling \cup {<<k, w>>} ELSE t.settling
         /\ \A j \in Key : m[j] = IF j \in DOMAIN new THEN new[j] ELSE t.mem[j]
  <2>1. t.mem \in [Key -> EntryState] /\ t.settling \in SUBSET (Key \X Who)
    BY DEF TabType
  <2>2. /\ Merged(new, t.mem) \in [Key -> EntryState]
        /\ \A j \in Key : Merged(new, t.mem)[j] = IF j \in DOMAIN new THEN new[j] ELSE t.mem[j]
    BY <1>4, <2>1, MergedIs
  <2>3. (t.wake \/ DOMAIN new # {}) \in BOOLEAN
    OBVIOUS
  <2>4. (IF k \in Managed THEN t.settling \cup {<<k, w>>} ELSE t.settling) \in SUBSET (Key \X Who)
    BY <2>1
  <2> QED BY <2>2, <2>3, <2>4
<1>6. /\ PutDB(c, new)
      /\ tab' = [tab EXCEPT ![c] = [t EXCEPT !.mem = m, !.wake = a, !.settling = z]]
      /\ outcome' = IF k \in Managed THEN outcome ELSE [outcome EXCEPT ![k] = "ok"]
      /\ UNCHANGED overlay
  <2>1. /\ PutDB(c, new)
        /\ tab' = [tab EXCEPT ![c] = [tab[c] EXCEPT !.mem = Merged(new, @), !.wake = @ \/ DOMAIN new # {},
                       !.settling = IF k \in Managed THEN @ \cup {<<k, w>>} ELSE @]]
        /\ outcome' = IF k \in Managed THEN outcome ELSE [outcome EXCEPT ![k] = "ok"]
        /\ UNCHANGED overlay
    BY <1>3 DEF Accepted
  <2>2. tab' = [tab EXCEPT ![c] = [t EXCEPT !.mem = m, !.wake = a, !.settling = z]]
    <3> DEFINE F(x) == [x EXCEPT !.mem = Merged(new, @), !.wake = @ \/ DOMAIN new # {},
                                 !.settling = IF k \in Managed THEN @ \cup {<<k, w>>} ELSE @]
    <3>1. tab' = [tab EXCEPT ![c] = F(tab[c])]
      BY <2>1
    <3>2. F(t) = [t EXCEPT !.mem = m, !.wake = a, !.settling = z]
      BY <1>5
    <3> HIDE DEF F
    <3> QED BY <1>1, <3>1, <3>2
  <2> QED BY <2>1, <2>2
<1>7. LET u == [t EXCEPT !.mem = m, !.wake = a, !.settling = z]
      IN  u \in TabType /\ u.unsent = t.unsent /\ u.settling = z /\ u.mem = m /\ u.drain = t.drain
  BY DEF TabType
<1>8. PICK u \in TabType : /\ u = [t EXCEPT !.mem = m, !.wake = a, !.settling = z]
                           /\ u.unsent = t.unsent /\ u.settling = z /\ u.mem = m /\ u.drain = t.drain
  BY <1>7
<1>9. TabGood(u)
  <2>1. \A j \in Key : (m[j] = "committed" => effects[j] > 0) /\ (m[j] # "none" => j \in Managed)
    BY <1>2, <1>4, <1>5 DEF GoodNew, TabGood
  <2>2. \A j \in Key, v \in Who : <<j, v>> \in z => effects[j] > 0 /\ j \in Managed
    BY <1>2, <1>5 DEF TabGood
  <2> QED BY <1>2, <1>8, <2>1, <2>2 DEF TabGood
<1>10. tab' = [tab EXCEPT ![c] = u]
  BY <1>6, <1>8
<1>11. tab' \in [Client -> TabType] /\ TabInv' /\ \A d \in Client : tab'[d] = IF d = c THEN u ELSE tab[d]
  BY <1>9, <1>10, TabsStay
<1>12. \A j \in Key : outcome'[j] = IF k \notin Managed /\ j = k THEN "ok" ELSE outcome[j]
  BY <1>6 DEF DeliveryInv, TypeOK
<1>13. \A j \in Key : Due(j)' => Due(j) /\ j # k
  BY <1>12 DEF Due
<1>14. db' \in [Key -> EntryState] /\ EntryInv'
  BY <1>3, <1>4, <1>6, <1>13, EntriesStay
<1>15. outcome' \in [Key -> {"none", "waiting", "queued", "ok", "unknown", "rejected"}]
  BY <1>6 DEF DeliveryInv, TypeOK
<1>16. OutcomeInv' /\ \A j \in Key : outcome'[j] = "none" => outcome[j] = "none"
  BY <1>12 DEF DeliveryInv, OutcomeInv
<1>17. \A d \in Client, j \in Key :
         /\ waiting'[d][j] = IF d = c /\ j = k THEN waiting[c][k] \ {w} ELSE waiting[d][j]
         /\ handler'[d][j] = IF d = c /\ j = k THEN "none" ELSE handler[d][j]
  BY DEF DeliveryInv, TypeOK
<1>18. \A d \in Client, j \in Key, v \in Who :
         <<j, v>> \in tab'[d].settling <=>
            <<j, v>> \in tab[d].settling \/ (d = c /\ j = k /\ v = w /\ k \in Managed)
  <2>1. \A j \in Key, v \in Who :
           <<j, v>> \in z <=> <<j, v>> \in t.settling \/ (j = k /\ v = w /\ k \in Managed)
    <3>1. CASE k \in Managed
      BY <1>5, <3>1
    <3>2. CASE k \notin Managed
      BY <1>5, <3>2
    <3> QED BY <3>1, <3>2
  <2>2. \A d \in Client : tab'[d].settling = IF d = c THEN z ELSE tab[d].settling
    BY <1>8, <1>11
  <2> QED BY <1>1, <2>1, <2>2
<1>19. CallInv'
  <2>1. \A d \in Client, j \in Key : Direct(d, j)' => Direct(d, j)
    <3> SUFFICES ASSUME NEW d \in Client, NEW j \in Key, Direct(d, j)' PROVE Direct(d, j)
      OBVIOUS
    <3>1. CASE "direct" \in waiting'[d][j]
      BY <1>17, <3>1 DEF Direct
    <3>2. CASE <<j, "direct">> \in tab'[d].settling
      BY <1>18, <3>2 DEF Direct, Who
    <3> QED BY <3>1, <3>2 DEF Direct
  <2>2. w = "drain" => k \in Managed
    BY DEF DeliveryInv, CallInv
  <2>3. w = "direct" => \A d \in Client : Direct(d, k) => d = c
    BY DEF DeliveryInv, CallInv, Direct
  <2>4. \A d \in Client, j \in Key : Direct(d, j)' => outcome'[j] = "waiting"
    <3> SUFFICES ASSUME NEW d \in Client, NEW j \in Key, Direct(d, j)' PROVE outcome'[j] = "waiting"
      OBVIOUS
    <3>1. outcome[j] = "waiting"
      BY <2>1 DEF DeliveryInv, CallInv
    <3>2. CASE k \notin Managed /\ j = k
      <4>1. w = "direct" /\ d = c
        BY <2>1, <2>2, <2>3, <3>2 DEF Who
      <4>2. "direct" \in waiting[c][k]
        BY <4>1
      <4>3. <<k, "direct">> \notin tab[c].settling
        BY <4>2 DEF DeliveryInv, CallInv
      <4>4. <<k, "direct">> \notin tab'[c].settling /\ "direct" \notin waiting'[c][k]
        <5>1. "direct" \notin waiting'[c][k]
          BY <1>17, <4>1
        <5>2. <<k, "direct">> \notin tab'[c].settling
          BY <1>18, <3>2, <4>3 DEF Who
        <5> QED BY <5>1, <5>2
      <4> QED BY <3>2, <4>1, <4>4 DEF Direct
    <3>3. CASE ~(k \notin Managed /\ j = k)
      BY <1>12, <3>1, <3>3
    <3> QED BY <3>2, <3>3
  <2>5. \A d \in Client, j \in Key : "direct" \in waiting'[d][j] => <<j, "direct">> \notin tab'[d].settling
    <3> SUFFICES ASSUME NEW d \in Client, NEW j \in Key, "direct" \in waiting'[d][j],
                        <<j, "direct">> \in tab'[d].settling
                 PROVE  FALSE
      OBVIOUS
    <3>1. "direct" \in waiting[d][j] /\ ~(d = c /\ j = k /\ w = "direct")
      BY <1>17
    <3>2. <<j, "direct">> \notin tab[d].settling
      BY <3>1 DEF DeliveryInv, CallInv
    <3>3. PICK v \in Who : v = "direct"
      BY DEF Who
    <3>4. <<j, v>> \in tab'[d].settling /\ <<j, v>> \notin tab[d].settling
      BY <3>2, <3>3
    <3>5. d = c /\ j = k /\ v = w
      BY <1>18, <3>4
    <3> QED BY <3>1, <3>3, <3>5
  <2>6. \A d \in Client, j \in Key : "drain" \in waiting'[d][j] => j \in Managed
    <3>1. \A d \in Client, j \in Key : "drain" \in waiting'[d][j] => "drain" \in waiting[d][j]
      BY <1>17
    <3> QED BY <3>1 DEF DeliveryInv, CallInv
  <2>7. \A d \in Client, j \in Key, v \in Who : handler'[d][j] = v => v \in waiting'[d][j]
    <3> SUFFICES ASSUME NEW d \in Client, NEW j \in Key, NEW v \in Who, handler'[d][j] = v
                 PROVE  v \in waiting'[d][j]
      OBVIOUS
    <3>1. ~(d = c /\ j = k)
      BY <1>17 DEF Who
    <3>2. handler[d][j] = v /\ waiting'[d][j] = waiting[d][j]
      BY <1>17, <3>1
    <3> QED BY <3>2 DEF DeliveryInv, CallInv
  <2>8. \A d, e \in Client, j \in Key : Direct(d, j)' /\ Direct(e, j)' => d = e
    BY <2>1 DEF DeliveryInv, CallInv
  <2> QED BY <2>4, <2>5, <2>6, <2>7, <2>8 DEF CallInv
<1> QED BY <1>1, <1>6, <1>8, <1>11, <1>14, <1>15, <1>16, <1>19

\* An error forgets the entry of a write that is not due any more.
LEMMA RefusedKeeps ==
    ASSUME DeliveryInv, NEW c \in Client, NEW k \in Key, NEW w \in Who,
           w \in waiting[c][k], k \in refused,
           waiting' = [waiting EXCEPT ![c][k] = @ \ {w}],
           handler' = [handler EXCEPT ![c][k] = "none"],
           Refused(c, k, w), UNCHANGED <<effects, refused>>
    PROVE  /\ db' \in [Key -> EntryState] /\ EntryInv'
           /\ tab' \in [Client -> TabType] /\ TabInv'
           /\ \A d \in Client : tab'[d].unsent = tab[d].unsent
           /\ overlay' \in [Client -> [Key -> OverlayType]] /\ ViewInv' /\ CallInv'
           /\ outcome' \in [Key -> {"none", "waiting", "queued", "ok", "unknown", "rejected"}]
           /\ OutcomeInv' /\ \A j \in Key : outcome'[j] = "none" => outcome[j] = "none"
<1>1. PICK t \in TabType : t = tab[c]
  BY DEF DeliveryInv, TypeOK
<1>2. TabGood(t)
  BY <1>1 DEF DeliveryInv, TabInv
<1>3. PICK new : new = Removed({k} \cap Managed)
  OBVIOUS
<1>4. GoodNew(new) /\ \A j \in Key : j \in DOMAIN new => j = k
  BY <1>3 DEF GoodNew, Removed, EntryState
<1>5. PICK m \in [Key -> EntryState], a \in BOOLEAN, f \in Key \cup {0, -1} :
         /\ m = Merged(new, t.mem) /\ a = (t.wake \/ DOMAIN new # {})
         /\ f = IF w = "drain" THEN -1 ELSE t.drain
         /\ \A j \in Key : m[j] = IF j \in DOMAIN new THEN new[j] ELSE t.mem[j]
  <2>1. t.mem \in [Key -> EntryState]
    BY DEF TabType
  <2>2. /\ Merged(new, t.mem) \in [Key -> EntryState]
        /\ \A j \in Key : Merged(new, t.mem)[j] = IF j \in DOMAIN new THEN new[j] ELSE t.mem[j]
    BY <1>4, <2>1, MergedIs
  <2>3. (t.wake \/ DOMAIN new # {}) \in BOOLEAN
    OBVIOUS
  <2>4. (IF w = "drain" THEN -1 ELSE t.drain) \in Key \cup {0, -1}
    BY DEF TabType
  <2> QED BY <2>2, <2>3, <2>4
<1>6. /\ PutDB(c, new)
      /\ tab' = [tab EXCEPT ![c] = [t EXCEPT !.mem = m, !.wake = a, !.drain = f]]
      /\ outcome' = IF w = "direct" THEN [outcome EXCEPT ![k] = "rejected"] ELSE outcome
      /\ overlay' = [overlay EXCEPT ![c] = Drop(@, {k})]
  <2>1. /\ PutDB(c, new)
        /\ tab' = [tab EXCEPT ![c] = [tab[c] EXCEPT !.mem = Merged(new, @), !.wake = @ \/ DOMAIN new # {},
                       !.drain = IF w = "drain" THEN -1 ELSE @]]
        /\ outcome' = IF w = "direct" THEN [outcome EXCEPT ![k] = "rejected"] ELSE outcome
        /\ overlay' = [overlay EXCEPT ![c] = Drop(@, {k})]
    BY <1>3 DEF Refused
  <2> DEFINE F(x) == [x EXCEPT !.mem = Merged(new, @), !.wake = @ \/ DOMAIN new # {},
                               !.drain = IF w = "drain" THEN -1 ELSE @]
  <2>2. tab' = [tab EXCEPT ![c] = F(tab[c])]
    BY <2>1
  <2>3. F(t) = [t EXCEPT !.mem = m, !.wake = a, !.drain = f]
    BY <1>5
  <2> HIDE DEF F
  <2> QED BY <1>1, <2>1, <2>2, <2>3
<1>7. LET u == [t EXCEPT !.mem = m, !.wake = a, !.drain = f]
      IN  u \in TabType /\ u.unsent = t.unsent /\ u.settling = t.settling /\ u.mem = m /\ u.drain = f
  BY DEF TabType
<1>8. PICK u \in TabType : /\ u = [t EXCEPT !.mem = m, !.wake = a, !.drain = f]
                           /\ u.unsent = t.unsent /\ u.settling = t.settling /\ u.mem = m /\ u.drain = f
  BY <1>7
<1>9. TabGood(u)
  <2>1. \A j \in Key : (m[j] = "committed" => effects[j] > 0) /\ (m[j] # "none" => j \in Managed)
    BY <1>2, <1>4, <1>5 DEF GoodNew, TabGood
  <2>2. f \in Key => f = t.drain
    BY <1>5, ConstantsAssumption DEF Key
  <2> QED BY <1>2, <1>8, <2>1, <2>2 DEF TabGood
<1>10. tab' = [tab EXCEPT ![c] = u]
  BY <1>6, <1>8
<1>11. tab' \in [Client -> TabType] /\ TabInv' /\ \A d \in Client : tab'[d] = IF d = c THEN u ELSE tab[d]
  BY <1>9, <1>10, TabsStay
<1>12. \A j \in Key : outcome'[j] = IF w = "direct" /\ j = k THEN "rejected" ELSE outcome[j]
  BY <1>6 DEF DeliveryInv, TypeOK
<1>13. \A j \in Key : Due(j)' => Due(j) /\ j # k
  BY <1>12 DEF Due
<1>14. db' \in [Key -> EntryState] /\ EntryInv'
  BY <1>4, <1>6, <1>13, EntriesStay
<1>15. outcome' \in [Key -> {"none", "waiting", "queued", "ok", "unknown", "rejected"}]
  BY <1>6 DEF DeliveryInv, TypeOK
<1>16. OutcomeInv' /\ \A j \in Key : outcome'[j] = "none" => outcome[j] = "none"
  BY <1>12 DEF DeliveryInv, OutcomeInv
<1>17. \A d \in Client, j \in Key :
         /\ waiting'[d][j] = IF d = c /\ j = k THEN waiting[c][k] \ {w} ELSE waiting[d][j]
         /\ handler'[d][j] = IF d = c /\ j = k THEN "none" ELSE handler[d][j]
  BY DEF DeliveryInv, TypeOK
<1>18. \A d \in Client : tab'[d].settling = tab[d].settling
  BY <1>1, <1>8, <1>11
<1>19. CallInv'
  <2>1. \A d \in Client, j \in Key : Direct(d, j)' => Direct(d, j)
    BY <1>17, <1>18 DEF Direct
  <2>2. w = "direct" => \A d \in Client : ~Direct(d, k)'
    <3> SUFFICES ASSUME w = "direct", NEW d \in Client, Direct(d, k)' PROVE FALSE
      OBVIOUS
    <3>1. Direct(d, k) /\ Direct(c, k)
      BY <2>1 DEF Direct
    <3>2. d = c
      BY <3>1 DEF DeliveryInv, CallInv
    <3>3. <<k, "direct">> \notin tab[c].settling
      BY DEF DeliveryInv, CallInv
    <3> QED BY <1>17, <1>18, <3>2, <3>3 DEF Direct
  <2>3. \A d \in Client, j \in Key : Direct(d, j)' => outcome'[j] = outcome[j]
    BY <1>12, <2>2
  <2>4. \A d \in Client, j \in Key, v \in Who :
           /\ v \in waiting'[d][j] => v \in waiting[d][j]
           /\ handler'[d][j] = v => v \in waiting'[d][j]
    <3> SUFFICES ASSUME NEW d \in Client, NEW j \in Key, NEW v \in Who
                 PROVE  /\ v \in waiting'[d][j] => v \in waiting[d][j]
                        /\ handler'[d][j] = v => v \in waiting'[d][j]
      OBVIOUS
    <3>1. handler[d][j] = v => v \in waiting[d][j]
      BY DEF DeliveryInv, CallInv
    <3>2. CASE d = c /\ j = k
      BY <1>17, <3>2 DEF Who
    <3>3. CASE ~(d = c /\ j = k)
      BY <1>17, <3>1, <3>3
    <3> QED BY <3>2, <3>3
  <2> QED BY <1>18, <2>3, <2>4, CallsShrink DEF DeliveryInv
<1>20. overlay' \in [Client -> [Key -> OverlayType]] /\ ViewInv'
  <2>1. Hidden \in OverlayType /\ Hidden.state = "none"
    BY DEF Hidden, OverlayType
  <2>2. /\ Drop(overlay[c], {k}) \in [Key -> OverlayType]
        /\ \A j \in Key : Drop(overlay[c], {k})[j].state = "accepted" => overlay[c][j].state = "accepted"
    BY <2>1 DEF Drop, DeliveryInv, TypeOK
  <2>3. overlay' \in [Client -> [Key -> OverlayType]] /\
        \A d \in Client : overlay'[d] = IF d = c THEN Drop(overlay[c], {k}) ELSE overlay[d]
    BY <1>6, <2>2 DEF DeliveryInv, TypeOK
  <2> QED BY <2>2, <2>3 DEF DeliveryInv, ViewInv
<1> QED BY <1>1, <1>8, <1>11, <1>14, <1>15, <1>16, <1>19, <1>20

\* Receive keeps the invariant.
LEMMA ReceiveKeeps ==
    ASSUME DeliveryInv, NEW c \in Client, Receive(c)
    PROVE  DeliveryInv'
<1> DEFINE A == [key : Key, ok : BOOLEAN]
<1>1. answers[c] \in Seq(A) /\ answers[c] # << >>
  BY DEF DeliveryInv, TypeOK, Receive
<1>2. /\ Tail(answers[c]) \in Seq(A) /\ 1 \in DOMAIN answers[c] /\ Head(answers[c]) = answers[c][1]
      /\ \A i \in DOMAIN Tail(answers[c]) : i + 1 \in DOMAIN answers[c] /\ Tail(answers[c])[i] = answers[c][i + 1]
  <2> HIDE DEF A
  <2> QED BY <1>1, HeadTailProperties, LenProperties, EmptySeq
<1>3. PICK k \in Key, ok \in BOOLEAN : Head(answers[c]) = [key |-> k, ok |-> ok]
  <2>1. answers[c][1] \in A
    BY <1>2, AnswersName DEF DeliveryInv
  <2> QED BY <1>2, <2>1
<1>4. (ok => effects[k] > 0) /\ (~ok => k \in refused)
  BY <1>2, <1>3 DEF DeliveryInv, AnswerInv
<1>5. /\ IF handler[c][k] = "none"
         THEN UNCHANGED <<db, tab, waiting, handler, overlay, outcome>>
         ELSE /\ waiting' = [waiting EXCEPT ![c][k] = @ \ {handler[c][k]}]
              /\ handler' = [handler EXCEPT ![c][k] = "none"]
              /\ IF ok THEN Accepted(c, k, handler[c][k]) ELSE Refused(c, k, handler[c][k])
      /\ answers' = [answers EXCEPT ![c] = Tail(@)]
      /\ UNCHANGED <<base, news, wire, exec, claims, effects, row, refused, swept, left>>
  BY <1>3 DEF Receive
<1>6. /\ db' \in [Key -> EntryState] /\ EntryInv'
      /\ tab' \in [Client -> TabType] /\ TabInv'
      /\ \A d \in Client : tab'[d].unsent = tab[d].unsent
      /\ waiting' \in [Client -> [Key -> SUBSET Who]]
      /\ handler' \in [Client -> [Key -> Who \cup {"none"}]]
      /\ overlay' \in [Client -> [Key -> OverlayType]] /\ ViewInv' /\ CallInv'
      /\ outcome' \in [Key -> {"none", "waiting", "queued", "ok", "unknown", "rejected"}]
      /\ OutcomeInv' /\ \A j \in Key : outcome'[j] = "none" => outcome[j] = "none"
  <2>1. CASE handler[c][k] = "none"
    <3>1. UNCHANGED <<db, tab, waiting, handler, overlay, outcome, effects, refused>>
      BY <1>5, <2>1
    <3>2. EntryInv' /\ TabInv'
      BY <3>1 DEF DeliveryInv, EntryInv, Due, TabInv, TabGood
    <3>3. ViewInv' /\ OutcomeInv' /\ CallInv'
      BY <3>1 DEF DeliveryInv, ViewInv, OutcomeInv, CallInv, Direct
    <3> QED BY <3>1, <3>2, <3>3 DEF DeliveryInv, TypeOK
  <2>2. CASE handler[c][k] # "none"
    <3>1. PICK w \in Who : w = handler[c][k]
      BY <2>2 DEF DeliveryInv, TypeOK
    <3>2. w \in waiting[c][k] /\ \A v \in Who : handler[c][k] = v => v = w
      BY <3>1 DEF DeliveryInv, CallInv
    <3>3. /\ waiting' = [waiting EXCEPT ![c][k] = @ \ {w}]
          /\ handler' = [handler EXCEPT ![c][k] = "none"]
          /\ IF ok THEN Accepted(c, k, w) ELSE Refused(c, k, w)
          /\ UNCHANGED <<effects, refused>>
      BY <1>5, <2>2, <3>1
    <3>4. /\ waiting' \in [Client -> [Key -> SUBSET Who]]
          /\ handler' \in [Client -> [Key -> Who \cup {"none"}]]
      BY <3>3 DEF DeliveryInv, TypeOK
    <3>5. CASE ok
      <4>1. /\ db' \in [Key -> EntryState] /\ EntryInv'
            /\ tab' \in [Client -> TabType] /\ TabInv'
            /\ \A d \in Client : tab'[d].unsent = tab[d].unsent
            /\ overlay' = overlay /\ CallInv'
            /\ outcome' \in [Key -> {"none", "waiting", "queued", "ok", "unknown", "rejected"}]
            /\ OutcomeInv' /\ \A j \in Key : outcome'[j] = "none" => outcome[j] = "none"
        BY <1>4, <3>2, <3>3, <3>5, AcceptedKeeps
      <4>2. ViewInv' /\ overlay' \in [Client -> [Key -> OverlayType]]
        BY <1>5, <4>1 DEF DeliveryInv, ViewInv, TypeOK
      <4> QED BY <3>4, <4>1, <4>2
    <3>6. CASE ~ok
      BY <1>4, <3>2, <3>3, <3>4, <3>6, RefusedKeeps
    <3> QED BY <3>5, <3>6
  <2> QED BY <2>1, <2>2
<1>7. /\ answers' \in [Client -> Seq(A)]
      /\ \A d \in Client : answers'[d] = IF d = c THEN Tail(answers[c]) ELSE answers[d]
  <2>1. answers \in [Client -> Seq(A)]
    BY DEF DeliveryInv, TypeOK
  <2> HIDE DEF A
  <2> QED BY <1>2, <1>5, <2>1
<1>8. TypeOK'
  BY <1>5, <1>6, <1>7 DEF DeliveryInv, TypeOK
<1>9. AnswerInv'
  BY <1>2, <1>5, <1>7 DEF DeliveryInv, AnswerInv
<1>10. ClaimInv'
  BY <1>5, ServerFrame DEF DeliveryInv
<1>11. SingleInv'
  BY <1>5, <1>6, SingleFrame DEF DeliveryInv
<1> QED BY <1>6, <1>8, <1>9, <1>10, <1>11 DEF DeliveryInv

-----------------------------------------------------------------------------
(***************************************************************************)
(* The messages.                                                           *)
(***************************************************************************)

\* One message more, for a write with an entry or for one that has none yet.
LEMMA SendKeeps ==
    ASSUME DeliveryInv, NEW c \in Client, NEW u \in TabType, TabGood(u), u.unsent = tab[c].unsent,
           NEW k \in Key, Send(c, u, k), UNCHANGED <<exec, effects>>,
           k \in Managed \/ (outcome[k] = "none" /\ outcome'[k] # "none"),
           \A j \in Key : outcome'[j] = "none" => outcome[j] = "none"
    PROVE  /\ tab' \in [Client -> TabType] /\ TabInv' /\ wire' \in [Client -> [Gen -> Seq(Key)]]
           /\ \A d \in Client : tab'[d].settling = IF d = c THEN u.settling ELSE tab[d].settling
           /\ SingleInv'
<1>0. u.unsent \in Seq(Key) /\ Append(u.unsent, k) \in Seq(Key)
  BY AppendProperties DEF TabType
<1>1. PICK s \in Seq(Key), g \in {u.gen} : g = u.gen /\ s = IF u.open THEN u.unsent ELSE Append(u.unsent, k)
  BY <1>0
<1>2. LET v == [u EXCEPT !.unsent = s]
      IN  /\ v \in TabType /\ v.unsent = s /\ v.settling = u.settling /\ v.mem = u.mem /\ v.drain = u.drain
          /\ v = u \/ s # u.unsent
  BY DEF TabType
<1>3. PICK v \in TabType : /\ v.unsent = s /\ v.settling = u.settling /\ v.mem = u.mem /\ v.drain = u.drain
                           /\ v = IF u.open THEN u ELSE [u EXCEPT !.unsent = Append(@, k)]
  <2>1. CASE u.open
    BY <1>1, <2>1
  <2>2. CASE ~u.open
    BY <1>1, <1>2, <2>2
  <2> QED BY <2>1, <2>2
<1>4. /\ tab' = [tab EXCEPT ![c] = v]
      /\ wire' = IF u.open /\ u.gen > u.dead THEN [wire EXCEPT ![c][g] = Append(@, k)] ELSE wire
  BY <1>1, <1>3 DEF Send
<1>5. TabGood(v)
  BY <1>3 DEF TabGood
<1>6. tab' \in [Client -> TabType] /\ TabInv' /\ \A d \in Client : tab'[d] = IF d = c THEN v ELSE tab[d]
  BY <1>4, <1>5, TabsStay
<1>7. /\ wire' \in [Client -> [Gen -> Seq(Key)]]
      /\ \A d \in Client, h \in Gen :
            wire'[d][h] = IF d = c /\ h = g /\ u.open /\ u.gen > u.dead
                          THEN Append(wire[c][g], k) ELSE wire[d][h]
  <2>1. wire \in [Client -> [Gen -> Seq(Key)]]
    BY DEF DeliveryInv, TypeOK
  <2>2. CASE u.open /\ u.gen > u.dead
    <3>1. g \in Gen
      BY <1>1, <2>2, ConstantsAssumption DEF TabType, Gen
    <3>2. Append(wire[c][g], k) \in Seq(Key)
      BY <2>1, <3>1, AppendProperties
    <3> QED BY <1>4, <2>1, <2>2, <3>1, <3>2
  <2>3. CASE ~(u.open /\ u.gen > u.dead)
    BY <1>4, <2>1, <2>3
  <2> QED BY <2>2, <2>3
<1>8. \A d \in Client, h \in Gen, j \in Key :
        /\ Unsent(d, j)' <=> Unsent(d, j) \/ (d = c /\ j = k /\ ~u.open)
        /\ Travels(d, h, j)' <=> Travels(d, h, j) \/ (d = c /\ h = g /\ j = k /\ u.open /\ u.gen > u.dead)
        /\ Runs(d, h, j)' <=> Runs(d, h, j)
        /\ Once(tab[d].unsent, j) /\ (j = k => ~Unsent(d, k)) => Once(tab'[d].unsent, j)
        /\ Once(wire[d][h], j) /\ (j = k => ~Travels(d, h, k)) => Once(wire'[d][h], j)
  <2> SUFFICES ASSUME NEW d \in Client, NEW h \in Gen, NEW j \in Key
               PROVE  /\ Unsent(d, j)' <=> Unsent(d, j) \/ (d = c /\ j = k /\ ~u.open)
                      /\ Travels(d, h, j)' <=> Travels(d, h, j)
                            \/ (d = c /\ h = g /\ j = k /\ u.open /\ u.gen > u.dead)
                      /\ Runs(d, h, j)' <=> Runs(d, h, j)
                      /\ Once(tab[d].unsent, j) /\ (j = k => ~Unsent(d, k)) => Once(tab'[d].unsent, j)
                      /\ Once(wire[d][h], j) /\ (j = k => ~Travels(d, h, k)) => Once(wire'[d][h], j)
    OBVIOUS
  <2>0. tab[d].unsent \in Seq(Key) /\ wire[d][h] \in Seq(Key)
    BY DEF DeliveryInv, TypeOK, TabType
  <2>1. PICK a \in Seq(Key), b \in Seq(Key) : a = tab[d].unsent /\ b = wire[d][h]
    BY <2>0
  <2>2. /\ In(Append(a, k), j) <=> In(a, j) \/ k = j
        /\ Once(a, j) /\ (k = j => ~In(a, j)) => Once(Append(a, k), j)
        /\ In(Append(b, k), j) <=> In(b, j) \/ k = j
        /\ Once(b, j) /\ (k = j => ~In(b, j)) => Once(Append(b, k), j)
    BY AppendKeeps
  <2>3. tab'[d].unsent = IF d = c /\ ~u.open THEN Append(a, k) ELSE a
    BY <1>1, <1>3, <1>6, <2>1
  <2>4. wire'[d][h] = IF d = c /\ h = g /\ u.open /\ u.gen > u.dead THEN Append(b, k) ELSE b
    BY <1>7, <2>1
  <2>5. Unsent(d, j)' <=> Unsent(d, j) \/ (d = c /\ j = k /\ ~u.open)
    BY <2>1, <2>2, <2>3 DEF Unsent
  <2>6. Travels(d, h, j)' <=> Travels(d, h, j) \/ (d = c /\ h = g /\ j = k /\ u.open /\ u.gen > u.dead)
    BY <2>1, <2>2, <2>4 DEF Travels
  <2>7. Runs(d, h, j)' <=> Runs(d, h, j)
    BY DEF Runs
  <2>8. Once(tab[d].unsent, j) /\ (j = k => ~Unsent(d, k)) => Once(tab'[d].unsent, j)
    BY <2>1, <2>2, <2>3 DEF Unsent
  <2>9. Once(wire[d][h], j) /\ (j = k => ~Travels(d, h, k)) => Once(wire'[d][h], j)
    BY <2>1, <2>2, <2>4 DEF Travels
  <2> QED BY <2>5, <2>6, <2>7, <2>8, <2>9
<1>9. SingleInv'
  <2>1. k \in Key \ Managed => \A d \in Client, h \in Gen :
           /\ ~Unsent(d, k) /\ ~Travels(d, h, k) /\ ~Runs(d, h, k)
           /\ outcome'[k] # "none"
    BY DEF DeliveryInv, SingleInv
  <2>2. k \in Key \ Managed /\ effects[k] > 0 => FALSE
    BY DEF DeliveryInv, SingleInv
  <2>3. \A j \in Key \ Managed, d, e \in Client, h, i \in Gen :
          /\ Unsent(d, j)' /\ Unsent(e, j)' => d = e
          /\ Unsent(d, j)' => ~Travels(e, h, j)' /\ ~Runs(e, h, j)'
          /\ Travels(d, h, j)' /\ Travels(e, i, j)' => d = e /\ h = i
          /\ Travels(d, h, j)' => ~Runs(e, i, j)'
          /\ Runs(d, h, j)' /\ Runs(e, i, j)' => d = e /\ h = i
          /\ outcome'[j] = "none" \/ effects'[j] > 0
                => ~Unsent(d, j)' /\ ~Travels(d, h, j)' /\ ~Runs(d, h, j)'
    BY <1>8, <2>1, <2>2 DEF DeliveryInv, SingleInv
  <2>4. \A j \in Key \ Managed, d \in Client, h \in Gen : Once(tab'[d].unsent, j) /\ Once(wire'[d][h], j)
    BY <1>8, <2>1 DEF DeliveryInv, SingleInv
  <2>5. \A j \in Key \ Managed, d \in Client, h \in Gen : Once(tab[d].unsent, j)' /\ Once(wire[d][h], j)'
    BY <2>4 DEF Once
  <2> QED BY <2>3, <2>5 DEF DeliveryInv, SingleInv
<1> QED BY <1>3, <1>6, <1>7, <1>9

\* Mutate keeps the invariant.
LEMMA MutateKeeps ==
    ASSUME DeliveryInv, NEW c \in Client, NEW k \in Key, Mutate(c, k)
    PROVE  DeliveryInv'
<1>1. PICK t \in TabType : t = tab[c]
  BY DEF DeliveryInv, TypeOK
<1>2. TabGood(t)
  BY <1>1 DEF DeliveryInv, TabInv
<1>3. /\ outcome[k] = "none"
      /\ UNCHANGED <<base, news, answers, exec, claims, effects, row, refused, swept, left>>
  BY DEF Mutate
<1>4. Later
  BY <1>3, SameIsLater DEF DeliveryInv, TypeOK
<1>5. AnswerInv'
  BY <1>3, <1>4, AnswerFrame DEF DeliveryInv
<1>6. ClaimInv'
  BY <1>3, ServerFrame DEF DeliveryInv
<1>7. \A d \in Client : ~Direct(d, k)
  BY <1>3 DEF DeliveryInv, CallInv
<1>8. CASE k \in Managed /\ tab[c].memoryOnly
  <2>1. /\ outcome' = [outcome EXCEPT ![k] = "rejected"]
        /\ UNCHANGED <<db, tab, waiting, handler, overlay, wire>>
    BY <1>8 DEF Mutate
  <2>2. /\ outcome' \in [Key -> {"none", "waiting", "queued", "ok", "unknown", "rejected"}]
        /\ \A j \in Key : outcome'[j] = IF j = k THEN "rejected" ELSE outcome[j]
    BY <2>1 DEF DeliveryInv, TypeOK
  <2>3. TypeOK'
    BY <1>3, <2>1, <2>2 DEF DeliveryInv, TypeOK
  <2>4. \A j \in Key : Due(j)' => Due(j)
    BY <1>3, <2>2 DEF Due
  <2>5. EntryInv' /\ TabInv' /\ ViewInv' /\ OutcomeInv'
    <3>1. EntryInv'
      BY <1>3, <2>1, <2>4 DEF DeliveryInv, EntryInv
    <3>2. TabInv'
      BY <1>3, <2>1 DEF DeliveryInv, TabInv, TabGood
    <3>3. ViewInv' /\ OutcomeInv'
      BY <1>3, <2>1, <2>2 DEF DeliveryInv, ViewInv, OutcomeInv
    <3> QED BY <3>1, <3>2, <3>3
  <2>6. CallInv'
    <3>1. \A d \in Client, j \in Key : Direct(d, j)' => j # k /\ outcome'[j] = outcome[j]
      BY <1>7, <2>1, <2>2 DEF Direct
    <3> QED BY <2>1, <3>1, CallsStay DEF DeliveryInv
  <2>7. SingleInv'
    BY <1>3, <2>1, <2>2, SingleFrame DEF DeliveryInv
  <2> QED BY <1>5, <1>6, <2>3, <2>5, <2>6, <2>7 DEF DeliveryInv
<1>9. CASE ~(k \in Managed /\ tab[c].memoryOnly)
  <2>1. PICK e : e = [j \in {k} \cap Managed |-> "inflight"]
    OBVIOUS
  <2>2. GoodNew(e) /\ \A j \in Key : j \in DOMAIN e <=> j = k /\ k \in Managed
    BY <2>1 DEF GoodNew, EntryState
  <2>3. PICK m \in [Key -> EntryState], a \in BOOLEAN :
          /\ m = Merged(e, t.mem) /\ a = (k \in Managed \/ t.wake)
          /\ \A j \in Key : m[j] = IF j \in DOMAIN e THEN e[j] ELSE t.mem[j]
    <3>1. t.mem \in [Key -> EntryState]
      BY DEF TabType
    <3>2. /\ Merged(e, t.mem) \in [Key -> EntryState]
          /\ \A j \in Key : Merged(e, t.mem)[j] = IF j \in DOMAIN e THEN e[j] ELSE t.mem[j]
      BY <2>2, <3>1, MergedIs
    <3>3. (k \in Managed \/ t.wake) \in BOOLEAN
      OBVIOUS
    <3> QED BY <3>2, <3>3
  <2>4. PICK u : u = [t EXCEPT !.mem = m, !.wake = a]
    OBVIOUS
  <2>5. /\ u \in TabType /\ u.unsent = t.unsent /\ u.settling = t.settling
        /\ u.mem = m /\ u.drain = t.drain
    <3>1. LET x == [t EXCEPT !.mem = m, !.wake = a]
          IN  x \in TabType /\ x.unsent = t.unsent /\ x.settling = t.settling /\ x.mem = m /\ x.drain = t.drain
      BY DEF TabType
    <3> QED BY <2>4, <3>1
  <2>6. TabGood(u)
    <3>1. \A j \in Key : (m[j] = "committed" => effects[j] > 0) /\ (m[j] # "none" => j \in Managed)
      BY <1>2, <2>2, <2>3 DEF GoodNew, TabGood
    <3> QED BY <1>2, <2>5, <3>1 DEF TabGood
  <2>7. /\ outcome' = [outcome EXCEPT ![k] = "waiting"]
        /\ PutDB(c, e)
        /\ overlay' = IF k \in Optimistic THEN [overlay EXCEPT ![c][k] = Shown(c, "shown")] ELSE overlay
        /\ waiting' = [waiting EXCEPT ![c][k] = @ \cup {"direct"}]
        /\ handler' = [handler EXCEPT ![c][k] = "direct"]
    BY <1>9, <2>1 DEF Mutate, Register
  <2>8. Send(c, u, k)
    <3> DEFINE F(x) == [x EXCEPT !.mem = Merged(e, @), !.wake = k \in Managed \/ @]
    <3>1. Send(c, F(tab[c]), k)
      BY <1>9, <2>1 DEF Mutate
    <3>2. F(t) = u
      BY <2>3, <2>4
    <3> HIDE DEF F
    <3> QED BY <1>1, <3>1, <3>2
  <2>9. /\ outcome' \in [Key -> {"none", "waiting", "queued", "ok", "unknown", "rejected"}]
        /\ \A j \in Key : outcome'[j] = IF j = k THEN "waiting" ELSE outcome[j]
    BY <2>7 DEF DeliveryInv, TypeOK
  <2>10. /\ tab' \in [Client -> TabType] /\ TabInv' /\ wire' \in [Client -> [Gen -> Seq(Key)]]
         /\ \A d \in Client : tab'[d].settling = IF d = c THEN u.settling ELSE tab[d].settling
         /\ SingleInv'
    BY <1>1, <1>3, <2>5, <2>6, <2>8, <2>9, SendKeeps
  <2>11. db' \in [Key -> EntryState] /\ EntryInv'
    <3>1. \A j \in Key : Due(j)' =>
             \/ ~tab[c].memoryOnly /\ j \in DOMAIN e /\ e[j] # "none"
             \/ Due(j) /\ (j \in DOMAIN e /\ e[j] = "none" => tab[c].memoryOnly)
      <4> SUFFICES ASSUME NEW j \in Key, Due(j)'
                   PROVE  \/ ~tab[c].memoryOnly /\ j \in DOMAIN e /\ e[j] # "none"
                          \/ Due(j) /\ (j \in DOMAIN e /\ e[j] = "none" => tab[c].memoryOnly)
        OBVIOUS
      <4>1. CASE j = k
        BY <1>9, <2>1, <2>2, <4>1, WritesAreKeys DEF Due
      <4>2. CASE j # k
        BY <1>3, <2>2, <2>9, <4>2 DEF Due
      <4> QED BY <4>1, <4>2
    <3> QED BY <1>3, <2>2, <2>7, <3>1, EntriesStay
  <2>12. overlay' \in [Client -> [Key -> OverlayType]] /\ ViewInv'
    <3>1. Shown(c, "shown") \in OverlayType /\ Shown(c, "shown").state = "shown"
      BY DEF Shown, OverlayType, DeliveryInv, TypeOK, TabType
    <3>2. overlay' \in [Client -> [Key -> OverlayType]]
      BY <2>7, <3>1 DEF DeliveryInv, TypeOK
    <3>3. \A d \in Client, j \in Key : overlay'[d][j] = overlay[d][j] \/ overlay'[d][j] = Shown(c, "shown")
      BY <2>7 DEF DeliveryInv, TypeOK
    <3>4. ViewInv'
      BY <1>3, <3>1, <3>3 DEF DeliveryInv, ViewInv
    <3> QED BY <3>2, <3>4
  <2>13. /\ waiting' \in [Client -> [Key -> SUBSET Who]]
         /\ handler' \in [Client -> [Key -> Who \cup {"none"}]]
    BY <2>7 DEF DeliveryInv, TypeOK, Who
  <2>14. TypeOK'
    BY <1>3, <2>9, <2>10, <2>11, <2>12, <2>13 DEF DeliveryInv, TypeOK
  <2>15. OutcomeInv'
    BY <1>3, <2>9 DEF DeliveryInv, OutcomeInv
  <2>16. \A d \in Client, j \in Key :
           /\ waiting'[d][j] = IF d = c /\ j = k THEN waiting[c][k] \cup {"direct"} ELSE waiting[d][j]
           /\ handler'[d][j] = IF d = c /\ j = k THEN "direct" ELSE handler[d][j]
           /\ tab'[d].settling = tab[d].settling
    BY <1>1, <2>5, <2>7, <2>10 DEF DeliveryInv, TypeOK
  <2>17. CallInv'
    <3>1. \A d \in Client, j \in Key : Direct(d, j)' => (d = c /\ j = k) \/ (Direct(d, j) /\ j # k)
      BY <1>7, <2>16 DEF Direct
    <3>2. \A d \in Client, j \in Key : Direct(d, j)' => outcome'[j] = "waiting"
      BY <2>9, <3>1 DEF DeliveryInv, CallInv
    <3>3. \A d \in Client, j \in Key : "direct" \in waiting'[d][j] => <<j, "direct">> \notin tab'[d].settling
      <4> SUFFICES ASSUME NEW d \in Client, NEW j \in Key, "direct" \in waiting'[d][j]
                   PROVE  <<j, "direct">> \notin tab[d].settling
        BY <2>16
      <4>1. CASE d = c /\ j = k
        BY <1>7, <4>1 DEF Direct
      <4>2. CASE ~(d = c /\ j = k)
        <5>1. "direct" \in waiting[d][j]
          BY <2>16, <4>2
        <5> QED BY <5>1 DEF DeliveryInv, CallInv
      <4> QED BY <4>1, <4>2
    <3>4. \A d \in Client, j \in Key : "drain" \in waiting'[d][j] => j \in Managed
      <4>1. \A d \in Client, j \in Key : "drain" \in waiting'[d][j] => "drain" \in waiting[d][j]
        BY <2>16
      <4> QED BY <4>1 DEF DeliveryInv, CallInv
    <3>5. \A d \in Client, j \in Key, v \in Who : handler'[d][j] = v => v \in waiting'[d][j]
      <4> SUFFICES ASSUME NEW d \in Client, NEW j \in Key, NEW v \in Who, handler'[d][j] = v
                   PROVE  v \in waiting'[d][j]
        OBVIOUS
      <4>1. CASE d = c /\ j = k
        BY <2>16, <4>1
      <4>2. CASE ~(d = c /\ j = k)
        <5>1. handler[d][j] = v /\ waiting'[d][j] = waiting[d][j]
          BY <2>16, <4>2
        <5> QED BY <5>1 DEF DeliveryInv, CallInv
      <4> QED BY <4>1, <4>2
    <3>6. \A d, f \in Client, j \in Key : Direct(d, j)' /\ Direct(f, j)' => d = f
      BY <3>1 DEF DeliveryInv, CallInv
    <3> QED BY <3>2, <3>3, <3>4, <3>5, <3>6 DEF CallInv
  <2> QED BY <1>5, <1>6, <2>10, <2>11, <2>12, <2>14, <2>15, <2>17 DEF DeliveryInv
<1> QED BY <1>8, <1>9

\* DrainSend keeps the invariant.
LEMMA DrainSendKeeps ==
    ASSUME DeliveryInv, NEW c \in Client, DrainSend(c)
    PROVE  DeliveryInv'
<1>1. PICK t \in TabType : t = tab[c]
  BY DEF DeliveryInv, TypeOK
<1>2. TabGood(t)
  BY <1>1 DEF DeliveryInv, TabInv
<1>3. PICK k \in Key : k = tab[c].drain
  BY <1>1 DEF DrainSend, TabType
<1>4. k \in Managed
  BY <1>1, <1>2, <1>3 DEF TabGood
<1>5. PICK new : new = Moved(c, {k}, "inflight")
  OBVIOUS
<1>6. GoodNew(new) /\ \A j \in Key : j \in DOMAIN new => new[j] # "none"
  BY <1>4, <1>5 DEF GoodNew, Moved, EntryState
<1>7. PICK m \in [Key -> EntryState], a \in BOOLEAN :
        /\ m = Merged(new, t.mem) /\ a = (t.wake \/ DOMAIN new # {})
        /\ \A j \in Key : m[j] = IF j \in DOMAIN new THEN new[j] ELSE t.mem[j]
  <2>1. t.mem \in [Key -> EntryState]
    BY DEF TabType
  <2>2. /\ Merged(new, t.mem) \in [Key -> EntryState]
        /\ \A j \in Key : Merged(new, t.mem)[j] = IF j \in DOMAIN new THEN new[j] ELSE t.mem[j]
    BY <1>6, <2>1, MergedIs
  <2>3. (t.wake \/ DOMAIN new # {}) \in BOOLEAN
    OBVIOUS
  <2> QED BY <2>2, <2>3
<1>8. PICK u : u = [t EXCEPT !.mem = m, !.wake = a]
  OBVIOUS
<1>9. /\ u \in TabType /\ u.unsent = t.unsent /\ u.settling = t.settling
      /\ u.mem = m /\ u.drain = t.drain
  <2>1. LET x == [t EXCEPT !.mem = m, !.wake = a]
        IN  x \in TabType /\ x.unsent = t.unsent /\ x.settling = t.settling /\ x.mem = m /\ x.drain = t.drain
    BY DEF TabType
  <2> QED BY <1>8, <2>1
<1>10. TabGood(u)
  <2>1. \A j \in Key : (m[j] = "committed" => effects[j] > 0) /\ (m[j] # "none" => j \in Managed)
    BY <1>2, <1>6, <1>7 DEF GoodNew, TabGood
  <2> QED BY <1>2, <1>9, <2>1 DEF TabGood
<1>11. /\ PutDB(c, new)
       /\ waiting' = [waiting EXCEPT ![c][k] = @ \cup {"drain"}]
       /\ handler' = [handler EXCEPT ![c][k] = "drain"]
       /\ UNCHANGED <<overlay, base, news, answers, exec, claims, effects, row, outcome, refused,
                      swept, left>>
  BY <1>3, <1>5 DEF DrainSend, Register
<1>12. Send(c, u, k)
  <2> DEFINE F(x) == [x EXCEPT !.mem = Merged(new, @), !.wake = @ \/ DOMAIN new # {}]
  <2>1. Send(c, F(tab[c]), k)
    BY <1>3, <1>5 DEF DrainSend
  <2>2. F(t) = u
    BY <1>7, <1>8
  <2> HIDE DEF F
  <2> QED BY <1>1, <2>1, <2>2
<1>13. /\ tab' \in [Client -> TabType] /\ TabInv' /\ wire' \in [Client -> [Gen -> Seq(Key)]]
       /\ \A d \in Client : tab'[d].settling = IF d = c THEN u.settling ELSE tab[d].settling
       /\ SingleInv'
  BY <1>1, <1>4, <1>9, <1>10, <1>11, <1>12, SendKeeps
<1>14. db' \in [Key -> EntryState] /\ EntryInv'
  <2>1. \A j \in Key : Due(j)' => Due(j)
    BY <1>11 DEF Due
  <2> QED BY <1>6, <1>11, <2>1, EntriesStay
<1>15. /\ waiting' \in [Client -> [Key -> SUBSET Who]]
       /\ handler' \in [Client -> [Key -> Who \cup {"none"}]]
  BY <1>11 DEF DeliveryInv, TypeOK, Who
<1>16. TypeOK'
  BY <1>11, <1>13, <1>14, <1>15 DEF DeliveryInv, TypeOK
<1>17. ViewInv' /\ OutcomeInv'
  BY <1>11 DEF DeliveryInv, ViewInv, OutcomeInv
<1>18. Later
  BY <1>11, SameIsLater DEF DeliveryInv, TypeOK
<1>19. AnswerInv'
  BY <1>11, <1>18, AnswerFrame DEF DeliveryInv
<1>20. ClaimInv'
  BY <1>11, ServerFrame DEF DeliveryInv
<1>21. \A d \in Client, j \in Key :
         /\ waiting'[d][j] = IF d = c /\ j = k THEN waiting[c][k] \cup {"drain"} ELSE waiting[d][j]
         /\ handler'[d][j] = IF d = c /\ j = k THEN "drain" ELSE handler[d][j]
         /\ tab'[d].settling = tab[d].settling
  BY <1>1, <1>9, <1>11, <1>13 DEF DeliveryInv, TypeOK
<1>22. CallInv'
  <2>1. \A d \in Client, j \in Key : "direct" \in waiting'[d][j] <=> "direct" \in waiting[d][j]
    BY <1>21
  <2>2. \A d \in Client, j \in Key : Direct(d, j)' <=> Direct(d, j)
    BY <1>21, <2>1 DEF Direct
  <2>3. \A d \in Client, j \in Key : "drain" \in waiting'[d][j] => j \in Managed
    <3>1. \A d \in Client, j \in Key : "drain" \in waiting'[d][j] => "drain" \in waiting[d][j] \/ j = k
      BY <1>21
    <3> QED BY <1>4, <3>1 DEF DeliveryInv, CallInv
  <2>4. \A d \in Client, j \in Key, v \in Who : handler'[d][j] = v => v \in waiting'[d][j]
    <3> SUFFICES ASSUME NEW d \in Client, NEW j \in Key, NEW v \in Who, handler'[d][j] = v
                 PROVE  v \in waiting'[d][j]
      OBVIOUS
    <3>1. CASE d = c /\ j = k
      BY <1>21, <3>1
    <3>2. CASE ~(d = c /\ j = k)
      <4>1. handler[d][j] = v /\ waiting'[d][j] = waiting[d][j]
        BY <1>21, <3>2
      <4> QED BY <4>1 DEF DeliveryInv, CallInv
    <3> QED BY <3>1, <3>2
  <2>5. \A d \in Client, j \in Key : /\ "direct" \in waiting'[d][j] => <<j, "direct">> \notin tab'[d].settling
                                     /\ Direct(d, j)' => outcome'[j] = "waiting"
    BY <1>11, <1>21, <2>1, <2>2 DEF DeliveryInv, CallInv
  <2>6. \A d, e \in Client, j \in Key : Direct(d, j)' /\ Direct(e, j)' => d = e
    BY <2>2 DEF DeliveryInv, CallInv
  <2> QED BY <2>3, <2>4, <2>5, <2>6 DEF CallInv
<1> QED BY <1>13, <1>14, <1>16, <1>17, <1>19, <1>20, <1>22 DEF DeliveryInv

-----------------------------------------------------------------------------
(***************************************************************************)
(* The invariant of the whole.                                             *)
(***************************************************************************)

\* No mutation is made at the start.
LEMMA InitHolds ==
    ASSUME Init
    PROVE  DeliveryInv
<1>1. NewTab \in TabType /\ NewTab.mem = NoEntries /\ NewTab.settling = {} /\ NewTab.unsent = << >>
                         /\ NewTab.drain = 0
  BY EmptySeq, ConstantsAssumption DEF NewTab, TabType, NoEntries, EntryState
<1>2. Hidden \in OverlayType /\ Hidden.state = "none"
  BY DEF Hidden, OverlayType
<1>3. Idle \in ExecType /\ Idle.phase = "idle"
  BY DEF Idle, ExecType
<1>4. TypeOK
  <2>1. db \in [Key -> EntryState]
    BY DEF Init, NoEntries, EntryState
  <2>2. tab \in [Client -> TabType]
    BY <1>1 DEF Init
  <2>3. overlay \in [Client -> [Key -> OverlayType]]
    BY <1>2 DEF Init
  <2>4. exec \in [Client -> [Gen -> ExecType]]
    BY <1>3 DEF Init
  <2>5. wire \in [Client -> [Gen -> Seq(Key)]] /\ answers \in [Client -> Seq([key : Key, ok : BOOLEAN])]
    BY EmptySeq DEF Init
  <2>6. left \in 0 .. MaxFaults
    BY ConstantsAssumption DEF Init
  <2> QED BY <2>1, <2>2, <2>3, <2>4, <2>5, <2>6 DEF Init, TypeOK
<1>5. EntryInv
  BY DEF Init, EntryInv, NoEntries, Due
<1>6. TabInv
  BY <1>1, ConstantsAssumption DEF Init, TabInv, TabGood, NoEntries, Key
<1>7. ViewInv
  BY <1>2 DEF Init, ViewInv
<1>8. AnswerInv
  BY EmptySeq DEF Init, AnswerInv
<1>9. CallInv
  BY <1>1 DEF Init, CallInv, Direct, Who
<1>10. OutcomeInv
  BY DEF Init, OutcomeInv
<1>11. ClaimInv
  BY <1>3 DEF Init, ClaimInv, Runs
<1>12. SingleInv
  <2>1. \A c \in Client, g \in Gen : tab[c].unsent = << >> /\ wire[c][g] = << >> /\ exec[c][g] = Idle
    BY <1>1 DEF Init
  <2>2. \A c \in Client, g \in Gen, k \in Key :
           /\ ~Unsent(c, k) /\ ~Travels(c, g, k) /\ ~Runs(c, g, k)
           /\ Once(tab[c].unsent, k) /\ Once(wire[c][g], k)
    BY <1>3, <2>1, EmptyHolds DEF Unsent, Travels, Runs
  <2>3. \A k \in Key : effects[k] = 0
    BY DEF Init
  <2> QED BY <2>2, <2>3 DEF SingleInv
<1> QED BY <1>4, <1>5, <1>6, <1>7, <1>8, <1>9, <1>10, <1>11, <1>12 DEF DeliveryInv

\* A step that changes nothing keeps the invariant.
LEMMA StutterKeeps ==
    ASSUME DeliveryInv, UNCHANGED vars
    PROVE  DeliveryInv'
<1>1. UNCHANGED <<db, tab, waiting, handler, overlay, base, news, wire, answers, exec, claims, effects,
                  row, outcome, refused, swept, left>>
  BY DEF vars
<1>2. TypeOK'
  BY <1>1 DEF DeliveryInv, TypeOK
<1>3. Later
  BY <1>1, SameIsLater DEF DeliveryInv, TypeOK
<1>4. SingleInv'
  BY <1>1, SingleFrame DEF DeliveryInv
<1> QED BY <1>1, <1>2, <1>3, <1>4, ClientFrame, AnswerFrame, ServerFrame DEF DeliveryInv

\* Every step keeps the invariant.
LEMMA NextKeeps ==
    ASSUME DeliveryInv, [Next]_vars
    PROVE  DeliveryInv'
<1>1. ASSUME NEW c \in Client, ClientStep(c) PROVE DeliveryInv'
  <2>1. ASSUME NEW k \in Key, Mutate(c, k) PROVE DeliveryInv'
    BY <2>1, MutateKeeps
  <2>2. ASSUME NEW k \in Key, NEW w \in Who, CallTimesOut(c, k, w) PROVE DeliveryInv'
    BY <2>2, CallTimesOutKeeps
  <2>3. ASSUME NEW k \in Key, NEW w \in Who, Settle(c, k, w) PROVE DeliveryInv'
    BY <2>3, SettleKeeps
  <2>4. CASE Open(c)
    BY <2>4, OpenKeeps
  <2>5. CASE Disconnect(c)
    BY <2>5, DisconnectKeeps
  <2>6. CASE Receive(c)
    BY <2>6, ReceiveKeeps
  <2>7. CASE DrainOutbox(c)
    BY <2>7, DrainOutboxKeeps
  <2>8. CASE NextReady(c)
    BY <2>8, NextReadyKeeps
  <2>9. CASE DrainSend(c)
    BY <2>9, DrainSendKeeps
  <2>10. CASE DrainTimer(c)
    BY <2>10, DrainTimerKeeps
  <2>11. CASE RestoreOutbox(c)
    BY <2>11, RestoreOutboxKeeps
  <2>12. CASE Reload(c)
    BY <2>12, ReloadKeeps
  <2>13. CASE StorageBreaks(c)
    BY <2>13, StorageBreaksKeeps
  <2>14. ASSUME NEW s \in Source, Deliver(c, s) PROVE DeliveryInv'
    BY <2>14, DeliverKeeps
  <2>15. ASSUME NEW s \in Source, Unsubscribe(c, s) PROVE DeliveryInv'
    BY <2>15, UnsubscribeKeeps
  <2> QED BY <1>1, <2>1, <2>2, <2>3, <2>4, <2>5, <2>6, <2>7, <2>8, <2>9, <2>10, <2>11, <2>12, <2>13,
             <2>14, <2>15 DEF ClientStep
<1>2. ASSUME NEW c \in Client, NEW g \in Gen, ServerStep(c, g) PROVE DeliveryInv'
  BY <1>2, ClaimKeeps, RollbackKeeps, ReplayKeeps, CommitKeeps DEF ServerStep
<1>3. ASSUME NEW k \in Key, BackoffElapses(k) \/ Sweep(k) PROVE DeliveryInv'
  BY <1>3, BackoffElapsesKeeps, SweepKeeps
<1>4. CASE Restart
  BY <1>4, RestartKeeps
<1>5. CASE UNCHANGED vars
  BY <1>5, StutterKeeps
<1> QED BY <1>1, <1>2, <1>3, <1>4, <1>5 DEF Next

\* The invariant holds of every behaviour.
LEMMA DeliveryAlways == Spec => []DeliveryInv
<1>1. Init => DeliveryInv
  BY InitHolds
<1>2. DeliveryInv /\ [Next]_vars => DeliveryInv'
  BY NextKeeps
<1> QED BY <1>1, <1>2, PTL DEF Spec

\* What the caller of mutation() is told is true and stays true, and a write that
\* was resent has no second effect unless its claim was swept.
THEOREM AnswersAreTrue == Spec => []ToldIsTrue
<1>1. DeliveryInv => ToldIsTrue
  <2> SUFFICES ASSUME DeliveryInv PROVE ToldIsTrue
    OBVIOUS
  <2>1. \A k \in Key : effects[k] \in Nat
    BY DEF DeliveryInv, TypeOK
  <2>2. AtMostOnce
    BY <2>1 DEF AtMostOnce, DeliveryInv, ClaimInv
  <2>3. OkIsApplied
    BY DEF OkIsApplied, DeliveryInv, OutcomeInv, EntryInv, ViewInv
  <2>4. QueuedIsDurable
    BY DEF QueuedIsDurable, DeliveryInv, OutcomeInv, EntryInv, Due
  <2> QED BY <2>2, <2>3, <2>4 DEF ToldIsTrue, DeliveryInv
<1> QED BY <1>1, DeliveryAlways, PTL

-----------------------------------------------------------------------------
(***************************************************************************)
(* The refinement of WriteOnce: the commit applies a write, the sweep      *)
(* forgets it, the answer to its caller tells of it, and every other step  *)
(* is a stutter.                                                           *)
(***************************************************************************)

Remembered == {k \in Key : claims[k] = "committed" \/ (k \notin Managed /\ effects[k] > 0)}
Told == {k \in Key : outcome[k] = "ok"}

\* A step that changes nothing the abstract module speaks of is a stutter of it.
LEMMA Unseen ==
    ASSUME effects' = effects, Remembered' = Remembered, Told' = Told
    PROVE  UNCHANGED Abstract!wvars
  BY DEF Abstract!wvars, Remembered, Told

\* What is remembered depends on the claims and the effects.
LEMMA SameClaims ==
    ASSUME UNCHANGED <<claims, effects>>
    PROVE  Remembered' = Remembered
  BY DEF Remembered

\* What is told depends on the outcomes that are ok.
LEMMA SameOutcome ==
    ASSUME \A k \in Key : outcome'[k] = "ok" <=> outcome[k] = "ok"
    PROVE  Told' = Told
  BY DEF Told

\* A call that is told of an effect that was had is a step of the abstract module.
LEMMA Tells ==
    ASSUME NEW k \in Key, effects[k] > 0, UNCHANGED <<claims, effects>>,
           \A j \in Key : outcome'[j] = "ok" <=> outcome[j] = "ok" \/ j = k
    PROVE  Abstract!Next
<1>1. Told' = Told \cup {k}
  BY DEF Told
<1>2. Remembered' = Remembered
  BY SameClaims
<1>3. Abstract!Tell(k)
  BY <1>1, <1>2 DEF Abstract!Tell, Told, Remembered
<1> QED BY <1>3 DEF Abstract!Next

\* Every step is a step of the abstract module or a stutter of it.
LEMMA Refines == DeliveryInv /\ [Next]_vars => [Abstract!Next]_(Abstract!wvars)
<1> SUFFICES ASSUME DeliveryInv, [Next]_vars PROVE Abstract!Next \/ UNCHANGED Abstract!wvars
  OBVIOUS
<1>2. ASSUME UNCHANGED <<claims, effects, outcome>> PROVE UNCHANGED Abstract!wvars
  BY <1>2, SameClaims, SameOutcome, Unseen
<1>3. ASSUME UNCHANGED <<claims, effects>>, \A k \in Key : outcome'[k] = "ok" <=> outcome[k] = "ok"
      PROVE  UNCHANGED Abstract!wvars
  BY <1>3, SameClaims, SameOutcome, Unseen
<1>4. ASSUME NEW c \in Client, ClientStep(c) PROVE Abstract!Next \/ UNCHANGED Abstract!wvars
  <2>1. ASSUME NEW k \in Key, Mutate(c, k) PROVE UNCHANGED Abstract!wvars
    <3>1. /\ outcome[k] = "none" /\ UNCHANGED <<claims, effects>>
          /\ \/ outcome' = [outcome EXCEPT ![k] = "rejected"]
             \/ outcome' = [outcome EXCEPT ![k] = "waiting"]
      BY <2>1 DEF Mutate
    <3>2. \A j \in Key : outcome'[j] = "ok" <=> outcome[j] = "ok"
      BY <3>1 DEF DeliveryInv, TypeOK
    <3> QED BY <1>3, <3>1, <3>2
  <2>2. ASSUME NEW t, NEW D \in SUBSET Key, NEW E, \A k \in D : "direct" \in waiting[c][k],
               Failed(c, t, D, E), UNCHANGED <<claims, effects>>
        PROVE  UNCHANGED Abstract!wvars
    <3>1. \A k \in Key : outcome'[k] = IF k \notin D THEN outcome[k]
                                       ELSE IF k \in Queueable THEN "queued" ELSE "unknown"
      BY <2>2 DEF Failed
    <3>2. \A k \in D : outcome[k] = "waiting"
      BY <2>2 DEF DeliveryInv, CallInv, Direct
    <3>3. \A k \in Key : outcome'[k] = "ok" <=> outcome[k] = "ok"
      BY <3>1, <3>2
    <3> QED BY <1>3, <2>2, <3>3
  <2>3. ASSUME NEW k \in Key, NEW w \in Who, CallTimesOut(c, k, w) PROVE UNCHANGED Abstract!wvars
    <3>1. /\ {j \in {k} : w = "direct"} \in SUBSET Key
          /\ \A j \in {j \in {k} : w = "direct"} : "direct" \in waiting[c][j]
      BY <2>3 DEF CallTimesOut
    <3>2. /\ Failed(c, tab[c], {j \in {k} : w = "direct"}, {j \in {k} : w = "drain"})
          /\ UNCHANGED <<claims, effects>>
      BY <2>3 DEF CallTimesOut
    <3> QED BY <2>2, <3>1, <3>2
  <2>4. CASE Disconnect(c)
    <3>1. \A k \in {j \in Key : handler[c][j] = "direct"} : "direct" \in waiting[c][k]
      BY DEF DeliveryInv, CallInv, Who
    <3>2. /\ Failed(c, [tab[c] EXCEPT !.open = FALSE, !.unsent = << >>],
                    {k \in Key : handler[c][k] = "direct"}, {k \in Key : handler[c][k] = "drain"})
          /\ UNCHANGED <<claims, effects>>
      BY <2>4 DEF Disconnect
    <3>3. {k \in Key : handler[c][k] = "direct"} \in SUBSET Key
      OBVIOUS
    <3> QED BY <2>2, <3>1, <3>2, <3>3
  <2>5. ASSUME NEW k \in Key, NEW w \in Who, Settle(c, k, w) PROVE Abstract!Next \/ UNCHANGED Abstract!wvars
    <3>1. effects[k] > 0
      BY <2>5 DEF Settle, DeliveryInv, TabInv, TabGood
    <3>2. /\ outcome' = IF w = "direct" THEN [outcome EXCEPT ![k] = "ok"] ELSE outcome
          /\ UNCHANGED <<claims, effects>>
      BY <2>5 DEF Settle
    <3>3. CASE w = "direct"
      <4>1. \A j \in Key : outcome'[j] = "ok" <=> outcome[j] = "ok" \/ j = k
        BY <3>2, <3>3 DEF DeliveryInv, TypeOK
      <4> QED BY <3>1, <3>2, <4>1, Tells
    <3>4. CASE w # "direct"
      BY <1>2, <3>2, <3>4
    <3> QED BY <3>3, <3>4
  <2>6. CASE Receive(c)
    <3> DEFINE A == [key : Key, ok : BOOLEAN]
    <3>1. answers[c] \in Seq(A) /\ answers[c] # << >>
      BY <2>6 DEF DeliveryInv, TypeOK, Receive
    <3>2. 1 \in DOMAIN answers[c] /\ Head(answers[c]) = answers[c][1]
      <4> HIDE DEF A
      <4> QED BY <3>1, HeadTailProperties, LenProperties, EmptySeq
    <3>3. PICK k \in Key, ok \in BOOLEAN : Head(answers[c]) = [key |-> k, ok |-> ok]
      <4>1. answers[c][1] \in A
        BY <3>2, AnswersName DEF DeliveryInv
      <4> QED BY <3>2, <4>1
    <3>4. ok => effects[k] > 0
      BY <3>2, <3>3 DEF DeliveryInv, AnswerInv
    <3>5. /\ IF handler[c][k] = "none" THEN UNCHANGED outcome
             ELSE IF ok THEN Accepted(c, k, handler[c][k]) ELSE Refused(c, k, handler[c][k])
          /\ UNCHANGED <<claims, effects>>
      BY <2>6, <3>3 DEF Receive
    <3>6. CASE handler[c][k] = "none"
      BY <1>2, <3>5, <3>6
    <3>7. CASE handler[c][k] # "none" /\ ok
      <4>1. outcome' = IF k \in Managed THEN outcome ELSE [outcome EXCEPT ![k] = "ok"]
        BY <3>5, <3>7 DEF Accepted
      <4>2. CASE k \in Managed
        BY <1>2, <3>5, <4>1, <4>2
      <4>3. CASE k \notin Managed
        <5>1. \A j \in Key : outcome'[j] = "ok" <=> outcome[j] = "ok" \/ j = k
          BY <4>1, <4>3 DEF DeliveryInv, TypeOK
        <5> QED BY <3>4, <3>5, <3>7, <5>1, Tells
      <4> QED BY <4>2, <4>3
    <3>8. CASE handler[c][k] # "none" /\ ~ok
      <4>1. outcome' = IF handler[c][k] = "direct" THEN [outcome EXCEPT ![k] = "rejected"] ELSE outcome
        BY <3>5, <3>8 DEF Refused
      <4>2. handler[c][k] = "direct" => outcome[k] = "waiting"
        BY DEF DeliveryInv, CallInv, Direct, Who
      <4>3. \A j \in Key : outcome'[j] = "ok" <=> outcome[j] = "ok"
        BY <4>1, <4>2 DEF DeliveryInv, TypeOK
      <4> QED BY <1>3, <3>5, <4>3
    <3> QED BY <3>6, <3>7, <3>8
  <2>7. ASSUME Open(c) \/ DrainOutbox(c) \/ NextReady(c) \/ DrainTimer(c) \/ RestoreOutbox(c) \/ Reload(c)
                  \/ StorageBreaks(c) \/ DrainSend(c)
        PROVE  UNCHANGED Abstract!wvars
    <3>1. UNCHANGED <<claims, effects, outcome>>
      BY <2>7 DEF Open, DrainOutbox, NextReady, DrainTimer, RestoreOutbox, Reload, StorageBreaks, DrainSend
    <3> QED BY <1>2, <3>1
  <2>8. ASSUME NEW s \in Source, Deliver(c, s) \/ Unsubscribe(c, s) PROVE UNCHANGED Abstract!wvars
    <3>1. UNCHANGED <<claims, effects, outcome>>
      BY <2>8 DEF Deliver, Unsubscribe
    <3> QED BY <1>2, <3>1
  <2> QED BY <1>4, <2>1, <2>3, <2>4, <2>5, <2>6, <2>7, <2>8 DEF ClientStep
<1>5. ASSUME NEW c \in Client, NEW g \in Gen, ServerStep(c, g) PROVE Abstract!Next \/ UNCHANGED Abstract!wvars
  <2>1. CASE Claim(c, g)
    <3>1. /\ UNCHANGED <<effects, outcome>>
          /\ \A k \in Key : claims'[k] = claims[k] \/ (claims[k] = "free" /\ claims'[k] = "held")
      <4>1. PICK k : k = Head(wire[c][g])
        OBVIOUS
      <4>2. /\ UNCHANGED <<effects, outcome>>
            /\ claims' = IF k \in Managed /\ claims[k] = "free"
                         THEN [claims EXCEPT ![k] = "held"] ELSE claims
        BY <2>1, <4>1 DEF Claim
      <4> QED BY <4>2 DEF DeliveryInv, TypeOK
    <3>2. Remembered' = Remembered
      BY <3>1 DEF Remembered
    <3> QED BY <3>1, <3>2, SameOutcome, Unseen
  <2>2. CASE Replay(c, g)
    <3>1. UNCHANGED <<claims, effects, outcome>>
      BY <2>2 DEF Replay
    <3> QED BY <1>2, <3>1
  <2>3. CASE RollbackTx(c, g)
    <3>1. PICK k \in Key : k = exec[c][g].key
      BY <2>3 DEF DeliveryInv, ClaimInv, RollbackTx
    <3>2. /\ exec[c][g].phase = "running" /\ UNCHANGED <<effects, outcome>>
          /\ claims' = IF k \in Managed THEN [claims EXCEPT ![k] = "free"] ELSE claims
      BY <2>3, <3>1 DEF RollbackTx
    <3>3. k \in Managed => claims[k] = "held"
      BY <3>1, <3>2 DEF DeliveryInv, ClaimInv
    <3>4. \A j \in Key : claims'[j] = "committed" <=> claims[j] = "committed"
      BY <3>2, <3>3 DEF DeliveryInv, TypeOK
    <3>5. Remembered' = Remembered
      BY <3>2, <3>4 DEF Remembered
    <3> QED BY <3>2, <3>5, SameOutcome, Unseen
  <2>4. ASSUME NEW ok \in BOOLEAN, CommitTx(c, g, ok) PROVE Abstract!Next
    <3>1. PICK k \in Key : k = exec[c][g].key
      BY <2>4 DEF DeliveryInv, ClaimInv, CommitTx
    <3>2. /\ exec[c][g].phase = "running" /\ UNCHANGED outcome
          /\ effects' = [effects EXCEPT ![k] = @ + 1]
          /\ claims' = IF k \in Managed THEN [claims EXCEPT ![k] = "committed"] ELSE claims
      BY <2>4, <3>1 DEF CommitTx
    <3>3. k \in Managed => claims[k] = "held"
      BY <3>1, <3>2 DEF DeliveryInv, ClaimInv
    <3>4. k \notin Managed => claims[k] = "free" /\ ~(effects[k] > 0)
      <4>1. Runs(c, g, k)
        BY <3>1, <3>2 DEF Runs
      <4> QED BY <4>1 DEF DeliveryInv, SingleInv, ClaimInv
    <3>5. k \notin Remembered
      BY <3>3, <3>4 DEF Remembered
    <3>6. /\ \A j \in Key : claims'[j] = IF j = k /\ k \in Managed THEN "committed" ELSE claims[j]
          /\ \A j \in Key : effects'[j] = IF j = k THEN effects[k] + 1 ELSE effects[j]
          /\ effects[k] + 1 > 0
      BY <3>2 DEF DeliveryInv, TypeOK
    <3>7. Remembered' = Remembered \cup {k}
      BY <3>6 DEF Remembered
    <3>8. Told' = Told
      BY <3>2, SameOutcome
    <3>9. Abstract!Apply(k)
      BY <3>2, <3>5, <3>7, <3>8 DEF Abstract!Apply, Remembered, Told
    <3> QED BY <3>9 DEF Abstract!Next
  <2> QED BY <1>5, <2>1, <2>2, <2>3, <2>4 DEF ServerStep
<1>6. ASSUME NEW k \in Key, BackoffElapses(k) PROVE UNCHANGED Abstract!wvars
  <2>1. UNCHANGED <<claims, effects, outcome>>
    BY <1>6 DEF BackoffElapses
  <2> QED BY <1>2, <2>1
<1>7. ASSUME NEW k \in Key, Sweep(k) PROVE Abstract!Next
  <2>1. /\ claims[k] = "committed" /\ UNCHANGED <<effects, outcome>>
        /\ claims' = [claims EXCEPT ![k] = "free"]
    BY <1>7 DEF Sweep
  <2>2. k \in Managed
    BY <2>1 DEF DeliveryInv, ClaimInv
  <2>3. \A j \in Key : claims'[j] = IF j = k THEN "free" ELSE claims[j]
    BY <2>1 DEF DeliveryInv, TypeOK
  <2>4. Remembered' = Remembered \ {k} /\ k \in Remembered
    BY <2>1, <2>2, <2>3 DEF Remembered
  <2>5. Told' = Told
    BY <2>1, SameOutcome
  <2>6. Abstract!Forget({k}) /\ {k} \in SUBSET Remembered
    BY <2>1, <2>4, <2>5 DEF Abstract!Forget, Remembered, Told
  <2> QED BY <2>6 DEF Abstract!Next, Remembered
<1>8. CASE Restart
  <2>1. /\ UNCHANGED <<effects, outcome>>
        /\ claims' = [k \in Key |-> IF claims[k] = "held" THEN "free" ELSE claims[k]]
    BY <1>8 DEF Restart
  <2>2. \A j \in Key : claims'[j] = "committed" <=> claims[j] = "committed"
    BY <2>1
  <2>3. Remembered' = Remembered
    BY <2>1, <2>2 DEF Remembered
  <2> QED BY <2>1, <2>3, SameOutcome, Unseen
<1>9. CASE UNCHANGED vars
  <2>1. UNCHANGED <<claims, effects, outcome>>
    BY <1>9 DEF vars
  <2> QED BY <1>2, <2>1
<1> QED BY <1>4, <1>5, <1>6, <1>7, <1>8, <1>9 DEF Next

\* The claims, the transactions and what callers are told implement the exactly-once
\* register: no resend, restart or rollback applies a write that is remembered, and
\* success is told only of an effect.
THEOREM WritesOnce == Spec => ExactlyOnce
<1>1. Init => Abstract!Init
  <2>1. Init => Remembered = {} /\ Told = {} /\ effects = [k \in Key |-> 0]
    BY DEF Init, Remembered, Told
  <2> QED BY <2>1 DEF Abstract!Init, Remembered, Told
<1> QED BY <1>1, Refines, DeliveryAlways, PTL DEF Spec, ExactlyOnce, Abstract!Spec

=============================================================================
